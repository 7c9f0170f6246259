\* Leaked holds and the reclaim task, which may fail and crash; requests that
\* take longer than the threshold.
SPECIFICATION Spec
CONSTANTS
    r1 = r1
    r2 = r2
    Users <- MCUsers
    Requests = {r1, r2}
    Owner <- MCOwner
    Est <- MCEst
    Cost <- MCCost
    Opening <- MCOpening
    NoCache = NoCache
    Threshold = 3
    TTL = 4
    AuditMayFail = TRUE
    ResetMayFail = TRUE
INVARIANTS
    FrozenBacked
    GrantsWithinLoaded
    ReturnsDeadOnly
PROPERTIES
    OnlyExpiryForgets
CHECK_DEADLOCK FALSE
