\* A write ends in the middle of a line, the broker goes away and comes back, the process crashes.
SPECIFICATION FairSpec
CONSTANTS
    t1 = t1
    t2 = t2
    t3 = t3
    Tasks <- MCTasks
    Invalid <- MCInvalid
    Long <- MCLong
    MaxTears = 1
    Nobody = Nobody
    Recoverer = Recoverer
    MaxFlaps = 2
    MaxCrashes = 1
INVARIANTS
    AckedLossBounded
PROPERTIES
    ReplayFollowsDelivery
CHECK_DEADLOCK FALSE
