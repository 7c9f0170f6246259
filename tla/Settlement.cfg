\* Two workers on two deliveries each of a settlement that must overdraw and
\* of the refund of the same request, a recharge and an adjustment in between.
SPECIFICATION Spec
CONSTANTS
    Workers = {w1, w2}
    NoWorker = NoWorker
    NoDelivery = NoDelivery
    Users <- MCUsers
    Requests <- MCRequests
    Owner <- MCOwner
    Tasks <- MCDuplicated
    Charge <- MCDuplicatedCharge
    Copies = {c1, c2}
    MaxRetry = 0
    MaxCrashes = 0
    ResetMayFail = TRUE
    Orders <- MCOrders
    OrderOwner <- MCOrderOwner
    OrderAmount <- MCOrderAmount
    Adjusts <- MCAdjusts
    AdjustUser <- MCAdjustUser
    AdjustDelta <- MCAdjustDelta
    Opening <- MCOpening
    OpeningRows <- MCUsers
SYMMETRY Symmetric
INVARIANTS
    BookedOnce
    BalanceChain
    AckedMeansReset
CHECK_DEADLOCK FALSE
