\* Two settlements that together exceed the balance, two workers.
SPECIFICATION Spec
CONSTANTS
    Workers = {w1, w2}
    NoWorker = NoWorker
    NoDelivery = NoDelivery
    Users <- MCUsers
    Requests <- MCRequests
    Owner <- MCOwner
    Tasks <- MCSettles
    Charge <- MCSettleCharge
    Copies = {1}
    MaxRetry = 0
    MaxCrashes = 0
    ResetMayFail = FALSE
    Orders <- NoOrders
    OrderOwner <- Nothing
    OrderAmount <- Nothing
    Adjusts <- NoOrders
    AdjustUser <- Nothing
    AdjustDelta <- Nothing
    Opening <- MCOpening
    OpeningRows <- MCUsers
INVARIANT BalanceIsLedgerSum
CHECK_DEADLOCK FALSE
