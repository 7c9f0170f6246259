\* One worker for the user: what sharding the settle queue by user_id
\* (docs/06 5.5) would guarantee; failures, a retry, two crashes, and a user
\* without a balance row.
SPECIFICATION FairSpec
CONSTANTS
    Workers = {w1}
    NoWorker = NoWorker
    NoDelivery = NoDelivery
    Users <- MCSerialUsers
    Requests <- MCRequests
    Owner <- MCSerialOwner
    Tasks <- MCTasks
    Charge <- MCCharge
    Copies = {1}
    MaxRetry = 1
    MaxCrashes = 2
    ResetMayFail = FALSE
    Orders <- NoOrders
    OrderOwner <- Nothing
    OrderAmount <- Nothing
    Adjusts <- NoOrders
    AdjustUser <- Nothing
    AdjustDelta <- Nothing
    Opening <- MCSerialOpening
    OpeningRows <- MCUsers
INVARIANTS
    AckedMeansDone
    BalanceIsLedgerSum
PROPERTIES
    ImplementsAccount
    EventuallyDone
CHECK_DEADLOCK FALSE
