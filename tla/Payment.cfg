\* Two callbacks, one retry, one fault, one reload.
SPECIFICATION FairSpec
CONSTANTS
    Users <- MCUsers
    Orders <- MCOrders
    Trades <- MCTrades
    Owner <- MCOwner
    Amount <- MCAmount
    Sum <- MCSum
    Cost = 2
    NoTrade = NoTrade
    NoCache = NoCache
    Callbacks = {1, 2}
    MaxRetry = 1
    MaxFaults = 1
    MaxLoads = 1
INVARIANTS
    CreditedOnce
    CreditsBacked
    SuccessAccounted
    StaleHasCause
PROPERTIES
    SuccessSettles
CHECK_DEADLOCK FALSE
