\* Two channels and a chain of two models; a channel changes, a Redis call
\* fails, the client leaves, the process dies; two events through a channel of
\* one.
SPECIFICATION FairSpec
CONSTANTS
    Models <- MCModels
    Requested = "m1"
    GroupFallbacks <- MCGroupFallbacks
    ModelFallbacks <- MCModelFallbacks
    NumChannels = 2
    MaxChanges = 1
    MaxFaults = 1
    MaxCrashes = 1
    Buffer = 1
    MaxEvents = 2
INVARIANTS
    ServedIsMetered
    HoldHasCause
    FailoverInOrder
    WholeAnswer
    
PROPERTIES
    StreamCallsEnd
CHECK_DEADLOCK FALSE
