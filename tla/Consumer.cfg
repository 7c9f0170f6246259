\* Two workers, two retries, lost channels and crashes.
SPECIFICATION FairSpec
CONSTANTS
    Tasks <- MCTasks
    Unhandled <- MCUnhandled
    Workers <- MCWorkers
    Ids = {1, 2, 3, 4}
    Prefetch = 2
    MaxRetry = 2
    Buckets <- MCBuckets
    Timeout = 2
    MaxFaults = 1
    Backoff <- MCBackoff
INVARIANTS
    NothingLost
    CopiesBounded
    RetryWindow
PROPERTIES
    Progress
CHECK_DEADLOCK FALSE
