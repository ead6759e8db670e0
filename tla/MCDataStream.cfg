SPECIFICATION DSFairSpec
CONSTANTS
    Producers = {p1, p2}
    Closers = {c1, c2}
    QueueCapacity = 1
    RetryCount = 1
    InitialBackoff = 2
    MaximumBackoff = 3
    Verdicts = {TRUE, FALSE}
    MaxWrites = 2
    MaxErrors = 1
INVARIANTS
    DSTypeOK
    NoSendOnClosedQueue
    NoRecordUnaccounted
    ClosedMeansDrained
PROPERTIES
    KeepsOrder
    KeepsPromise
    CallsReturn
CHECK_DEADLOCK FALSE
