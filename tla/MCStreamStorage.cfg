SPECIFICATION Spec
CONSTANTS
    Producers = {p1}
    Closers = {c1}
    QueueCapacity = 2
    RetryCount = 1
    InitialBackoff = 1
    MaximumBackoff = 1
    Verdicts = {TRUE, FALSE}
    MaxWrites = 4
    MaxErrors = 2
    RecordSize = 2
    BufferSize = 3
    RotationSize = 5
    MaxFaults = 2
INVARIANTS
    NoErrorMeansDurable
CHECK_DEADLOCK FALSE
