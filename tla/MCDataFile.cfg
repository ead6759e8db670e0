SPECIFICATION Spec
CONSTANTS
    RecordSize = 2
    BufferSize = 3
    RotationSize = 5
    MaxRecords = 6
    MaxFaults = 2
    MaxCrashes = 2
INVARIANTS
    ArrivalOrder
    NothingAboveActive
    CleanCloseIsDurable
PROPERTIES
    CompletedImmutable
CHECK_DEADLOCK FALSE
