SPECIFICATION SVFairSpec
CONSTANTS
    Conns = {c1, c2}
    Workers = {w1}
    Opener = run
    QueueCapacity = 1
    Room = 1
INVARIANTS
    FailedOpenLeavesNothing
    DoneMeansStopped
    FailuresAreReported
PROPERTIES
    ProcessEnds
CHECK_DEADLOCK FALSE
