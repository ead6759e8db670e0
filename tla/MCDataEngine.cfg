SPECIFICATION DEFairSpec
CONSTANTS
    Writers = {w1, w2}
    Closers = {c1, c2}
    Keys = {k1, k2}
    None = None
    QueueRoom = 2
    MaxWrites = 2
INVARIANTS
    OneStreamPerKey
    NoStreamOutlivesClose
PROPERTIES
    EngineCloseCompletes
CHECK_DEADLOCK FALSE
