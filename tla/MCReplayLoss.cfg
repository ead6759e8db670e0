SPECIFICATION Spec
CONSTANTS
    m1 = m1  m2 = m2  m3 = m3
    Message = {m1, m2, m3}
    Known <- MCKnown
    Size <- MCSize
    RotationSize = 5
    MaxSessions = 2
    MaxInterruptions = 1
INVARIANT ReplayIsAtLeastOnce
CHECK_DEADLOCK FALSE
