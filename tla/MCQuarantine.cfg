SPECIFICATION FairSpec
CONSTANTS
    m1 = m1  m2 = m2  m3 = m3
    Message = {m1, m2, m3}
    Known <- MCKnown
    Size <- MCSize
    RotationSize = 5
    MaxSessions = 3
    MaxInterruptions = 2
INVARIANTS AcceptedStayAvailable DuplicatesNeedInterruptions
PROPERTIES SourceNeverChanges ReplayFinishes
CHECK_DEADLOCK FALSE
