SPECIFICATION FairSpec
CONSTANTS
    MAC = {a}
    NoMAC = NoMAC
    MaximumConnections = 2
    MaxID = 3
INVARIANTS
    TokensMatchConnections
    OneActivePerMAC
    ReportsOnlyTheLiving
    CloseEndsConnections
PROPERTIES
    CloseCompletes
CHECK_DEADLOCK FALSE
