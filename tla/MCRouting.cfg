SPECIFICATION FairSpec
CONSTANTS
    MACOf <- MCMACOf
    Locations <- MCLocations
    SensorTypeOf <- MCSensorTypeOf
    Units <- MCUnits
    ValidRest <- MCValidRest
    Contents <- MCContents
    Messages <- MCMessages
    Routers = {r1, r2}
    Backdated = TRUE
    MaxEdits = 2
    MaxFaults = 1
    MaxMessages = 2
INVARIANTS
    OnlyDevicesChange
    OneSnapshotPerMessage
    RecordsAddUp
PROPERTY
    FollowsFile
CHECK_DEADLOCK FALSE
