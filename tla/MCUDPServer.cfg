SPECIFICATION FairSpec
CONSTANTS
    Workers = {w1, w2}
    Buffer = {b1, b2, b3, b4}
    QueueCapacity = 1
    Sent <- MCSent
    Damage <- MCDamage
    UdpMaxPacketSize = 13
    MaximumPayloadSize = 12
    LastSensorType = 1
INVARIANTS
    DatagramsAddUp
    RoutedAsSent
    CloseDrains
PROPERTY
    CloseCompletes
CHECK_DEADLOCK FALSE
