SPECIFICATION FairSpec
CONSTANTS
    d1 = d1 d2 = d2 c1 = c1 c2 = c2 ok = ok high = high fast = fast slow = slow
    Device = {d1, d2}
    Connection = {c1, c2}
    NoConnection = NoConnection
    Worker = {}
    Reports <- MCReports
    BoundTo <- MCBoundTo
    RoomOf <- MCRoomOf
    Sample = {ok, high}
    NoSample = NoSample
    OutOfRange = {high}
    HistoryCapacity = 2
    Client = {fast, slow}
    Stalled = {slow}
    EventQueueCapacity = 2
    Feed <- MCFeed
    Untold = Untold
INVARIANTS HistoryIsRecent SlowClientsHurtThemselves EventsMatchState
PROPERTY StreamsEnd
CHECK_DEADLOCK FALSE
