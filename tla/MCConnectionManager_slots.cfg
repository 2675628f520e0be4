CONSTANTS
    MAX_CONNECTION_SLOTS = 2
    SLOT_IDLE_TIMEOUT = 0
    Handlers = {h1, h2}
    Dispatchers = {"slot"}
    Topics = {}
    Updates <- MCUpdates
    Casts <- SlotsCasts
    entry = 2
    MaxConnectionId = 3
    MaxTime = 1
    None = None
SPECIFICATION SlotsSpec
INVARIANTS
    DispatchReachesAll
    Inv
PROPERTIES
    RefusalIsJustified
    FanOutsEnd
    SilentIsEvicted
    RequestsEnd
    TableKeepsEntries
CHECK_DEADLOCK FALSE
