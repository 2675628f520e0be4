CONSTANTS
    MAX_CONNECTION_SLOTS = 1
    SLOT_IDLE_TIMEOUT = 0
    Handlers = {h1, h2}
    Dispatchers = {"account", "slot"}
    Topics = {t1}
    Updates <- MCUpdates
    Casts <- ReuseCasts
    entry = 2
    MaxConnectionId = 2
    MaxTime = 1
    None = None
SPECIFICATION ReuseSpec
SYMMETRY HandlerSymmetry
INVARIANTS
    JustifiedClose
    RemovedIsClosed
    FilterIsWhatWasAcked
PROPERTY
    SlotChangesHandsCleanly
