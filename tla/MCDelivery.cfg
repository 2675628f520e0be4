CONSTANTS
    Tasks = {t1, t2}
    Kinds = {"account", "slot"}
    Frames <- MCFrames
    Capacity = 6
    FRAME_LEN_BYTES = 1
    QueueCapacity = 1
    MaxWrites = 2
SPECIFICATION FairSpec
INVARIANTS
    NoLostWakeup
    DeliveredInOrder
    NewestKept
    EndsOnlyWhenEvicted
    Inv
PROPERTIES
    EveryFrameIsRead
    SentinelStopsReader
    FollowsEntryLife
CHECK_DEADLOCK FALSE
