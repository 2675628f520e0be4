CONSTANTS
    Tasks = {t1, t2}
    Kinds = {"account", "slot"}
    Frames <- MCFittingFrames
    Capacity = 6
    FRAME_LEN_BYTES = 1
    QueueCapacity = 1
    MaxWrites = 2
SPECIFICATION FairSpec
PROPERTY EvictedReaderStops
CHECK_DEADLOCK FALSE
