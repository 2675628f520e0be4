CONSTANTS
    Tasks = {t1, t2}
    Kinds = {"account", "slot"}
    Frames <- MCFrames
    Capacity = 6
    FRAME_LEN_BYTES = 1
    QueueCapacity = 1
    MaxWrites = 3
SPECIFICATION Spec
PROPERTY RefusedOnlyWhenFull
CHECK_DEADLOCK FALSE
