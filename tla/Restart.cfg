SPECIFICATION Spec
CONSTANTS
    Senders = {s1, s2, s3}
    Pids = {p1, p2}
    Consumers = {c1, c2}
    NSlots = 1
    MaxId = 2
    None = None
INVARIANTS
    LeftoverBlocksOnce
    RingsHaveTheirFiles
PROPERTIES
    OpensOwnRing
CHECK_DEADLOCK FALSE
