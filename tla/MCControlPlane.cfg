CONSTANTS
    Topics = {a, b}
    FirstGeneration = 256
    MaxGeneration = 258
    MaxCalls = 3
    SlotIndex = 0
    RingBytes <- OneCharPath
    None = None
SPECIFICATION FairSpec
INVARIANTS
    AppliedUntilCancelled
    NoStaleReply
    AcceptedIsForwarded
    OrphansAreReported
    InStepUnlessCut
PROPERTIES
    CallsReturn
CHECK_DEADLOCK FALSE
