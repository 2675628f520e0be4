CONSTANTS
    Topics = {a, b}
    FirstGeneration = 256
    MaxGeneration = 257
    MaxCalls = 2
    SlotIndex = 0
    RingBytes <- OneCharPath
    None = None
SPECIFICATION Spec
SYMMETRY TopicSymmetry
INVARIANT DescriptorIsRetrieved
CHECK_DEADLOCK FALSE
