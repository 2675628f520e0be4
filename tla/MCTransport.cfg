SPECIFICATION TransportSpec
CONSTANTS
    Words <- MCWords
    Keys <- MCKeys
    Signatures = {24}
    Payloads <- MCPayloads
    Lz4Sizes <- MCLz4Sizes
    Tokens <- MCTokens
    KeyLists <- MCKeyLists
    RingPaths <- MCRingPaths
    Garbage <- MCGarbage
    Cuts = {0, 1, 2}
    Others <- MCOthers
    Limit = 5
    BufLen = 2
    MaxNotifies = 8
    Lengths = {0, 1, 3, 4}
    FRAME_LEN_BYTES = 2
    MAX_FRAME_SIZE = 3
    ANCILLARY_RECV_BUF = 4
    Buffer = 5
    Window = 2
    MaxFrames = 4
INVARIANTS
    RoundTrip
    DamageIsRefused
    FramesInOrder
PROPERTIES
    ImplementsWakeup
    EveryFrameIsReturned
CHECK_DEADLOCK FALSE
