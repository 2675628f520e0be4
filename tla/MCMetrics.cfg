SPECIFICATION Spec
CONSTANTS
    Recorders = {r1, r2}
    Flushers = {f1}
    Times <- MCTimes
    NANOS_PER_US = 4
    U64_MAX = 15
    MaxRecords = 2
    MaxEvents = 1
SYMMETRY RecorderSymmetry
INVARIANTS
    DelayIsRoundedUp
    NothingLost
    PeakIsReported
    Inv
PROPERTIES
    QuietFlushIsExact
