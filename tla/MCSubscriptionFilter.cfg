CONSTANTS
    Keys = {k1, k2, k3}
    BloomThreshold = 2
    MaxRequests = 2
SPECIFICATION FilterSpec
SYMMETRY KeySymmetry
INVARIANTS
    FilterIsUnion
    MatchesExactlyWhatWasAsked
