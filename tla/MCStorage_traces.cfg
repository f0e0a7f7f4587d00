SPECIFICATION Spec
CONSTANTS
    c1 = c1
    c2 = c2
    c3 = c3
    resA = resA
    resB = resB
    scopeA = scopeA
    scopeB = scopeB
    garbled = garbled
    Call = {c1, c2, c3}
    Batch <- TraceBatches
    Bad = {}
    Unprintable = {}
    Verbose = FALSE
    MaxReset = 2
    hashValue <- DistinctHash
SYMMETRY CallSymmetry
INVARIANTS
    DanglingNeedsReset
    NothingSurvivesReset
PROPERTIES
    StableUntilReset
    StoresAtOnce
\* Every call may be over and no reset left to make.
CHECK_DEADLOCK FALSE
