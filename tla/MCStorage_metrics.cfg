SPECIFICATION Spec
CONSTANTS
    c1 = c1
    c2 = c2
    c3 = c3
    resA = resA
    resB = resB
    scopeA = scopeA
    scopeB = scopeB
    garbled = garbled
    Call = {c1, c2, c3}
    Batch <- MetricBatches
    Bad = {}
    Unprintable = {}
    Verbose = FALSE
    MaxReset = 1
    hashValue <- CollidingHash
SYMMETRY CallSymmetry
INVARIANTS
    TypeOK
    FiledUnderOwnHash
    ConflictIffDiffers
    LongestDescription
    StoreInv
PROPERTIES
    StableUntilReset
\* Every call may be over and no reset left to make.
CHECK_DEADLOCK FALSE
