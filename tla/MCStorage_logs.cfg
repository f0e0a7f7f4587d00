SPECIFICATION Spec
CONSTANTS
    c1 = c1
    c2 = c2
    c3 = c3
    resA = resA
    resB = resB
    scopeA = scopeA
    scopeB = scopeB
    garbled = garbled
    Call = {c1, c2, c3}
    Batch <- LogBatches
    Bad = {}
    Unprintable = {}
    Verbose = FALSE
    MaxReset = 1
    hashValue <- CollidingHash
SYMMETRY CallSymmetry
INVARIANTS
    StoredIsVisible
    KeptOnceInOrder
PROPERTIES
    StableUntilReset
\* Every call may be over and no reset left to make.
CHECK_DEADLOCK FALSE
