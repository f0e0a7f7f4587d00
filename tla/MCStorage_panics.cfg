SPECIFICATION Spec
CONSTANTS
    c1 = c1
    c2 = c2
    c3 = c3
    resA = resA
    resB = resB
    scopeA = scopeA
    scopeB = scopeB
    garbled = garbled
    Call = {c1, c2, c3}
    Batch <- OddBatches
    Bad = {"bad"}
    Unprintable = {garbled}
    Verbose = TRUE
    MaxReset = 1
    hashValue <- DistinctHash
SYMMETRY CallSymmetry
INVARIANTS
    StoreInv
    EmptyStreamHasWriter
    EndsOverShared
PROPERTIES
    StoresAtOnce
    EveryStepAdvances
\* Every call may be over and no reset left to make.
CHECK_DEADLOCK FALSE
