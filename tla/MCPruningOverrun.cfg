SPECIFICATION Spec
CONSTANTS
    Top <- MCTop
    Score <- MCScore
    Time <- MCTime
    Side <- MCSide
    MergedBy <- MCMergedBy
    F = 3
    P = 5
    Window = 1
    Plans <- OverrunPlans
INVARIANTS RootIsInChainStore
CHECK_DEADLOCK FALSE
