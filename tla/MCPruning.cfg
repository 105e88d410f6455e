SPECIFICATION Spec
CONSTANTS
    Top <- MCTop
    Score <- MCScore
    Time <- MCTime
    Side <- MCSide
    MergedBy <- MCMergedBy
    F = 3
    P = 5
    Window = 1
    Plans <- MCPlans
INVARIANTS UtxoSetMatchesPosition HistoryIsConsecutive SettledWhenIdle NoPanic PointIsServed VirtualSetMatchesSink
CHECK_DEADLOCK FALSE
