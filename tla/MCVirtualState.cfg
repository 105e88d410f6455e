SPECIFICATION FairSpec
CONSTANTS
    Block <- AllBlocks
    Genesis = "g"
    Parents <- AllParents
    Work <- DeepWork
    Rank <- MCRank
    Tx <- PayTx
    Handle = {"h"}
    TxsOf <- PayTxs
    Spends <- PaySpends
    Makes <- PayMakes
    Cites <- PayNothing
    Deploys <- PayDeploys
    Needs <- PayNeeds
    Emits = {"p", "s"}
    BadHeader = {"y"}
    Maturity = 1
    Nets <- AllNets
    SafetyMargin = 2
    MaxParents = 2
    NoBlock = "none"
    MaxCrashes = 1
INVARIANTS NoPanic UtxoSetIsChainState 
PROPERTIES SinkIsBest SinksConverge FinalityIsKept
CHECK_DEADLOCK FALSE
