SPECIFICATION Spec
CONSTANTS
    Block <- ForkBlocks
    Genesis = "g"
    Parents <- ForkParents
    Work <- UniformWork
    Rank <- MCRank
    Tx <- TableTx
    Handle = {"h"}
    TxsOf <- TableTxs
    Spends <- TableSpends
    Makes <- TableMakes
    Cites <- TableCites
    Deploys <- TableNothing
    Needs <- TableNothing
    Emits = {}
    BadHeader = {}
    Maturity = 1
    Nets <- ForkNets
    SafetyMargin = 1
    MaxParents = 2
    NoBlock = "none"
    MaxCrashes = 0
INVARIANT VerdictsArePure
CHECK_DEADLOCK FALSE
