SPECIFICATION FairSpec
CONSTANTS
    g = g
    b1 = b1
    b2 = b2
    b3 = b3
    ExitMsg = ExitMsg
    Genesis = g
    Block <- Chain
    Parents <- ChainParents
    HeaderFault <- FaultyHeaders
    BodyFault <- FaultyBodies
    Offered <- FaultyOffers
    MaxTasks = 3
INVARIANTS NoPanic
PROPERTIES EveryTaskAnswered ExitGetsThrough
CHECK_DEADLOCK FALSE
