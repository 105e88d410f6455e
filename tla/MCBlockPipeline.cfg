SPECIFICATION Spec
CONSTANTS
    g = g
    b1 = b1
    b2 = b2
    b3 = b3
    ExitMsg = ExitMsg
    Genesis = g
    Block <- Wide
    Parents <- WideParents
    HeaderFault <- Early
    BodyFault <- Sound
    Offered <- SoundOffers
    MaxTasks = 3
INVARIANTS NoSpuriousMissing TipsAreMaximal OnlyFaultyMarkedInvalid
PROPERTIES StagesAreTaskManagers StatusOnlyAdvances
CHECK_DEADLOCK FALSE
