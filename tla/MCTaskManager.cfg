SPECIFICATION BoundedSpec
CONSTANTS
    b1 = b1
    b2 = b2
    b3 = b3
    ExitMsg = ExitMsg
    MaxSent = 4
    Block <- MCBlock
    Parents <- MCParents
INVARIANTS OneOwner ParentsFirst SameHashInOrder NeverStuck IdleAtExit
CHECK_DEADLOCK FALSE
