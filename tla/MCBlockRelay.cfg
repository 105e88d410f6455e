SPECIFICATION FairSpec
CONSTANTS
    Blocks <- DagBlocks
    DirectParents <- DagParents
    BlueWork <- DagWork
    Tip = "t"
    p1 = p1
    p2 = p2
    Peers = {p1, p2}
    Scenarios <- DagScenarios
    MaxOrphans = 2
INVARIANTS ChildrenAreLinked SubmittedWithParents
PROPERTIES NextBlockBringsTheRest
CHECK_DEADLOCK FALSE
