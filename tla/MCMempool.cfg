SPECIFICATION Spec
CONSTANTS
    Tx <- MCTx
    NoTx = "none"
    Inputs <- MCInputs
    Fee <- MCFee
    Size <- MCSize
    Fickle = {"a"}
    Batches <- MCBatches
    MaxCount = 3
    SizeLimit = 5
    MaxOrphans = 1
    Budget <- MCBudget
INVARIANTS OwnerIsTheSpender FrontierIsRight OrphansKnowTheirParents AcceptedLeavesThePool EvictionMakesRoom TemplateHasNoDoubleSpend
CHECK_DEADLOCK FALSE
