SPECIFICATION FairSpec
CONSTANTS
    Procs = {p1, p2}
    Builds <- MCBuilds
    Ceiling = 1
    MaxCost = 2
    Costs = {1, 2}
    MaxCrashes = 2
CHECK_DEADLOCK FALSE
INVARIANTS
    TypeOK
    OneDecision
PROPERTIES
    DecisionGetsReceipt
