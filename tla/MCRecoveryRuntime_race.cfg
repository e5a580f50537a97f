SPECIFICATION Spec
CONSTANTS
    Procs = {p1, p2}
    Approvals = {a1, a2}
    NoApproval = NoApproval
    Commits = {h1}
    NoCommit = NoCommit
    Overlap = TRUE
    MaxCrashes = 0
    N = 3
    Sources <- MCSources
    Known = 4
    Ceiling = 2
    MaxCost = 3
    Costs = {1, 3}
    Doubts = {0, 3}
CHECK_DEADLOCK FALSE
PROPERTIES
    NeverPostAgain
