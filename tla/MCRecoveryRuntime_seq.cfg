SPECIFICATION FairSpec
CONSTANTS
    Procs = {p1, p2}
    Approvals = {a1, a2}
    NoApproval = NoApproval
    Commits = {h1, h2}
    NoCommit = NoCommit
    Overlap = FALSE
    MaxCrashes = 3
    N = 3
    Sources <- MCSources
    Known = 4
    Ceiling = 2
    MaxCost = 3
    Costs = {1, 3}
    Doubts = {0, 3}
CHECK_DEADLOCK FALSE
INVARIANTS
    TypeOK
    AtMostOneRecoveryPost
    VerdictAgreesWithJournal
PROPERTIES
    AttemptIsSettled
