SPECIFICATION FairSpec
CONSTANTS
    Procs = {p1, p2, p3}
    NoProc = NoProc
    Commits = {c1, c2}
    NoCommit = NoCommit
    N = 3
    Ceiling = 3
    MaxCost = 2
    Costs = {1, 2}
INVARIANTS
    TypeOK
    PaidAsApproved
    SpendBound
    VerdictIsHonest
PROPERTIES
    ImplementsOneShot
    AuthorizedRunEnds
