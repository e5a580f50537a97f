SPECIFICATION RebuttalSpec
CONSTANTS
    p1 = p1
    p2 = p2
    bad = bad
    good = good
    other = other
    r1 = r1
    r2 = r2
    Procs = {p1, p2}
    Candidates <- MCCandidates
    Keys = {bad, good, other}
    Valid = {good, other}
    RebuttalAnswers <- MCAnswers
    Builds <- MCBuilds
    Ceiling = 3
    MaxCrashes = 1
INVARIANTS
    RebuttalTypeOK
    PaidOnceAhead
    FrozenIsPaid
CHECK_DEADLOCK FALSE
