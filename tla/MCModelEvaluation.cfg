SPECIFICATION EvalSpec
CONSTANTS
    p1 = p1
    p2 = p2
    k1 = k1
    k2 = k2
    Procs = {p1, p2}
    Ladder <- MCLadder
    Cases <- MCCases
    Critical <- MCCritical
    EvalAnswers <- MCAnswers
    Ceiling = 5
    MaxCharge = 2
    MaxVersions = 2
    MaxCrashes = 1
INVARIANTS
    EvalTypeOK
    PaymentsAreAccounted
    AuthorityIsEarned
CHECK_DEADLOCK FALSE
