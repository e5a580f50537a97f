SPECIFICATION RunnerSpec
CONSTANTS
    p1 = p1
    p2 = p2
    c1 = c1
    c2 = c2
    Procs = {p1, p2}
    Live <- MCLive
    N = 2
    Commits = {c1, c2}
    RunnerAnswers <- MCAnswers
    Ceiling = 5
    MaxBuilds = 6
    MaxCrashes = 1
SYMMETRY Symmetric
INVARIANTS
    RunnerTypeOK
    OncePerApproval
    RecordIsHonest
CHECK_DEADLOCK FALSE
