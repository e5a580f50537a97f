SPECIFICATION Spec
CONSTANTS
    p1 = p1
    p2 = p2
    Procs = {p1, p2}
    Keys = {"probed", "other"}
    Probed = "probed"
    Answers <- MCAnswers
    Builds <- MCBuilds
    Ceiling = 3
    MaxCrashes = 2
SYMMETRY Symmetric
INVARIANTS
    TypeOK
    PaidOnceAhead
    RecordIsHonest
PROPERTIES
    DecisionIsFinal
