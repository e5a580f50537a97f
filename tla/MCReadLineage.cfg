SPECIFICATION Spec
CONSTANTS
    Procs = {p1}
    Overlap = FALSE
    MaxCrashes = 1
INVARIANTS
    TypeOK
    ClaimsAreBacked
PROPERTIES
    NothingHeldIsReread
    PassEnds
CHECK_DEADLOCK FALSE
