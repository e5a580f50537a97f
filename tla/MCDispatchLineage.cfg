SPECIFICATION Spec
CONSTANTS
    Procs = {p1, p2}
    Commits = {c1, c2}
    None = None
    Saves <- MCSaves
    N = 3
    Bytes <- MCBytes
    WriteRate = 1
    OutputMax = 1
    Overrun = 1
    Prices <- MCPrices
CHECK_DEADLOCK FALSE
SYMMETRY Symmetry
INVARIANTS
    TypeOK
    PaidOnce
    SpendIsBounded
    FrozenIsAccountedFor
