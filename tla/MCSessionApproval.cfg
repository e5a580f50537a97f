SPECIFICATION Spec
CONSTANTS
    Threads = {t1, t2}
    Symbols = {NVDA, MSFT}
    Default = NVDA
    NoSymbol = NoSymbol
    MaxTime = 1
    MaxHead = 2
    MaxCaptures = 1
SYMMETRY Symmetry
INVARIANTS
    TypeOK
    OnlyOverlapRepeats
