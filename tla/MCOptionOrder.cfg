SPECIFICATION OrderSpec
CONSTANTS
    Underlyings = {NVDA, MSFT}
    Premiums = {1, 2}
    Marks <- Accounts
    NewPct = 3
    SamePct = 3
    AggPct = 4
    ReservePct = 50
    MaxContracts = 2
    None = None
    MaxDecisions = 2
    MaxIntents = 2
    MaxOrders = 2
SYMMETRY Symmetry
INVARIANTS
    OrderTypeOK
    ExposureBounded
PROPERTIES
    OrderRespectsCaps
