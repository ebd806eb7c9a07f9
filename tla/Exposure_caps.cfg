CONSTANTS
    Tickers = {t1, t2}
    Prices = {3334, 6009}
    MarketCap = 15352
    TotalCap = 18686
    PerOrderMax = 2
    MaxOrders = 2
    MaxOutstanding = 2
SPECIFICATION Spec
SYMMETRY Symmetry
INVARIANTS
    TypeOK
    CapsHold
    
PROPERTIES
    ClosingNeverOpens
CHECK_DEADLOCK FALSE
