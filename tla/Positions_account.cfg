CONSTANTS
    Counts = {1, 2}
    Prices = {1, 4999, 8000}
    MaxFills = 4
SPECIFICATION Spec
INVARIANTS
    TypeOK
    CountMirrorsExchange
    PnlAccountsForCash
    FlatHasNoCost
CHECK_DEADLOCK FALSE
