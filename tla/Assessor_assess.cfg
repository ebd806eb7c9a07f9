CONSTANTS
    Tickers = {t1, t2}
    Twice = {t1}
    MinBetween = 2
    MaxPerTick = 2
    MaxPages = 2
    MaxRetries = 2
    MaxRateLimitRetries = 3
    MaxTime = 4
SPECIFICATION FairSpec
INVARIANTS
    TypeOK
    RequestsBounded
PROPERTIES
    DecisionsApart
    TickEnds
CHECK_DEADLOCK FALSE
