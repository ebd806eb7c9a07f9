CONSTANTS
    Token = 2
    Capacity = 3
    Horizon = 6
    Getters = {g1, g2}
    Others = {r1}
    MaxAttempts = 2
    Backoff = 1
    Timeout = 1
    Ttl = 2
SPECIFICATION Spec
SYMMETRY Symmetry
INVARIANTS
    TypeOK
    RateAtMostTwice
    YoungIsRecent
PROPERTIES
    BalanceNeverGoesBack
CHECK_DEADLOCK FALSE
