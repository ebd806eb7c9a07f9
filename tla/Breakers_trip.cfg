CONSTANTS
    RateLimit = 2
    ErrorLimit = 2
    Window = 1
    DequeLen = 2
    LossLimit = 2
    MaxDays = 2
    MaxPnl = 1
    MaxOrders = 3
    MaxErrors = 3
SPECIFICATION Spec
INVARIANTS
    TypeOK
    RateBounded
    SpikeHalts
    DailyIsToday
PROPERTIES
    DayLossStopsOrders
CHECK_DEADLOCK FALSE
