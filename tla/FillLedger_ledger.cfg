CONSTANTS
    TicksPerSecond = 2
    PageSize = 1
    Notifying = TRUE
    Undated = TRUE
    Crowded = TRUE
    ZoneEast = 1
    MaxTick = 4
    MaxTrades = 2
    MaxCount = 4
    MaxStarts = 2
SPECIFICATION FairSpec
INVARIANTS
    TypeOK
    BookedStaysBehind
    LostOnlyWithinSecond
PROPERTIES
    EventuallyMirrors
CHECK_DEADLOCK FALSE
