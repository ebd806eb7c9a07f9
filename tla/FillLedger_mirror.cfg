CONSTANTS
    TicksPerSecond = 2
    PageSize = 2
    Notifying = TRUE
    Undated = FALSE
    Crowded = FALSE
    ZoneEast = 0
    MaxTick = 4
    MaxTrades = 3
    MaxCount = 6
    MaxStarts = 2
SPECIFICATION Spec
INVARIANTS
    MirrorAfterCatchUp
CHECK_DEADLOCK FALSE
