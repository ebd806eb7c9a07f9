CONSTANTS
    Silence = 60
    WatchTick = 5
    MaxBackoff = 30
SPECIFICATION FairSpec
INVARIANTS
    TypeOK
    SilenceIsNoticed
PROPERTIES
    Reconnects
