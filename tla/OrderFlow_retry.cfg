CONSTANTS
    Signals = {s1}
    MaxAttempts = 2
    Crowded = TRUE
    Notifying = TRUE
    NoSignal = NoSignal
SPECIFICATION FairSpec
INVARIANTS
    OrderInv
    ReportedInv
PROPERTIES
    KeepsIntent
    LockIsReleased
    HaltIsSwept
CHECK_DEADLOCK FALSE
