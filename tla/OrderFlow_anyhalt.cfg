CONSTANTS
    Signals = {s1}
    MaxAttempts = 1
    Crowded = FALSE
    Notifying = FALSE
    NoSignal = NoSignal
SPECIFICATION FairSpec
PROPERTIES
    AnyHaltIsSwept
CHECK_DEADLOCK FALSE
