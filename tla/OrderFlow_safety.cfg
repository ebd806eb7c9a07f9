CONSTANTS
    Signals = {s1, s2}
    MaxAttempts = 1
    Crowded = TRUE
    Notifying = FALSE
    NoSignal = NoSignal
SPECIFICATION Spec
SYMMETRY Symmetry
INVARIANTS
    TypeOK
    NoOrderWithoutRow
    HaltStopsOrders
    HaltLeavesAtMostOne
    ReportedRowIsTrue
    LostWasAbsent
PROPERTIES
    FilledIsFinal
CHECK_DEADLOCK FALSE
