\* The streams: one question in either mode, one tick, a history of two events.
SPECIFICATION Spec
CONSTANTS
    Questions = 1
    MaxTicks = 1
    HistorySize = 2
    Connections = {c1}
INVARIANTS
    StreamInOrder
    OnlyOvertakenSkipped
PROPERTY
    StreamCatchesUp
\* The questions and the ticks are bounded.
CHECK_DEADLOCK FALSE
