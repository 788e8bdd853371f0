CONSTANTS
    Objects = {e1, e2}
    Nodes <- MCRenamed
    Self <- MCSelf
    None = none
    MaxMessages = 3
    MsgTimeout = 1
    GcTimeout = 1
    SendBuffer = 2
    LoopTimes = 1
SPECIFICATION Spec
SYMMETRY Symmetry
INVARIANTS
    WakersConsistent
    PendingWatched
    QueuedOnce
    NoOvertaking
CHECK_DEADLOCK FALSE
