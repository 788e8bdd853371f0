CONSTANTS
    Objects = {e1, e2}
    Nodes <- MCTwo
    Self <- MCSelf
    None = none
    MaxMessages = 2
    MsgTimeout = 2
    GcTimeout = 1
    SendBuffer = 2
    LoopTimes = 1
SPECIFICATION FairSpec
INVARIANTS
    IdleReachable
PROPERTIES
    
    IdleCollected
CHECK_DEADLOCK FALSE
