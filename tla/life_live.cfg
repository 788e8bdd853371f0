CONSTANTS
    NumModules = 2
    SignalSlots = 1
    MayPump = FALSE
    MayNest = TRUE
    MayLosePid = TRUE
    MayDestroy = FALSE
SPECIFICATION FairSpec
PROPERTIES
    StopCloses
    InitEnds
CHECK_DEADLOCK FALSE
