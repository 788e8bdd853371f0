CONSTANTS
    NumModules = 3
    SignalSlots = 2
    MayPump = TRUE
    MayNest = FALSE
    MayLosePid = FALSE
    MayDestroy = TRUE
SPECIFICATION Spec
INVARIANTS
    FlagsConsistent
    NothingLeftBehind
PROPERTIES
    KeepsContract
CHECK_DEADLOCK FALSE
