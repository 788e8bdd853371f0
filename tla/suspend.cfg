CONSTANTS
    MaxTime = 7
    Durations = {1, 2, 3}
    MaxSuspends = 3
SPECIFICATION Spec
INVARIANTS
    SuspensionGranted

    
CHECK_DEADLOCK FALSE
