SPECIFICATION FairSpec
CONSTANTS
    Hosts = {h1, h2}
    Keys = {k1}
    Checked = {k1}
    Taken = {}
    None = None
    Under <- PlainPaths
    UseAuth = TRUE
    AutoUpdate = TRUE
    ReaddInDelete = FALSE
    MaxTries = 2
    MaxLease = 2
    MaxValue = 2
    MaxRemoves = 1
    MaxFaults = 1
    MaxNet = 1
INVARIANTS PhaseConsistent NothingForgotten BeliefTrue
PROPERTY Settles
CHECK_DEADLOCK FALSE
