CONSTANTS
    up = up
    near = near
    far = far
    Peers = {up, near, far}
    Up = up
    Self = Self
    None = None
    Absent = Absent
    Upstreams <- MCUpstreams
    Settled = {up, near}
    Targets = {near, far}
    Allowed = {near}
    Connectable = {near, far}
    DirectAllowed = TRUE
    SameUpstreamOnly = FALSE
    MaxTry = 2
    StartInterval = 1
    MaxInterval = 2
    LostTimeout = 1
    MaxFaults = 2
SPECIFICATION Spec
INVARIANTS HandlesConsistent WaitersWatched
PROPERTIES DialsPaced UnreadyFollowsProxy
CHECK_DEADLOCK FALSE
