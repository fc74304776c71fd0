SPECIFICATION Spec
CONSTANTS
    HeartbeatInterval = 2
    HeartbeatTimeout = 3
    ForceClose = 1
    RateWindow = 3
    RateLimit = 1
    Batching = 2
    Intervals = 3
    Horizon = 9
INVARIANTS
    DeadPeerNoticed
    RateBounded
    EndsWithConnection
PROPERTY
    ClosesTheSilent
CHECK_DEADLOCK FALSE
