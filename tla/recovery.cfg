SPECIFICATION Spec
CONSTANTS
    MaxConns = 3
    MaxSends = 3
    MaxPackets = 2
    Attempts = 1
INVARIANTS
    ReplayComplete
    DeliveredInOrder
    DropsOnlyWhenBusy
    LockHasHandler
PROPERTIES
    ExplicitCloseFinal
CHECK_DEADLOCK FALSE
