SPECIFICATION FairSpec
CONSTANTS
    MaxConns = 2
    MaxSends = 3
    MaxPackets = 2
    Attempts = 1
INVARIANTS
    ReplayComplete
    DeliveredInOrder
    SessionFollowsOwner
PROPERTIES
    RetriesUntilExhausted
CHECK_DEADLOCK FALSE
