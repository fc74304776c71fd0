SPECIFICATION FairSpec
CONSTANTS
    MaxConns = 2
    MaxSends = 1
    MaxPackets = 1
    Attempts = 2
PROPERTIES
    RetriesUntilExhausted
CHECK_DEADLOCK FALSE
