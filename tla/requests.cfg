SPECIFICATION Spec
CONSTANTS
    MaxCalls = 2
    MaxTransports = 2
    IdLimit = 2
INVARIANTS
    OwnAnswerOnce
PROPERTY
    EveryCallSettles
CHECK_DEADLOCK FALSE
