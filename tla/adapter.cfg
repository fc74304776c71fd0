SPECIFICATION AdapterSpec
CONSTANT MaxMessages = 2
INVARIANTS
    ClientsEnded
PROPERTY
    EveryCallEnds
CHECK_DEADLOCK FALSE
