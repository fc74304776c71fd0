SPECIFICATION Spec
CONSTANTS
    Undefined = Undefined
    GroupBits = 2
    IntBits = 6
    WordBits = 7
    NumberBits = 6
    Codes <- MCCodes
    CodePoints <- MCCodePoints
    MaxInflated = 12
    MaxByte = 7
    MaxShort = 63
    MaxDataMax = 4
    MaxPackets = 15
    Unit = 4
    Tables <- MCTables
    Registries <- MCRegistries
    Inputs <- MCInputs
    MaxRounds <- MCMaxRounds
INVARIANTS RoundTrip LegalIsAccepted AcceptedDecodes DriftBounded TablesAgree SelectionRoundTrip
CHECK_DEADLOCK FALSE
