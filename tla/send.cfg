SPECIFICATION FairSpec
CONSTANTS
  Tags = {move, chat}
  Rereference = {move}
  Values = {a, b, c}
  Refused = {c}
  Empty = Empty
  None = None
  PostDelays = FALSE
  MaxSends = 3
INVARIANTS
  OneEncoder
  WireInOrder
  PeerReadsWhatWasSent
PROPERTIES
  SettlesUntilFailure
CHECK_DEADLOCK FALSE
