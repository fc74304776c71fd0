SPECIFICATION FairSpec
CONSTANTS
  Tags = {hello, move, burst}
  Async = {burst}
  Batched = {burst}
  Rereference = {move}
  NoTag = NoTag
  Handshakes = {NoTag, hello}
  SyncLane = SyncLane
  Values = {a, b}
  Invalid = Invalid
  None = None
  Bodies <- MCBodies
  Listeners <- MCListeners
  Toggled = {burst}
  Cancels = TRUE
  MaxFrames = 3
INVARIANTS
  RereferenceFaithful
  HandshakeFirstInLane
PROPERTIES
  NoDeliveryAfterClose
  ImplementsSerialListeners
  EveryFrameSettles
CHECK_DEADLOCK FALSE
