SPECIFICATION FairSpec
CONSTANTS
  MaxConns = 3
  Rooms = {lobby, game}
  PromptRooms = {lobby}
  None = None
  Disconnection = 1
  MaxTime = 3
  SlowTime = 2
  Schedules = {{}, {"connect", "tagging"}, {"connect", "loss"}, {"throwing"}, {"connect", "authorize", "loss", "tagging"}}
  SlowConns = 2
INVARIANTS
  LiveSessionKept
  NoSessionLeak
  TagIndexesAgree
PROPERTIES
  RoomsRestored
  SessionsExpire
CHECK_DEADLOCK FALSE
