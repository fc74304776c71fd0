SPECIFICATION Spec
CONSTANTS
  MaxConns = 4
  Rooms = {}
  PromptRooms = {}
  None = None
  Disconnection = 1
  MaxTime = 3
  SlowTime = 2
  Schedules = {{}}
  SlowConns = 0
INVARIANTS
  UniqueIds
CHECK_DEADLOCK FALSE
