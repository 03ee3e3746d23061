SPECIFICATION LiveSpec
CONSTANTS
  Task = task
  Bridge = bridge
  Awaiter = {a, b}
  Waiter = {w}
  Driver = d
  Helper = {x, y}
  MaxSuspend = 2
  Untracked = FALSE
  None = None
CHECK_DEADLOCK FALSE
INVARIANTS
  WorkAccounted
  FramesAreAlive
  ResultIsThere
PROPERTIES
  ReturnsHome
  JoinCompletes
