SPECIFICATION Spec
CONSTANTS
  NoCoro = NoCoro
  NoThread = NoThread
  Coro = {c1, c2}
  Thread = {r, e}
  Runner = {r, e}
  Entry = {"run"}
  Op = {"post", "spawn", "stop", "cancel", "host", "swap"}
  Await = {"sleep", "io", "fail"}
  InitBackend = "none"
  MaxTime = 2
  MaxAwait = 2
CHECK_DEADLOCK FALSE
SYMMETRY FullSymmetry
INVARIANTS
  TypeOK
  WorkAccounted
  QueuedOnce
  SleepersCanWake
  NoLostWakeup
PROPERTIES
  ReturnsDrained
  ImplementsExecutor
