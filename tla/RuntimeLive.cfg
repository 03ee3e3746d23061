SPECIFICATION LiveSpec
CONSTANTS
  NoCoro = NoCoro
  NoThread = NoThread
  Coro = {c1, c2}
  Thread = {r, e}
  Runner = {r}
  Entry = {"run"}
  Op = {"post", "stop", "cancel", "swap"}
  Await = {"sleep", "io"}
  InitBackend = "none"
  MaxTime = 2
  MaxAwait = 1
CHECK_DEADLOCK FALSE
PROPERTIES
  StopReturns
  QueuedRuns
  SleepsEnd
