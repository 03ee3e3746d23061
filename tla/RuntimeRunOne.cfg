SPECIFICATION Spec
CONSTANTS
  NoCoro = NoCoro
  NoThread = NoThread
  Coro = {c1, c2}
  Thread = {r, e}
  Runner = {r}
  Entry = {"run", "one"}
  Op = {"post", "spawn", "stop", "cancel", "host"}
  Await = {"sleep", "io", "op", "park", "join"}
  InitBackend = "user"
  MaxTime = 2
  MaxAwait = 1
CHECK_DEADLOCK FALSE
SYMMETRY CoroSymmetry
INVARIANTS
  IInv
