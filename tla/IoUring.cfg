SPECIFICATION LiveSpec
CONSTANTS
  Accept = {}
  Connect = {}
  Receive = {o1}
  Send = {o2}
  Cancellable = {o1}
  Thread = {d, x}
  Driver = d
  Timeout = {"zero", "finite"}
  Early = FALSE
  Failures = {"sqe"}
  MaxPost = 1
  NoOp = NoOp
CHECK_DEADLOCK FALSE
INVARIANTS
  EntryHasCompletion
  DestroyedIsUnused
  WakeReachesDriver
PROPERTIES
  CancelLands
  PostRuns
  ImplementsAsyncIo
