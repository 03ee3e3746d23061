SPECIFICATION LiveSpec
CONSTANTS
  Accept = {}
  Connect = {}
  Receive = {o1}
  Send = {}
  Cancellable = {o1}
  Thread = {d, x}
  Driver = d
  Timeout = {"max"}
  Early = FALSE
  Failures = {}
  MaxPost = 1
  NoOp = NoOp
CHECK_DEADLOCK FALSE
PROPERTIES
  PostRuns
