SPECIFICATION LiveSpec
CONSTANTS
  NoReg = NoReg
  NoCb = NoCb
  Reg = {"reg"}
  Cb = {b}
  Thread = {d, k1, k2}
  Driver = d
  Submitter = d
  Fired = "completed"
  Throws = {"uncancellable"}
CHECK_DEADLOCK FALSE
INVARIANTS
  DestroyedIsUnreachable
  CompletedOnce
PROPERTIES
  SleepEnds
