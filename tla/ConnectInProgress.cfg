SPECIFICATION Spec
CONSTANTS
  NoFd = NoFd
  NoFile = NoFile
  NoObject = NoObject
  Stream = {s1}
  Listener = {}
  Operation = {i1}
  Kind = {"connect"}
  Fd = {d1}
  File = {f1}
  Distant = TRUE
  CloseFails = FALSE
  CloseUnder = {}
CHECK_DEADLOCK FALSE
INVARIANTS
  ConnectIsOver
