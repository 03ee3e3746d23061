SPECIFICATION Spec
CONSTANTS
  NoFd = NoFd
  NoFile = NoFile
  NoObject = NoObject
  Stream = {s1, s2}
  Listener = {l}
  Operation = {i1}
  Kind = {"accept", "connect", "receive", "send"}
  Fd = {d1, d2}
  File = {f1, f2, f3}
  Distant = TRUE
  CloseFails = FALSE
  CloseUnder = {"accept", "receive", "send"}
CHECK_DEADLOCK FALSE
SYMMETRY Symmetric
INVARIANTS
  DescriptorsAreOwned
PROPERTIES
  RequestsHitTheirStream
  ConnectTellsTheTruth
