SPECIFICATION Spec
CONSTANTS
  Thread = {t1, t2}
  Request <- Requests
  SizeClass <- Classes
  BlocksPerChunk <- PerChunk
  SmallMax = 32
  MaxAlign = 16
  PtrAlign = 8
  HeaderSize = 48
  PrefixSize = 8
  ControlSize = 40
  SizeLimit = 65536
  Address = {0, 112, 208, 352, 496}
  MaxLive = 3
CHECK_DEADLOCK FALSE
INVARIANTS
  MetadataIsSafe
  ExitedKeepsNothing
PROPERTIES
  ImplementsHeap
