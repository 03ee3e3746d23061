SPECIFICATION Spec
CONSTANTS
  Chunk = {c1, c2}
  PerChunk = 2
  Owner = o
  NoBlock = NoBlock
  Remote = {t1, t2}
CHECK_DEADLOCK FALSE
SYMMETRY Symmetric
INVARIANTS
  LiveCounted
  OnePlace
  FreedByTheLast
PROPERTIES
  ImplementsBlockPool
