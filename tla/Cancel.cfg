SPECIFICATION LiveSpec
CONSTANTS
  NoReg = NoReg
  NoCb = NoCb
  Reg = {r1, r2}
  Cb = {b1, b2, b3}
  Thread = {t1, t2}
CHECK_DEADLOCK FALSE
INVARIANTS
  TypeOK
  ResetIsBarrier
  ArmedIsReachable
  OwnedOnce
PROPERTIES
  CallsReturn
