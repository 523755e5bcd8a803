\* README.md: 409 is for a different payload.
SPECIFICATION Spec
CONSTANTS
  Requests = {r1, r2, r3}
  Holders = {r1, r2, r3}
  Keys = {k1}
  LockKeys = {k1}
  Bodies = {b1, b2}
  NoPayment = NoPayment
  Free = Free
  Orphan = Orphan
  HoldersMayStall = TRUE
  MaxFaults = 0
SYMMETRY Symmetry
INVARIANTS
  ConflictMeansDifferentBody
CHECK_DEADLOCK FALSE
