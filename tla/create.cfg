\* Four requests for one key, two faults; no request outlasts its lock.
SPECIFICATION Spec
CONSTANTS
  Requests = {r1, r2, r3, r4}
  Holders = {r1, r2, r3, r4}
  Keys = {k1}
  LockKeys = {k1}
  Bodies = {b1, b2}
  NoPayment = NoPayment
  Free = Free
  Orphan = Orphan
  HoldersMayStall = FALSE
  MaxFaults = 2
SYMMETRY Symmetry
INVARIANTS
  TypeOK
  AcceptedIsDurable
  OneEventPerPayment
PROPERTIES
  ImplementsIdempotentStore
CHECK_DEADLOCK FALSE
