\* Two requests for one key, a publisher, two consumer tasks, one fault anywhere, any lock may expire early.
SPECIFICATION SystemSpec
CONSTANTS
  Payments = {r1, r2}
  Keys = {k1}
  Bodies = {b1}
  Publishers = {u1}
  BatchSize = 1
  MaxPublishRetries = 2
  LockKeys = {r1, r2}
  Holders = {w1, w2}
  HoldersMayStall = TRUE
  Unknown = {r1, r2}
  MaxPublish = 0
  MaxPosts = 0
  MsgIds = {m1, m2}
  Workers = {w1, w2}
  WithWebhook = {r1, r2}
  HttpCodes = {204, 500}
  MaxRetries = 1
  None = None
  Free = Free
  Orphan = Orphan
  ApiMayStall = TRUE
  MaxFaults = 1
SYMMETRY Symmetry
INVARIANTS
  NothingStranded
  OnlyCommittedPayments
  OneChargePerKey
CHECK_DEADLOCK FALSE
