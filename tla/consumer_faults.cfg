\* One payment, an event published twice, two tasks, one fault, locks that may expire under them.
SPECIFICATION LedgerSpec
CONSTANTS
  Payments = {p1}
  LockKeys = {p1}
  MsgIds = {m1, m2, m3}
  Workers = {w1, w2}
  Holders = {w1, w2}
  None = None
  Free = Free
  Orphan = Orphan
  HoldersMayStall = TRUE
  WithWebhook = {p1}
  Unknown = {}
  HttpCodes = {0, 204, 404}
  MaxRetries = 2
  MaxPublish = 2
  MaxFaults = 1
  MaxPosts = 9
SYMMETRY Symmetry
INVARIANTS
  TypeOK
  OneProcessorPerPayment
  ChargeAccounting
  WebhookTruthful
  NoSilentLoss
  AttemptsAccounted
  ResendsExplained
  AttemptsExplained
PROPERTIES
  StatusFinal
CHECK_DEADLOCK FALSE
