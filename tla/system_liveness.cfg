\* One request, fair services restarted by the operator, slow holders, one fault; a refused publish is final.
SPECIFICATION FairSystemSpec
CONSTANTS
  Payments = {r1}
  Keys = {k1}
  Bodies = {b1}
  Publishers = {u1}
  BatchSize = 1
  MaxPublishRetries = 1
  LockKeys = {r1}
  Holders = {w1}
  HoldersMayStall = TRUE
  Unknown = {r1}
  MaxPublish = 0
  MaxPosts = 0
  MsgIds = {m1, m2, m3}
  Workers = {w1}
  WithWebhook = {r1}
  HttpCodes = {1, 204, 404, 500}
  MaxRetries = 2
  None = None
  Free = Free
  Orphan = Orphan
  ApiMayStall = TRUE
  MaxFaults = 1
PROPERTIES
  CommittedIsSettled
  QueuesDrain
CHECK_DEADLOCK FALSE
