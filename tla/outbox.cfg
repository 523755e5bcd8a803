\* Fair processes, one fault fewer than processes, an event refused twice is failed.
SPECIFICATION FairSpec
CONSTANTS
  Events = {e1, e2}
  Publishers = {w1, w2, w3}
  NoEvent = NoEvent
  BatchSize = 2
  MaxPublishRetries = 2
  MaxFaults = 2
INVARIANTS
  TypeOK
  OutcomesAreEarned
  DuplicatesNeedFaults
PROPERTIES
  OutcomesAreFinal
  EveryEventPublished
CHECK_DEADLOCK FALSE
