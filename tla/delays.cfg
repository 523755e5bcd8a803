\* Two events one at a time, refusals over 6 s, retries after 1 s and 5 s, one clock.
SPECIFICATION DelaysSpec
CONSTANTS
  Messages = {m1, m2}
  MaxRetries = 3
  Longest = 5
  MaxTime = 12
  BatchSize = 1
  PollInterval = 2
  MaxPublishRetries = 3
  ServerOffset = 1
INVARIANTS
  DelayBounded
  FailureNeedsLongOutage
  TriedOnTime
PROPERTIES
  NotBeforeBackoff
CHECK_DEADLOCK FALSE
