\* A second attempt in front of a first one.
SPECIFICATION Spec
CONSTANTS
  Messages = {m1, m2}
  MaxRetries = 3
  Longest = 5
  MaxTime = 13
INVARIANTS
  ReturnedOnExpiry
CHECK_DEADLOCK FALSE
