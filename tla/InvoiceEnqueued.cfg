CONSTANTS
  o1 = o1
  w1 = w1
  Order = {o1}
  Worker = {w1}
  MaxAttempts = 2
  BatchSize = 1
  CrashBound = 1
  OverrunBound = 0
  RetryBound = 0
SPECIFICATION Spec
INVARIANTS
  PaidHasJob
CHECK_DEADLOCK FALSE
