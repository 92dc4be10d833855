CONSTANTS
  o1 = o1
  w1 = w1
  w2 = w2
  Order = {o1}
  Worker = {w1, w2}
  MaxAttempts = 2
  BatchSize = 1
  CrashBound = 1
  OverrunBound = 1
  RetryBound = 1
SPECIFICATION Spec
INVARIANTS
  SucceededIsIssued
  ClaimsBounded
  NoPostWhileReconciling
PROPERTIES
  JobsFinish
  LostSuccessFound
CHECK_DEADLOCK FALSE
