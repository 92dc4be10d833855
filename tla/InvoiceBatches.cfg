CONSTANTS
  o1 = o1
  o2 = o2
  w1 = w1
  w2 = w2
  Order = {o1, o2}
  Worker = {w1, w2}
  MaxAttempts = 2
  BatchSize = 2
  CrashBound = 1
  OverrunBound = 0
  RetryBound = 1
SPECIFICATION Spec
INVARIANTS
  TypeOK
  OneProcessor
PROPERTIES
  SucceededIsFinal
CHECK_DEADLOCK FALSE
