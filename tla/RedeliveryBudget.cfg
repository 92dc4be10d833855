\* The real ceiling of three attempts; no recovery is opened.
CONSTANTS
  Rider = {r1}
  Merchant = merchant
  Customer = customer
  None = none
  PickupToken = {p1}
  CustodyToken = {}
  DeliveryToken = {d1, d2}
  ReturnToken = {x1}
  Authorization = {}
  RedeliveryId = {y1, y2, y3}
  RecoveryId = {}
  MaxAttempts = 3
  MaxVersion = 1
  AttemptBound = 3
  Callers = {}
SPECIFICATION DeliveryRecoverySpec
SYMMETRY Interchangeable
CHECK_DEADLOCK FALSE
INVARIANTS
  RecoveryTypeOK
  AttemptCeiling
  AttemptsNumbered
  NextAttemptRecordable
  EveryRetryAuthorized
