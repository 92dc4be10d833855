\* Three failed attempts and an administrator who wants to escalate.
CONSTANTS
  Rider = {r1}
  Merchant = merchant
  Customer = customer
  None = none
  PickupToken = {p1}
  CustodyToken = {}
  DeliveryToken = {d1}
  ReturnToken = {}
  Authorization = {}
  RedeliveryId = {y1, y2}
  RecoveryId = {v1}
  MaxAttempts = 3
  MaxVersion = 1
  AttemptBound = 3
  Callers = {}
SPECIFICATION DeliveryRecoverySpec
SYMMETRY Interchangeable
CHECK_DEADLOCK FALSE
INVARIANTS
  ExhaustionCanEscalate
