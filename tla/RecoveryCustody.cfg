\* A recovery beside redeliveries, reassignments and custody handoffs.
CONSTANTS
  Rider = {r1, r2, r3}
  Merchant = merchant
  Customer = customer
  None = none
  PickupToken = {p1}
  CustodyToken = {k1}
  DeliveryToken = {}
  ReturnToken = {}
  Authorization = {}
  RedeliveryId = {y1}
  RecoveryId = {v1}
  MaxAttempts = 2
  MaxVersion = 2
  AttemptBound = 1
  Callers = {}
SPECIFICATION DeliveryRecoverySpec
SYMMETRY Interchangeable
CHECK_DEADLOCK FALSE
INVARIANTS
  CustodianAgrees
  CustodyTokenNamesTransfer
  ExclusiveAuthority
