\* The generic transition API in the hands of every kind of caller.
CONSTANTS
  Rider = {r1, r2}
  Merchant = merchant
  Customer = customer
  None = none
  PickupToken = {p1}
  CustodyToken = {k1}
  DeliveryToken = {d1}
  ReturnToken = {x1}
  Authorization = {}
  MaxAttempts = 3
  MaxVersion = 2
  AttemptBound = 2
  Callers = {"CUSTOMER", "MERCHANT", "RIDER", "SYSTEM_ADMIN"}
SPECIFICATION Spec
SYMMETRY Interchangeable
CHECK_DEADLOCK FALSE
INVARIANTS
  ChainUnbroken
  OutcomeEvidenced
