\* Three riders, two custody handoffs, two recipients: reassignments in every phase.
CONSTANTS
  Rider = {r1, r2, r3}
  Merchant = merchant
  Customer = customer
  None = none
  PickupToken = {p1}
  CustodyToken = {k1, k2}
  DeliveryToken = {d1}
  ReturnToken = {x1}
  Authorization = {a1, a2}
  MaxAttempts = 3
  MaxVersion = 3
  AttemptBound = 1
  Callers = {"CUSTOMER", "MERCHANT"}
SPECIFICATION Spec
SYMMETRY Interchangeable
CHECK_DEADLOCK FALSE
INVARIANTS
  AssignmentAgrees
  CustodianAgrees
  LifecycleAgrees
  CustodyTokenNamesTransfer
  ChainUnbroken
  TypeOK
  HandedOverOnce
  ReceiverIsCurrent
PROPERTIES
  RiderChangesWithVersion
  CustodyMovesWithEvidence
  ImplementsChain
  TerminalFrozen
