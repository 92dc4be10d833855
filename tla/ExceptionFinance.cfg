\* Exception claims beside a return; two determinations, one adjusting the other.
CONSTANTS
  None = None
  Rider = {r1}
  Advance = {a1}
  Claim = {}
  Determination = {d1}
  RepaymentClaim = {}
  Loss = {"GOODS_LOST", "RIDER_ADVANCE_UNRECOVERED", "CUSTOMER_PAYMENT_UNRECOVERED"}
  ExceptionClaim = {e1}
  Liability = {l1, l2}
  DebtClaim = {x1}
  MaxAmount = 2
  MaxVersion = 1
  MaxEdition = 1
SPECIFICATION Spec
SYMMETRY Interchangeable
CHECK_DEADLOCK FALSE
INVARIANTS
  TypeOK
  NoDoubleCompensation
  ObligationsSettledExactly
