\* Advances, their repayment and the return of the goods; no exception.
CONSTANTS
  None = None
  Rider = {r1, r2}
  Advance = {a1}
  Claim = {c1, c2}
  Determination = {d1, d2}
  RepaymentClaim = {p1}
  Loss = {}
  ExceptionClaim = {}
  Liability = {}
  DebtClaim = {}
  MaxAmount = 2
  MaxVersion = 2
  MaxEdition = 2
SPECIFICATION Spec
SYMMETRY Interchangeable
CHECK_DEADLOCK FALSE
INVARIANTS
  AdvanceWithinTerms
  RiderRepaidOnce
  RefundEqualsPaid
  ReimbursedIffSettled
  ObligationsSettledExactly
