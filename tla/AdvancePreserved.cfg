\* An advance is cancelled, and cancelled again.
CONSTANTS
  None = None
  Rider = {r1}
  Advance = {a1}
  Claim = {}
  Determination = {}
  RepaymentClaim = {}
  Loss = {}
  ExceptionClaim = {}
  Liability = {}
  DebtClaim = {}
  MaxAmount = 2
  MaxVersion = 1
  MaxEdition = 1
SPECIFICATION Spec
SYMMETRY Interchangeable
CHECK_DEADLOCK FALSE
INVARIANTS
  ObligationPreserved
