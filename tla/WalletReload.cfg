\* Two reloads, two callbacks at a time, two billing runs.
CONSTANTS
  Payment = {p1, p2}
  Call = {c1, c2}
  Credit = {q1}
  Debit = {w1}
  Day = {t1, t2}
  Biller = {b1, b2}
  None = None
  Reload = 2
  Fee = 1
  Share = 1
  MaxAmount = 2
SPECIFICATION Spec
SYMMETRY Interchangeable
CHECK_DEADLOCK FALSE
INVARIANTS
  BalanceIsLedger
  ReloadsAgree
