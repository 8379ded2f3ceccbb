SPECIFICATION HandoffSpec
CONSTANTS
  t1 = t1
  Task = {t1}
  LeaseId = {l1, l2, l3}
  HandoffId = {h1}
  Pass = {p1}
  Deps <- Single
  Moves = {}
  Ttl = 1
  MaxRenewals = 1
  MaxAttempts = 2
  SharedDb = FALSE
SYMMETRY Symmetry
INVARIANTS OneActiveLease
