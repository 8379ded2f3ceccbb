SPECIFICATION Spec
CONSTANTS
  t1 = t1
  t2 = t2
  Task = {t1, t2}
  LeaseId = {l1, l2, l3}
  Pass = {p1}
  Deps <- Chain
  Moves = {"running", "paused"}
  Ttl = 2
  MaxRenewals = 1
  MaxAttempts = 2
  SharedDb = FALSE
SYMMETRY Symmetry
INVARIANTS HeldWhileLive
PROPERTIES CompletedIsFinal ImplementsFencedOwnership
