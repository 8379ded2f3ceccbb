SPECIFICATION ResumeSpec
CONSTANTS
  t1 = t1
  t2 = t2
  Task = {t1, t2}
  LeaseId = {l1, l2, l3}
  Pass = {}
  Deps <- Independent
  Moves = {"running", "verifying"}
  Ttl = 1
  MaxRenewals = 1
  MaxAttempts = 2
  SharedDb = TRUE
SYMMETRY Symmetry
PROPERTIES CompletedIsFinal
CHECK_DEADLOCK FALSE
