SPECIFICATION StalledSpec
CONSTANTS
  t1 = t1
  t2 = t2
  Task = {t1}
  LeaseId = {l1, l2}
  Pass = {p1}
  Deps <- Single
  Moves = {"running", "paused"}
  Ttl = 1
  MaxRenewals = 1
  MaxAttempts = 2
  SharedDb = FALSE
PROPERTIES StalledLeaseIsReclaimed
