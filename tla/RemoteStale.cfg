SPECIFICATION RemoteSpec
CONSTANTS
  t1 = t1
  n1 = n1
  Task = {t1}
  LeaseId = {l1, l2}
  Pass = {}
  Deps <- Single
  Moves = {"paused"}
  Ttl = 1
  MaxRenewals = 1
  MaxAttempts = 1
  SharedDb = FALSE
  Node = {n1}
  Fits <- AllFit
  Targets = {n1}
  DispatchId = {d1, d2}
  Chosen = {}
  Key = {k1, k2}
  Caller = {c1}
SYMMETRY RemoteSymmetry
PROPERTIES StaleResultIsRejected
