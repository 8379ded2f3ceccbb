SPECIFICATION RemoteSpec
CONSTANTS
  t1 = t1
  n1 = n1
  Task = {t1}
  LeaseId = {l1, l2}
  Pass = {}
  Deps <- Single
  Moves = {"paused"}
  Ttl = 1
  MaxRenewals = 1
  MaxAttempts = 1
  SharedDb = TRUE
  Node = {n1}
  Fits <- AllFit
  Targets = {n1}
  DispatchId = {d1, d2}
  Chosen = {d1, d2}
  Key = {k1, k2}
  Caller = {c1, c2}
SYMMETRY RemoteSymmetry
INVARIANTS RemoteTypeOK CompletedIsBacked SettledHasLetGo
PROPERTIES StaleResultIsFenced
