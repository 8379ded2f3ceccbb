SPECIFICATION JobSpec
CONSTANTS
  t1 = t1
  t2 = t2
  j1 = j1
  j2 = j2
  Task = {t1, t2}
  Job = {j1, j2}
  TaskOf <- TwoJobs
  LeaseId = {l1, l2}
  Pass = {p1}
  Deps <- NoDeps
  Moves = {}
  Ttl = 1
  MaxRenewals = 1
  MaxAttempts = 2
  MaxJobAttempts = 2
  MaxActive = 1
  SharedDb = FALSE
SYMMETRY Symmetry
INVARIANTS WorkersWithinLimit
