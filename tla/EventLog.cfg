\* Two processes that append, one capture at a time, one session.
CONSTANTS
  p1 = p1  p2 = p2  s1 = s1  s2 = s2  t1 = t1  k1 = k1  k2 = k2
  Proc = {p1, p2}
  Here = p1
  Session = {s1}
  Task = {t1}
  Capture = {k1}
  Kind = {"task_started", "task_completed"}
  None = None
  KeyframeInterval = 2
  MaxEvents = 3
  MaxSnapshots = 3
  MaxTime = 2
SYMMETRY Symmetry
VIEW Looked
SPECIFICATION Spec
INVARIANTS
  ProjectionIsFold ReconstructionIsFold
CHECK_DEADLOCK FALSE
