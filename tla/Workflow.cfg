SPECIFICATION FairSpec
CONSTANTS
  a = a
  b = b
  d = d
  g = g
  Node = {a, b, d, g}
  Upstream <- Join
  Gate = {g}
  Conditional = {b, d}
  Timed = {b, d}
  Executor = {e1, e2}
INVARIANTS WorkflowTypeOK NoWorkBeforeApproval CompletedRunIsDone
PROPERTIES RunEnds
CHECK_DEADLOCK FALSE
