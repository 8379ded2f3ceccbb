SPECIFICATION Spec
CONSTANTS
  a = a
  b = b
  d = d
  g = g
  Node = {b, g}
  Upstream <- Behind
  Gate = {g}
  Conditional = {}
  Timed = {b}
  Executor = {e1}
PROPERTIES CancelledIsFinal
CHECK_DEADLOCK FALSE
