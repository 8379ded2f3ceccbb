SPECIFICATION Spec
CONSTANTS
  Proc = {p1, p2}
  MaxCalls = 2
  MaxWrites = 2
  MaxNesting = 3
SYMMETRY Symmetry
INVARIANTS AllOrNothing
CHECK_DEADLOCK FALSE
