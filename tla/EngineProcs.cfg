SPECIFICATION Spec
CONSTANTS
  Proc = {p1, p2}
  MaxCalls = 2
  MaxWrites = 2
  MaxNesting = 3
SYMMETRY Symmetry
INVARIANTS TypeOK Durable LockIsHeldInCall AtomicUntilBusy IsolatedUntilBusy
CHECK_DEADLOCK FALSE
