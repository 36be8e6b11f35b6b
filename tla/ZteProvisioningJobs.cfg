SPECIFICATION Spec
CONSTANTS
  Requests = {q1, q2, q3}
  Serials = {s1, s2}
  Ids = {i1, i2}
  Rows = {k1, k2, k3}
  None = None
SYMMETRY Symmetry
CHECK_DEADLOCK FALSE
INVARIANTS
  OneWriterPerONT
  RollbackRemovesOwn
  FailedLeavesNothing
