SPECIFICATION Spec
CONSTANTS
  Requests = {q1, q2}
  Serials = {s1}
  Ids = {i1}
  Rows = {k1}
  None = None
CHECK_DEADLOCK FALSE
PROPERTIES
  OnlyOwnersForget
