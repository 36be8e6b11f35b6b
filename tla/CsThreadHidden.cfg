SPECIFICATION Spec
CONSTANTS
  ani = ani
  budi = budi
  Nobody = Nobody
  CSes = {ani}
  Silence = 1
  MaxTime = 2
  MaxSent = 1
  MaxReplies = 0
  MaxTroubles = 0
CHECK_DEADLOCK FALSE
INVARIANTS
  NobodyWaitsInClosed
