SPECIFICATION Spec
CONSTANTS
  ani = ani
  budi = budi
  Nobody = Nobody
  CSes = {ani, budi}
  Silence = 1
  MaxTime = 2
  MaxSent = 3
  MaxReplies = 2
  MaxTroubles = 1
SYMMETRY Symmetry
CHECK_DEADLOCK FALSE
INVARIANTS
  OneFirstReply
  OpenWaitIsUnanswered
  WaitShowsInInbox
  WaitsDoNotOverlap
