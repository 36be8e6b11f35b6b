SPECIFICATION Spec
CONSTANTS
  a1 = a1
  a2 = a2
  t1 = t1
  t2 = t2
  Accounts = {a1, a2}
  Threads = {t1, t2}
  AccountOf <- MCAccountOf
  Generations = 1
  Batch = 2
  MaxReplies = 2
  MaxInbound = 2
  MaxReceipts = 8
  MaxMishaps = 1
SYMMETRY Swap
CHECK_DEADLOCK FALSE
INVARIANTS
  OneCopyPerUnrecordedSend
  InOrder
  TicksAreEarned
  ReadOnlyIfTold
PROPERTIES
  TicksNeverGoBack
