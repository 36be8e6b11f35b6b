SPECIFICATION FairSpec
CONSTANTS
  a1 = a1
  a2 = a2
  t1 = t1
  t2 = t2
  Accounts = {a1}
  Threads = {t1}
  AccountOf <- MCAccountOf
  Generations = 2
  Batch = 2
  MaxReplies = 2
  MaxInbound = 0
  MaxReceipts = 1
  MaxMishaps = 1
CHECK_DEADLOCK FALSE
PROPERTIES
  EveryReplyIsSettled
