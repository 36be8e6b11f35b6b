SPECIFICATION FairSpec
CONSTANTS
  Workers = {w1}
  Operators = {p1}
  OLTs = {o1, o2}
  Kinds = {"discovery"}
  OnDemand = {"discovery"}
  Interval <- MCInterval
  Lease <- MCLease
  MaxRun <- MCShortRun
  MaxBackoffShift = 1
  Nobody = Nobody
  NoJob = NoJob
PROPERTIES
  EveryJobIsServed
