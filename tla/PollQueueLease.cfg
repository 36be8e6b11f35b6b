SPECIFICATION Spec
CONSTANTS
  Workers = {w1, w2}
  Operators = {p1}
  OLTs = {o1}
  Kinds = {"status", "discovery"}
  OnDemand = {"discovery"}
  Interval <- MCInterval
  Lease <- MCLease
  MaxRun <- MCShortRun
  MaxBackoffShift = 1
  Nobody = Nobody
  NoJob = NoJob
INVARIANTS
  TypeOK
  OneWorkerPerJob
  SettlesItsOwnClaim
  FailureCountIsCurrent
  RunNowIsKept
PROPERTIES
  ImplementsExclusiveWork
