SPECIFICATION FairSpec
CONSTANTS
  a1 = a1
  a2 = a2
  s1 = s1
  s2 = s2
  Places <- ThePlaces
  Number <- TheNumber
  Serials = {s1, s2}
  Workers = {"worker"}
  Api = "api"
  None = None
  Blank = Blank
  Stale = 2
  MinInterval = 1
  Grace = 3
  MaxQuiet = 1
  MaxWalk = 1
  MaxAttach = 1
  MaxChanges = 2
  MaxFailures = 1
INVARIANTS
  OneRun
  SerialsAreUnique
PROPERTIES
  NobodyIsPruned
  ImplementsExclusiveWork
  DiscoveredAgain
  RowsFollowChassis
