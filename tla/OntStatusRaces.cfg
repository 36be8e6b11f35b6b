SPECIFICATION FairSpec
CONSTANTS
  o1 = o1
  ONTs <- TheONTs
  Tiers = {"metrics"}
  Down <- TheDown
  Second = 2
  MaxPause = 1
  MaxFlips = 2
  MaxTraps = 1
  MaxFailures = 1
  MaxWatches = 1
INVARIANTS
  OutagesHappened
  DurationsMeet
  AvailabilityAddsUp
PROPERTY
  ComesRight
