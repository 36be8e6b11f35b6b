SPECIFICATION FairSpec
CONSTANTS
  a1 = a1
  Accounts <- TheAccounts
  None = None
  MaxLinks = 2
  MaxRequests = 2
  MaxTroubles = 2
INVARIANTS
  NothingGoesUnnoted
PROPERTIES
  OnlyTheDeadAreDropped
  DeletedIsLetGo
  LinkedComesBack
  LoggedOutIsPairable
  PairingIsAnswered
