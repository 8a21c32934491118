CONSTANTS
  MaxSessionTokens = 2
  Ttl = 2
  SlideThrottle = 2
  WritesFail = TRUE
  DirSyncFails = FALSE
  MaxMints = 3
  MaxTime = 4
SPECIFICATION Spec
INVARIANTS TypeOK RevokedStaysOut LapsedStaysOut
PROPERTY EvictedOnlyFromFullHouse
