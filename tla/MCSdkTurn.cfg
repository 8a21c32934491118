SPECIFICATION FairSpec
CONSTANTS
  Messages = {m1, m2, m3, m4}
  NoTurn = NoTurn
  OutgoingQueueMax = 2
  MaxPrompts = 2
  EarlySend = FALSE
INVARIANTS
  TypeOK
  FirstComeFirstServed
  BusyIsWatched
  PromptStopsTheClock
  
  StopFlagIsFresh
PROPERTIES
  LineSpec
  FollowUpsAreHandled
  BusyEnds
CHECK_DEADLOCK FALSE
