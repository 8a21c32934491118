SPECIFICATION Spec
CONSTANTS
  Messages = {m1, m2, m3}
  NoTurn = NoTurn
  OutgoingQueueMax = 2
  MaxPrompts = 0
  EarlySend = TRUE
INVARIANTS
  FirstComeFirstServed
CHECK_DEADLOCK FALSE
