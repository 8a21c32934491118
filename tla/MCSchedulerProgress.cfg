SPECIFICATION FairSpec
CONSTANTS
  Tasks = {once, recurring}
  Once = {once}
  MaxConcurrentRuns = 1
  Watched = {}
  Edits = {"enabled", "paused"}
PROPERTIES
  SlotIsHandled
  LedgerSpec
