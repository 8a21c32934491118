SPECIFICATION Spec
CONSTANTS
  Tasks = {once, recurring}
  Once = {once}
  MaxConcurrentRuns = 1
  Watched = {recurring}
  Edits = {"enabled", "paused", "deleted"}
INVARIANTS
  TypeOK
  EveryRunWillSettle
  OnceFiresOnce
PROPERTY
  FiresClamped
