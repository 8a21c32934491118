SPECIFICATION Spec
CONSTANTS
  Tasks = {once, recurring}
  Once = {once}
  MaxConcurrentRuns = 1
  Watched = {recurring}
  Edits = {"enabled", "paused"}
PROPERTY
  ClampedOrNotRun
