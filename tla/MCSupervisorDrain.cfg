SPECIFICATION FairSpec
CONSTANTS
  Procs = {p1, p2}
  NoChild = NoChild
  MaxRestarts = 4
  MaxDeployFailures = 3
  MaxStandbyRetries = 2
PROPERTIES
  DrainEnds
CHECK_DEADLOCK FALSE
