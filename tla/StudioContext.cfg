SPECIFICATION StudioSpec
CONSTANTS
  Views = {v1, v2}
  MaxRuns = 1
  MaxBuilds = 3
  Contexts <- MCContexts
  None = None
CHECK_DEADLOCK FALSE
INVARIANTS
  StudioInv
  IdleIsCurrent
PROPERTIES
  AlwaysIdleAgain
