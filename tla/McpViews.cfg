SPECIFICATION McpViewsSpec
CONSTANTS
  MaxEvents = 3
  MaxRuns = 2
  Reports <- SomeReports
  MaxDesign = 2
  Fixes = {f1, f2, f3}
  MaxOps = 2
  MaxLists = 4
  NoFix = NoFix
CHECK_DEADLOCK FALSE
INVARIANTS
  McpViewsInv
  EachConfirmationAppliesOnce
  ReadOnlyNeedsUnlistedId
  DrcIsUnderWay
PROPERTIES
  OnlyRunGatesChange
  
  DrcRefreshFollows
