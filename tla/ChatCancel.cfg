SPECIFICATION ChatSpec
CONSTANTS
  MaxHistory = 3
  MaxRuns = 1
  MaxPanels = 2
  MaxEvents = 3
CHECK_DEADLOCK FALSE
PROPERTIES
  CancelStopsTheStream
