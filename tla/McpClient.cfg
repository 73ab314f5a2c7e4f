SPECIFICATION McpSpec
CONSTANTS
  Calls = {c1}
  MaxAttempts = 2
  MaxEpochs = 2
  None = None
CHECK_DEADLOCK FALSE
INVARIANTS
  McpInv
PROPERTIES
  TestTellsTheServer
  EveryCallEnds
