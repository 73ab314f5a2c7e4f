SPECIFICATION ViewerSpec
CONSTANTS
  Panels = {a, b}
  MaxVersion = 3
  MaxBuilds = 3
  MaxEvents = 4
CHECK_DEADLOCK FALSE
INVARIANTS
  ViewerInv
  PanelsBehindAreServed
PROPERTIES
  VisiblePanelsCatchUp
