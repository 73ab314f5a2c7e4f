SPECIFICATION WorkspaceSpec
CONSTANTS
  p1 = p1
  p2 = p2
  Folders <- TwoFolders
  Clis = {v9, v10}
  MaxEvents = 2
  None = None
CHECK_DEADLOCK FALSE
INVARIANTS
  WorkspaceInv
  QuietIsCurrent
PROPERTIES
  SelectionIsKept
  ImplementsActiveProject
  EventuallyCurrent
