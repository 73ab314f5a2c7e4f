SPECIFICATION ChatSpec
CONSTANTS
  MaxHistory = 3
  MaxRuns = 2
  MaxPanels = 2
  MaxEvents = 3
CHECK_DEADLOCK FALSE
INVARIANTS
  ChatTypeOK
  LoneRunIsHeld
  StoredFollowsHistory
  NoEmptyAnswerIsLeft
PROPERTIES
  EveryPromptIsTaken
