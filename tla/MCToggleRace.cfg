CONSTANTS
  NONE = NONE
  Cells <- MCCells
  RuleList <- MCNoRules
  Scenes <- MCScenes
  Binding <- MCBinding
  UserTimers <- MCUserTimers
  MaxAttempts = 2
  BaseBackoff = 1
  MaxDepth = 2
  SouthEvents <- MCSouth
  NorthEvents <- MCSwitchRequests
  TimeSteps = {1, 2}
  MaxInputs = 3
  MaxTime = 3

SPECIFICATION Spec

PROPERTY ToggleFlips

\* At the bounds (MaxInputs, MaxTime) the host has nothing left to do.
CHECK_DEADLOCK FALSE
