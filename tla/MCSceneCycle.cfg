CONSTANTS
  NONE = NONE
  Cells <- MCCells
  RuleList <- MCRules
  Scenes <- MCCyclicScenes
  Binding <- MCBinding
  UserTimers <- MCUserTimers
  MaxAttempts = 2
  BaseBackoff = 1
  MaxDepth = 2
  SouthEvents <- MCSouth
  NorthEvents <- MCNorth
  TimeSteps = {1, 2}
  MaxInputs = 1
  MaxTime = 3

SPECIFICATION FairSpec

PROPERTY DrainTerminates

\* At the bounds (MaxInputs, MaxTime) the host has nothing left to do.
CHECK_DEADLOCK FALSE
