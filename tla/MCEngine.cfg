CONSTANTS
  NONE = NONE
  Cells <- MCCells
  RuleList <- MCRules
  Scenes <- MCScenes
  Binding <- MCBinding
  UserTimers <- MCUserTimers
  MaxAttempts = 3
  BaseBackoff = 1
  MaxDepth = 2
  SouthEvents <- MCSouth
  NorthEvents <- MCNorth
  TimeSteps = {2}
  MaxInputs = 3
  MaxTime = 4

SPECIFICATION FairSpec

INVARIANTS
  TypeOK
  ForSustained
  ForTimersOwned
  NothingOverdue
  RetriesOwned
  MirrorSettles

PROPERTIES
  ForKeepsPromise
  DrainTerminates
  RetriesSettle
  ForWaitsEnd

\* At the bounds (MaxInputs, MaxTime) the host has nothing left to do.
CHECK_DEADLOCK FALSE
