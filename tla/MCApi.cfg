CONSTANTS
  NONE = NONE
  MaxMillis = 100000000
  NameOrder <- MCNames
  Configs <- MCConfigs
  Zones = {"UTC"}
  NodeIds = {"7", "8"}
  CronExprs = {"0 6 * * *"}
  Requests <- MCRequests
  MaxRequests = 1

SPECIFICATION Spec

INVARIANTS
  FaultsReported
  Runnable
  ServedFaithfully

\* A rejected configuration is the end, and so is a stopped engine.
CHECK_DEADLOCK FALSE
