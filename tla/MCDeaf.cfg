CONSTANTS
  NONE = NONE
  left = left
  right = right
  meter = meter
  gang = gang
  hall = hall
  Devices <- MCDevices
  Name <- MCName
  Channel <- MCChannel
  Capabilities <- MCCapabilities
  Capacity = 3
  MaxValues = 2
  MaxBreaks = 2

SPECIFICATION FairSpec

PROPERTIES
  OutagesHeal

CHECK_DEADLOCK FALSE
