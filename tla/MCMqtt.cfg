CONSTANTS
  NONE = NONE
  left = left
  right = right
  meter = meter
  gang = gang
  hall = hall
  Devices <- MCDevices
  Name <- MCName
  Channel <- MCChannel
  Capabilities <- MCCapabilities
  Capacity = 3
  MaxValues = 2
  MaxBreaks = 2

SPECIFICATION FairSpec

INVARIANTS
  TypeOK
  SubscribeNeverBlocks
  PrimesGetThrough
  BelievesOwnLoad

PROPERTIES
  Delivers
  LearnsUntilBreak
  LastCommandWins

\* At the bounds nothing is left to do.
CHECK_DEADLOCK FALSE
