CONSTANTS
  NONE = NONE
  c1 = c1
  c2 = c2
  x1 = x1
  Cells = {x1}
  Values = {1}
  Conns = {c1, c2}
  QueueCapacity = 1
  MaxStreams = 2
  MaxConnections = 2
  MaxFrames = 2
  MaxAccepts = 2

SPECIFICATION FairSpec

INVARIANTS
  TypeOK
  OnlyOvertakenLost
  NoSleepOnFrames
  NewestKept
  SlotsExact

PROPERTIES
  FramesDelivered
  StreamsEnd

\* After shutdown, and at the bounds, there is nothing left to do.
CHECK_DEADLOCK FALSE
