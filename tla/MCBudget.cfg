CONSTANTS
  NONE = NONE
  c1 = c1
  c2 = c2
  x1 = x1
  Cells = {x1}
  Values = {1}
  Conns = {c1, c2}
  QueueCapacity = 1
  MaxStreams = 1
  MaxConnections = 2
  MaxFrames = 1
  MaxAccepts = 3

SPECIFICATION Spec

INVARIANT StreamsBudgetedApart

\* After shutdown, and at the bounds, there is nothing left to do.
CHECK_DEADLOCK FALSE
