CONSTANTS
  NONE = NONE
  Attrs = {"hue", "sat"}
  MaxCommands = 2
  MaxChanges = 1
  MaxPresses = 1
  MaxBreaks = 2

SPECIFICATION FairSpec

INVARIANTS
  TypeOK
  CommandsAccounted
  PressesOnce

PROPERTIES
  DeliversOnce
  NeverRegresses
  Settles

\* At the bounds nothing is left to do.
CHECK_DEADLOCK FALSE
