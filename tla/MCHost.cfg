CONSTANTS
  NONE = NONE
  Boot = 6
  MaxTime = 8
  MinuteMs = 4
  DayMinutes = 4
  Offset <- MCOffset
  Daylight <- MCDaylight
  Occurrences <- MCOccurrences
  Sources = {mqtt, zwave}
  Sub = 2
  MaxSleep = 3
  MaxInbound = 2
  MaxSignals = 2

SPECIFICATION FairSpec

INVARIANTS
  TypeOK
  FiredExactly
  ClockCurrent
  NeverOversleeps
  NoLostWakeup
  LagBounded

PROPERTY ShutdownExits

\* An exited process has no next step, nor has a pump that nobody wakes
\* when the bound on real time is reached.
CHECK_DEADLOCK FALSE
