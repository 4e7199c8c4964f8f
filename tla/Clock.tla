------------------------------- MODULE Clock -------------------------------
(***************************************************************************)
(* The clock adapter (adapters/clock.rs): a synthetic device that reports  *)
(* the local minute and whether the sun is up, and fires cron schedules.   *)
(*                                                                         *)
(* Instants are milliseconds of the wall clock.  The adapter never reads   *)
(* that clock: it adds the engine's virtual time to the instant of boot.   *)
(* The time zone (chrono-tz), the ephemeris (sunrise) and the cron parser  *)
(* (croner) are constants: an offset and a light for every instant, and a  *)
(* set of occurrences for every schedule.                                  *)
(***************************************************************************)
EXTENDS Integers, Sequences, FiniteSets

FS == INSTANCE FiniteSetsExt

CONSTANTS
  NONE,
  Boot,          \* boot_epoch_ms
  MaxTime,       \* bound: the virtual time a run reaches
  MinuteMs,      \* MINUTE_MS
  DayMinutes,    \* 24 * 60
  Offset,        \* instant -> local time minus UTC
  Daylight,      \* the instants at which the sun is up
  Occurrences    \* schedule id -> the instants its cron expression names

Instants  == Boot .. Boot + MaxTime
Schedules == DOMAIN Occurrences

(* Every offset is a whole number of minutes: next_wake relies on it.      *)
ASSUME ClockAssumption ==
  /\ Boot \in Nat /\ MaxTime \in Nat /\ MinuteMs \in Nat \ {0} /\ DayMinutes \in Nat \ {0}
  /\ Offset \in [Instants -> Int]
  /\ \A t \in Instants : Offset[t] % MinuteMs = 0
  /\ Schedules \subseteq Nat /\ IsFiniteSet(Schedules)
  /\ \A s \in Schedules : Occurrences[s] \subseteq Instants
  /\ NONE \notin Nat

VARIABLES
  reported,    \* what the device last reported, [minute, sun]; NONE before (last_emit_min)
  armed,       \* ScheduleState.armed: the first tick arms every schedule
  nextFire,    \* ScheduleState.next_fire: schedule -> instant or NONE
  fired        \* history: the <<instant, schedule>> of every TimeReached, in order

clockVars == <<reported, armed, nextFire, fired>>

ClockInit ==
  /\ reported = NONE
  /\ armed = FALSE
  /\ nextFire = [s \in Schedules |-> NONE]
  /\ fired = <<>>

(* wall_utc *)
WallAt(now) == Boot + now

(* hour * 60 + minute, in the configured time zone.                        *)
FaultNoMidnight(t) == (t + Offset[t]) \div MinuteMs
MinuteOf(t) == ((t + Offset[t]) \div MinuteMs) % DayMinutes
Reading(t)  == [minute |-> MinuteOf(t), sun |-> t \in Daylight]

(* find_next_occurrence(from, inclusive = false) *)
NextOccurrence(s, from) ==
  LET later == {o \in Occurrences[s] : o > from}
  IN  IF later = {} THEN NONE ELSE FS!Min(later)

(* The loop of fire_due_schedules, from the occurrence a schedule is armed *)
(* to: the occurrences it fires, and the one it leaves the schedule at.    *)
CatchUp(s, from, t) ==
  LET Loop[n \in Occurrences[s] \cup {NONE}] ==
        IF n = NONE \/ n > t THEN [due |-> {}, next |-> n]
        ELSE LET rest == Loop[NextOccurrence(s, n)]
             IN  [rest EXCEPT !.due = @ \cup {<<n, s>>}]
  IN  Loop[from]

FaultById(fires) ==
  CHOOSE q \in [1 .. Cardinality(fires) -> fires] :
    \A i, j \in DOMAIN q :
      i < j => q[i][2] < q[j][2] \/ (q[i][2] = q[j][2] /\ q[i][1] < q[j][1])

(* Fires are ordered by instant, and by schedule id within an instant.     *)
Earlier(a, b) == a[1] < b[1] \/ (a[1] = b[1] /\ a[2] < b[2])
InOrder(fires) ==
  CHOOSE q \in [1 .. Cardinality(fires) -> fires] :
    \A i, j \in DOMAIN q : i < j => Earlier(q[i], q[j])

FaultOnlyLater(t) == reported = NONE \/ MinuteOf(t) > reported.minute
MinuteChanged(t) == reported = NONE \/ MinuteOf(t) # reported.minute

ClockTick(now) ==
  LET t    == WallAt(now)
      from == [s \in Schedules |-> IF armed THEN nextFire[s] ELSE NextOccurrence(s, t)]
      ran  == [s \in Schedules |-> CatchUp(s, from[s], t)]
  IN  /\ reported' = IF MinuteChanged(t) THEN Reading(t) ELSE reported
      /\ armed' = TRUE
      /\ nextFire' = [s \in Schedules |-> ran[s].next]
      /\ fired' = fired \o InOrder(UNION {ran[s].due : s \in Schedules})

(* next_wake: the next minute, or the soonest schedule if that is earlier. *)
FaultMinutesOnly(now) == MinuteMs - (WallAt(now) % MinuteMs)
NextWake(now) ==
  LET t     == WallAt(now)
      waits == {nextFire[s] - t : s \in {s \in Schedules : nextFire[s] # NONE}}
  IN  FS!Min({MinuteMs - (t % MinuteMs)} \cup {IF w < 0 THEN 0 ELSE w : w \in waits})
=============================================================================
