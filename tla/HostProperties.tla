--------------------------- MODULE HostProperties ---------------------------
(***************************************************************************)
(* What the pump, the wake channel and the clock must guarantee together.  *)
(***************************************************************************)
EXTENDS Host

TypeOK ==
  /\ reported \in [minute : 0 .. DayMinutes - 1, sun : BOOLEAN] \cup {NONE}
  /\ armed \in BOOLEAN
  /\ nextFire \in [Schedules -> Instants \cup {NONE}]
  /\ fired \in Seq(Instants \X Schedules)
  /\ real \in Nat /\ now \in Nat /\ last \in Nat /\ began \in Nat /\ until \in Nat
  /\ last =< real
  /\ pump \in {"build", "start", "loop", "wait", "check", "advance", "exited"}
  /\ wakeups \in Nat /\ inbound \in Nat /\ advances \in Nat
  /\ source \in [Sources -> {"idle", "queued"}] /\ received \in Nat
  /\ shutdown \in BOOLEAN /\ signals \in {"idle", "flagged"} /\ signalled \in Nat

(* Every occurrence after boot and up to the present is fired once, in     *)
(* order of time and then of schedule id, however far time jumps between   *)
(* two ticks; one at the very instant of boot is not (clock.rs, the catch- *)
(* up loop of fire_due_schedules, the strict arming and the sort).         *)
FiredExactly ==
  LET passed == {f \in Instants \X Schedules :
                   f[1] \in Occurrences[f[2]] /\ Boot < f[1] /\ f[1] =< WallAt(now)}
  IN  armed => /\ {fired[i] : i \in DOMAIN fired} = passed
               /\ \A i, j \in DOMAIN fired : i < j => Earlier(fired[i], fired[j])

(* The report the engine folded last is that of an instant in the present  *)
(* minute, also across midnight and a change of the offset (clock.rs, tick:*)
(* the report is repeated only when the minute changes).                   *)
ClockCurrent ==
  reported # NONE =>
    \E t \in Instants :
      /\ t =< WallAt(now)
      /\ t \div MinuteMs = WallAt(now) \div MinuteMs
      /\ reported = Reading(t)

(* The pump never plans to sleep past an occurrence or a minute (main.rs,  *)
(* next_wake_delay; clock.rs, next_wake over the cached occurrences).      *)
NeverOversleeps ==
  pump = "wait" =>
    LET wake == WallAt(now) + Timeout
    IN  /\ \A s \in Schedules : \A o \in Occurrences[s] : o > WallAt(now) => wake =< o
        /\ wake \div MinuteMs =< (WallAt(now) \div MinuteMs) + 1

(* The pump is not left asleep on a message: if one is queued, a wakeup is *)
(* in the channel or its sender is about to put one there (wake.rs, wake   *)
(* after the queue; main.rs, the next tick takes everything).              *)
NoLostWakeup ==
  inbound > 0 /\ pump = "wait" =>
    wakeups > 0 \/ \E s \in Sources : source[s] = "queued"

(* Virtual time is never ahead of real time, and each advance loses less   *)
(* than a millisecond (main.rs, elapsed and last).  It does lose it, for   *)
(* good, so that no bound holds for any number of advances: see the README.*)
Lag == (last - began) - Sub * now
LagBounded == 0 =< Lag /\ Lag =< (Sub - 1) * advances

(* A signal makes the process exit, without waiting for a timeout (main.rs,*)
(* the flag, the wake and the check after the wait).                       *)
ShutdownExits == shutdown ~> pump = "exited"
=============================================================================
