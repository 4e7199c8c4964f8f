----------------------------- MODULE Scheduler -----------------------------
(***************************************************************************)
(* The scheduler adapter (adapters/scheduler.rs): pending timers, keyed by *)
(* name, with the absolute time each one fires at.  The engine owns the    *)
(* map as adapter 0; these are the operations it performs on it.           *)
(***************************************************************************)
EXTENDS Integers

(* Command::ScheduleTimer: a key that is already pending is overwritten.   *)
Schedule(pending, key, at) ==
  [k \in DOMAIN pending \cup {key} |-> IF k = key THEN at ELSE pending[k]]

(* Command::CancelTimer, for every key of a set.                           *)
Cancel(pending, keys) == [k \in DOMAIN pending \ keys |-> pending[k]]

(* Fault: a timer that is due just now waits for the next tick.            *)
FaultDueLater(pending, now) == {k \in DOMAIN pending : pending[k] < now}

Due(pending, now) == {k \in DOMAIN pending : pending[k] =< now}

(* The due timers that fire first.  Equal fire times are ordered by the    *)
(* text of the key, which the model leaves open: any of them may go first. *)
Earliest(pending, now) ==
  {k \in Due(pending, now) : \A j \in Due(pending, now) : pending[k] =< pending[j]}
=============================================================================
