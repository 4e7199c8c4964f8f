----------------------------- MODULE Sustained ------------------------------
(***************************************************************************)
(* What a rule with "for:" promises its author, without events, timers or  *)
(* a queue: once its trigger's predicate holds the rule may wait; the wait *)
(* ends at once with the predicate, and otherwise only when the predicate  *)
(* has held for the whole duration, and then the rule's commands are       *)
(* called.                                                                 *)
(***************************************************************************)
EXTENDS Naturals

CONSTANTS
  Rules,
  Duration,   \* rule -> how long its predicate has to hold
  Commands,   \* rule -> what it calls
  NONE

VARIABLES
  now,
  since,      \* rule -> when its predicate last began to hold, or NONE
  waiting,    \* the rules that wait
  calls       \* what is being called; whatever else happens may change it, too

Init == now = 0 /\ since = [r \in Rules |-> NONE] /\ waiting = {}

(* A report: the predicates of the rules in on hold now, and no others.    *)
Report(on) ==
  /\ since' = [r \in Rules |-> IF r \notin on THEN NONE ELSE IF since[r] = NONE THEN now ELSE since[r]]
  /\ waiting' = waiting \cap on
  /\ UNCHANGED <<now, calls>>

Wait(r) ==
  /\ since[r] # NONE
  /\ waiting' = waiting \cup {r}
  /\ UNCHANGED <<now, since, calls>>

Fire(r) ==
  /\ r \in waiting
  /\ since[r] # NONE /\ now >= since[r] + Duration[r]
  /\ waiting' = waiting \ {r} /\ calls' = Commands[r]
  /\ UNCHANGED <<now, since>>

Pass == now' >= now /\ UNCHANGED <<since, waiting, calls>>

Next == (\E on \in SUBSET Rules : Report(on)) \/ (\E r \in Rules : Wait(r) \/ Fire(r)) \/ Pass

Spec == Init /\ [][Next]_<<now, since, waiting>>
=============================================================================
