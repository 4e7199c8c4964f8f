-------------------------- MODULE EngineProperties --------------------------
(***************************************************************************)
(* What the engine core promises.                                          *)
(***************************************************************************)
EXTENDS Engine

PendingCall == [cmd : Cmd, attempt : Nat \ {0}, depth : Nat]
Entry == [ev : Event, depth : Nat]

TypeOK ==
  /\ now \in Nat /\ inputs \in Nat /\ forCounter \in Nat /\ retryCounter \in Nat
  /\ pc \in {"sched", "south", "north", "drain", "idle"} /\ booting \in BOOLEAN
  /\ queue \in Seq(Entry)
  /\ store \in [Cells -> Int \cup {NONE}] /\ mirror \in [Cells -> Int \cup {NONE}]
  /\ cur = NONE \/ cur \in [ev : Event, prior : Int \cup {NONE}, depth : Nat, next : RuleIds]
  /\ arms \in Seq(ForRules)
  /\ work \in Seq(PendingCall)
  /\ DOMAIN timers \subseteq Key /\ timers \in [DOMAIN timers -> Nat]
  /\ pendingFor \in [ForRules -> Key \cup {NONE}]
  /\ DOMAIN retries \subseteq Key /\ retries \in [DOMAIN retries -> [cmd : DeviceCmd, attempt : Nat \ {0}]]
  /\ heldFrom \in [ForRules -> Nat \cup {NONE}]

-----------------------------------------------------------------------------
(* A "for:" timer that is still owned never outlives the predicate it      *)
(* measures, whatever sequence of reports, re-arms and ticks led here:     *)
(* cancel_reverted_for_timers runs against every fold, so the re-check in  *)
(* fire_elapsed_for finds nothing to veto.                                 *)
ForSustained ==
  \A r \in ForRules : pendingFor[r] # NONE => PredicateHolds(RuleList[r].trigger, store)

QueuedKeys == {queue[i].ev.key : i \in {j \in DOMAIN queue : queue[j].ev.type = "elapsed"}}
QueuedElapsed(k) == {i \in DOMAIN queue : queue[i].ev = Elapsed(k)}

(* Exactly one thing will bring a key back: a timer of the scheduler or    *)
(* one TimerElapsed on its way through the queue.                          *)
WillElapseOnce(k) ==
  \/ k \in DOMAIN timers /\ QueuedElapsed(k) = {}
  \/ k \notin DOMAIN timers /\ \E i \in DOMAIN queue : QueuedElapsed(k) = {i}

(* pending_for and the scheduler stay in step: no rule waits for a timer   *)
(* that was lost, none is waited for twice, no timer is shared by two      *)
(* rules, and a "for:" timer without an owner is neither pending nor on    *)
(* its way through the queue (so the stale branch of fire_elapsed_for is   *)
(* never taken).                                                           *)
ForTimersOwned ==
  /\ \A r \in ForRules : pendingFor[r] # NONE => WillElapseOnce(pendingFor[r])
  /\ \A r, s \in ForRules : pendingFor[r] = pendingFor[s] /\ pendingFor[r] # NONE => r = s
  /\ \A k \in DOMAIN timers \cup QueuedKeys : IsForKey(k) => \E r \in ForRules : pendingFor[r] = k

(* The same for retries: a command that waits for its next attempt is      *)
(* brought back exactly once, and never beyond max_attempts.               *)
RetriesOwned ==
  /\ \A k \in DOMAIN retries : WillElapseOnce(k) /\ retries[k].attempt \in 2..MaxAttempts
  /\ \A k \in DOMAIN timers \cup QueuedKeys : k[1] = "retry" => k \in DOMAIN retries

(* The scheduler's tick takes every timer that is due, one that is due just*)
(* now included, before the other adapters tick; and when the host has     *)
(* control again none is overdue, whatever was set in between, so that     *)
(* next_wake_delay never has to saturate.                                  *)
NothingOverdue ==
  /\ pc \in {"south", "north"} => \A k \in DOMAIN timers : timers[k] > now
  /\ pc = "idle" => \A k \in DOMAIN timers : timers[k] >= now

(* A northbound projection agrees with the store on every capability that  *)
(* was ever reported whenever the engine is quiescent, although adapters   *)
(* may flip their own copy ahead of the device and the device may refuse.  *)
MirrorSettles ==
  pc = "idle" => \A c \in Cells : store[c] # NONE => mirror[c] = store[c]

-----------------------------------------------------------------------------
(* The engine keeps the promise of "for:" (Sustained): through folds,      *)
(* re-arms, cancelled and elapsed timers and whatever waits in the queue,  *)
(* a rule waits only while its predicate holds without a break, and stops  *)
(* waiting of itself only to call its commands, after the whole duration.  *)
Promise == INSTANCE Sustained WITH
  Rules    <- ForRules,
  Duration <- [r \in ForRules |-> RuleList[r].for],
  Commands <- [r \in ForRules |-> Calls(RuleList[r].cmds, 0)],
  since    <- heldFrom,
  waiting  <- {r \in ForRules : pendingFor[r] # NONE},
  calls    <- work
ForKeepsPromise == Promise!Spec

(* What the device of an echoing adapter is, counting the reports that are *)
(* still in the queue.                                                     *)
InFlight(c) == {i \in DOMAIN queue : queue[i].ev.type = "report" /\ queue[i].ev.cell = c}
Actual(c) == IF InFlight(c) = {} THEN store[c]
             ELSE queue[CHOOSE i \in InFlight(c) : \A j \in InFlight(c) : j =< i].ev.value

(* A toggle flips the device: relative commands are "resolved against the  *)
(* store at dispatch time, so they can't race with in-flight state"        *)
(* (tests/requested_change.rs).                                            *)
Toggling(c) == /\ cur = NONE /\ arms = <<>> /\ work # <<>>
               /\ Call.cmd = [op |-> "toggle", cell |-> c]
               /\ Binding[DeviceOf(c)] = "echo" /\ store[c] # NONE
ToggleFlips ==
  [][\A c \in Cells : Toggling(c) => Command.op = "set" /\ Command.value = 1 - Actual(c)]_vars

-----------------------------------------------------------------------------
(* Every call into the engine returns: feedback between rules and devices  *)
(* is cut off by the causal depth.                                         *)
DrainTerminates == pc # "idle" ~> pc = "idle"

(* Every command that waits for a retry is settled: it gets through or is  *)
(* given up.                                                               *)
RetriesSettle == DOMAIN retries # {} ~> DOMAIN retries = {}

(* Every "for:" wait ends, by firing or by being cancelled.                *)
ForWaitsEnd == \A r \in ForRules : pendingFor[r] # NONE ~> pendingFor[r] = NONE
=============================================================================
