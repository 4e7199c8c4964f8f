------------------------------- MODULE Engine -------------------------------
(***************************************************************************)
(* The engine core of domiform (engine.rs) with its scheduler.             *)
(*                                                                         *)
(* The engine is a single-threaded, first-in first-out event loop.  The    *)
(* host calls start, inject or advance; each ends in drain, which runs to  *)
(* quiescence.  A step of this module is one iteration of a loop of that   *)
(* code: one due timer collected by a tick, one event popped, one rule     *)
(* considered, one "for:" timer armed, or one call of dispatch_at.  Nothing*)
(* runs between the steps of a call, so the small steps add no behaviour;  *)
(* what they give up is recursion, which dispatch_at has and TLC and TLAPS *)
(* are better without: the calls still to make are the sequence work.      *)
(*                                                                         *)
(* Adapters are modelled by what they may answer (see Binding), and what   *)
(* they report on a tick is any of SouthEvents or NorthEvents.             *)
(***************************************************************************)
EXTENDS Rules, Scheduler, FiniteSets

CONSTANTS
  Cells,          \* the declared capabilities: pairs <<device, kind>>
  RuleList,       \* the rules, in RuleId order
  Scenes,         \* scene -> sequence of commands
  Binding,        \* device -> "echo" | "remote" | "none"
  UserTimers,     \* the timer keys a configuration names
  MaxAttempts,    \* RetryPolicy::max_attempts
  BaseBackoff,    \* RetryPolicy::base_backoff
  MaxDepth,       \* max_cascade_depth
  SouthEvents,    \* what device adapters and the clock may report
  NorthEvents,    \* what northbound adapters may request
  TimeSteps,      \* the dt a host may advance by
  MaxInputs,      \* bound: events from outside
  MaxTime         \* bound: the host stops advancing an engine without timers

RuleIds  == DOMAIN RuleList
ForRules == {r \in RuleIds : RuleList[r].for # NONE}

(* Timer keys.  The engine generates "__for:n" and "__retry:n"; the rest   *)
(* comes from the configuration.                                           *)
ForKey(n)   == <<"for", n>>
RetryKey(n) == <<"retry", n>>
IsForKey(k) == k[1] = "for"
Key == UserTimers \cup ({"for"} \X Nat) \cup ({"retry"} \X Nat)

(* Commands and events, by shape.  A desired change is written like the    *)
(* command it asks for.                                                    *)
DeviceCmd == [op : {"set"}, cell : Cells, value : Int] \cup [op : {"toggle", "ir"}, cell : Cells]
               \cup [op : {"adjust"}, cell : Cells, by : Int]
Cmd == DeviceCmd \cup [op : {"activate"}, scene : DOMAIN Scenes]
         \cup [op : {"schedule"}, key : UserTimers, after : Nat]
         \cup [op : {"cancel"}, key : UserTimers]
Report == [type : {"report"}, cell : Cells, value : Int]
ChangeEvent == [type : {"change"}, want : DeviceCmd]
Event  == SouthEvents \cup NorthEvents \cup Report
            \cup [type : {"elapsed"}, key : Key] \cup [type : {"failed"}, cmd : DeviceCmd]

(* "for:" is accepted on edge triggers only (lower.rs, for_duration), and  *)
(* the compiler resolves every cell a trigger names.                       *)
ASSUME RulesAssumption ==
  /\ Len(RuleList) \in Nat
  /\ RuleIds = 1..Len(RuleList)
  /\ \A r \in RuleIds : RuleList[r].cmds \in Seq(Cmd)
  /\ \A r \in RuleIds : RuleList[r].trigger.on \in EdgeTriggers => RuleList[r].trigger.cell \in Cells
  /\ \A r \in ForRules : RuleList[r].for \in Nat /\ RuleList[r].trigger.on \in EdgeTriggers
  /\ \A s \in DOMAIN Scenes : Scenes[s] \in Seq(Cmd)

(* The design wants the generated keys apart from the configuration's      *)
(* (05-for-duration.md, Tests); nothing in the compiler enforces it.       *)
ASSUME KeyAssumption == \A k \in UserTimers : k[1] \notin {"for", "retry"}

(* What adapters may hand over when they tick.                             *)
ASSUME InputAssumption ==
  /\ \A e \in SouthEvents : e.type \in {"report", "action", "time"} /\ (e.type = "report" => e \in Report)
  /\ \A e \in NorthEvents : e.type \in {"change", "scene"}
                            /\ (e.type = "change" => e \in ChangeEvent)
                            /\ (e.type = "scene" => e.scene \in DOMAIN Scenes)

ASSUME EngineAssumption ==
  /\ \A c \in Cells : KindOf(c) \in Kind /\ DeviceOf(c) \in DOMAIN Binding
  /\ Binding \in [DOMAIN Binding -> {"echo", "remote", "none"}]
  /\ MaxAttempts \in Nat \ {0} /\ BaseBackoff \in Nat /\ MaxDepth \in Nat
  /\ TimeSteps \subseteq Nat /\ MaxInputs \in Nat /\ MaxTime \in Nat
  /\ NONE \notin Key /\ NONE \notin Int

VARIABLES
  now,          \* virtual time, in the unit the durations use
  pc,           \* "sched" | "south" | "north": ticking; "drain"; "idle": with the host
  booting,      \* inside start()
  queue,        \* sequence of [ev, depth]
  store,        \* cell -> value or NONE
  mirror,       \* a northbound adapter's copy of the store
  cur,          \* the event being matched, with its prior value and the next rule, or NONE
  arms,         \* arm_for: the rules whose timers are to be (re)started
  work,         \* the dispatch_at calls to make, next one first: [cmd, attempt, depth]
  timers,       \* the scheduler's pending timers: key -> fire time
  pendingFor,   \* for-rule -> key of its live timer, or NONE
  forCounter,
  retries,      \* key -> [cmd, attempt]
  retryCounter,
  inputs,       \* events that came from outside so far (bound)
  heldFrom      \* history: for-rule -> when its predicate last began to hold, or NONE

loopVars  == <<pc, booting, queue, cur, arms, work>>
stateVars == <<store, mirror, heldFrom>>
timerVars == <<timers, pendingFor, forCounter, retries, retryCounter>>
vars == <<now, inputs, loopVars, stateVars, timerVars>>

-----------------------------------------------------------------------------
(* Small vocabulary *)

Elapsed(k) == [type |-> "elapsed", key |-> k]
Enqueued(q, ev, depth) == Append(q, [ev |-> ev, depth |-> depth])

(* The dispatch_at calls for a list of commands.                           *)
Calls(cmds, depth) ==
  [i \in DOMAIN cmds |-> [cmd |-> cmds[i], attempt |-> 1, depth |-> depth]]

(* RetryPolicy::backoff: doubled by every failed attempt up to the 16th.   *)
Doubled == <<1, 2, 4, 8, 16, 32, 64, 128, 256, 512, 1024, 2048, 4096, 8192, 16384, 32768>>
Backoff(failed) == BaseBackoff * Doubled[IF failed > 16 THEN 16 ELSE failed]

Clamp(v) == IF v < 0 THEN 0 ELSE IF v > 100 THEN 100 ELSE v

(* resolve_implicit_state_command: a relative command becomes absolute when*)
(* the store knows the present value.                                      *)
Resolve(cmd) ==
  LET known == cmd.op \in {"toggle", "adjust"} /\ store[cmd.cell] # NONE
      Set(v) == [op |-> "set", cell |-> cmd.cell, value |-> v]
  IN  IF ~known THEN cmd
      ELSE IF cmd.op = "toggle" THEN Set(1 - store[cmd.cell])
      ELSE Set(Clamp(store[cmd.cell] + cmd.by))

(* command_for_requested_change: at most one command for a desired change. *)
CommandsFor(want) ==
  CASE want.op = "set"    -> IF KindOf(want.cell) \in WritableKinds THEN <<want>> ELSE <<>>
    [] want.op = "adjust" -> IF want.by # 0 THEN <<want>> ELSE <<>>
    [] OTHER              -> <<want>>

(* No event is being matched, no timer is to be armed, no call is pending. *)
BetweenEvents == pc = "drain" /\ cur = NONE /\ arms = <<>> /\ work = <<>>

Front == Head(queue)

-----------------------------------------------------------------------------
Init ==
  /\ now = 0 /\ inputs = 0
  /\ pc = "sched" /\ booting = TRUE
  /\ queue = <<>> /\ cur = NONE /\ arms = <<>> /\ work = <<>>
  /\ store = [c \in Cells |-> NONE] /\ mirror = [c \in Cells |-> NONE]
  /\ heldFrom = [r \in ForRules |-> NONE]
  /\ timers = [k \in {} |-> 0] /\ retries = [k \in {} |-> 0]
  /\ pendingFor = [r \in ForRules |-> NONE]
  /\ forCounter = 0 /\ retryCounter = 0

-----------------------------------------------------------------------------
(* The host's calls, and tick_adapters *)

(* advance(dt).                                                            *)
Advance(dt) ==
  /\ pc = "idle"
  /\ now < MaxTime \/ DOMAIN timers # {}
  /\ now' = now + dt
  /\ pc' = "sched"
  /\ UNCHANGED <<inputs, booting, queue, cur, arms, work, stateVars, timerVars>>

(* inject(ev).                                                             *)
Inject(ev) ==
  /\ pc = "idle" /\ inputs < MaxInputs
  /\ inputs' = inputs + 1
  /\ queue' = Enqueued(queue, ev, 0)
  /\ pc' = "drain"
  /\ UNCHANGED <<now, booting, cur, arms, work, stateVars, timerVars>>

(* The scheduler ticks first: it hands over every due timer, earliest      *)
(* first, and forgets it.                                                  *)
TickTimer ==
  /\ pc = "sched"
  /\ \E k \in Earliest(timers, now) :
       /\ timers' = Cancel(timers, {k})
       /\ queue' = Enqueued(queue, Elapsed(k), 0)
  /\ UNCHANGED <<now, inputs, pc, booting, cur, arms, work, stateVars,
                 pendingFor, forCounter, retries, retryCounter>>

SchedulerTicked ==
  /\ pc = "sched" /\ Due(timers, now) = {}
  /\ pc' = "south"
  /\ UNCHANGED <<now, inputs, booting, queue, cur, arms, work, stateVars, timerVars>>

(* Then the device adapters and the clock.                                 *)
TickSouth(ev) ==
  /\ pc = "south" /\ inputs < MaxInputs
  /\ inputs' = inputs + 1
  /\ queue' = Enqueued(queue, ev, 0)
  /\ UNCHANGED <<now, pc, booting, cur, arms, work, stateVars, timerVars>>

(* Then the northbound adapters.  One may have flipped its own copy of the *)
(* state when its consumer wrote to it, ahead of any confirmation.         *)
TickNorth(ev) ==
  /\ pc \in {"south", "north"} /\ inputs < MaxInputs
  /\ inputs' = inputs + 1
  /\ pc' = "north"
  /\ queue' = Enqueued(queue, ev, 0)
  /\ \/ UNCHANGED mirror
     \/ /\ ev.type = "change" /\ ev.want.op = "set"
        /\ mirror' = [mirror EXCEPT ![ev.want.cell] = ev.want.value]
  /\ UNCHANGED <<now, booting, cur, arms, work, store, heldFrom, timerVars>>

TickDone ==
  /\ pc \in {"south", "north"}
  /\ pc' = "drain"
  /\ UNCHANGED <<now, inputs, booting, queue, cur, arms, work, stateVars, timerVars>>

-----------------------------------------------------------------------------
(* drain: one event *)

(* The backstop against runaway cascades.                                  *)
DropRunaway ==
  /\ BetweenEvents /\ queue # <<>>
  /\ Front.depth > MaxDepth
  /\ queue' = Tail(queue)
  /\ UNCHANGED <<now, inputs, pc, booting, cur, arms, work, stateVars, timerVars>>

Pop(type) ==
  /\ BetweenEvents /\ queue # <<>>
  /\ Front.depth =< MaxDepth
  /\ Front.ev.type = type
  /\ queue' = Tail(queue)
  /\ UNCHANGED <<now, inputs, pc, booting>>

(* Fault: the retry stays in the map when its timer elapses.               *)
FaultRetryKept ==
  /\ Pop("elapsed")
  /\ LET k == Front.ev.key
     IN  /\ k \in DOMAIN retries
         /\ work' = << [cmd |-> retries[k].cmd, attempt |-> retries[k].attempt, depth |-> 0] >>
  /\ UNCHANGED <<cur, arms, stateVars, retries, timers, pendingFor, forCounter, retryCounter>>

(* A retry timer: re-issue the command at depth 0.                         *)
RetryElapsed ==
  /\ Pop("elapsed")
  /\ LET k == Front.ev.key
     IN  /\ k \in DOMAIN retries
         /\ work' = << [cmd |-> retries[k].cmd, attempt |-> retries[k].attempt, depth |-> 0] >>
         /\ retries' = Cancel(retries, {k})
  /\ UNCHANGED <<cur, arms, stateVars, timers, pendingFor, forCounter, retryCounter>>

(* Fault: an elapsed "for:" timer keeps its owner.                         *)
FaultOwnerKept ==
  /\ Pop("elapsed")
  /\ LET k     == Front.ev.key
         owner == {r \in ForRules : pendingFor[r] = k}
         rule  == RuleList[CHOOSE r \in owner : TRUE]
     IN  /\ k \notin DOMAIN retries /\ IsForKey(k)
         /\ work' = IF owner # {} /\ PredicateHolds(rule.trigger, store)
                    THEN Calls(rule.cmds, 0) ELSE <<>>
  /\ UNCHANGED <<cur, arms, stateVars, timers, pendingFor, forCounter, retries, retryCounter>>

(* A "for:" timer: the owner's commands are issued if its predicate still  *)
(* holds.  Without an owner the timer is stale and does nothing.           *)
ForElapsed ==
  /\ Pop("elapsed")
  /\ LET k     == Front.ev.key
         owner == {r \in ForRules : pendingFor[r] = k}
         rule  == RuleList[CHOOSE r \in owner : TRUE]
     IN  /\ k \notin DOMAIN retries /\ IsForKey(k)
         /\ pendingFor' = [r \in ForRules |-> IF r \in owner THEN NONE ELSE pendingFor[r]]
         /\ work' = IF owner # {} /\ PredicateHolds(rule.trigger, store)
                    THEN Calls(rule.cmds, 0) ELSE <<>>
  /\ UNCHANGED <<cur, arms, stateVars, timers, forCounter, retries, retryCounter>>

(* Fault: the correction is fanned out only if a command was sent.         *)
FaultRefanIfSent ==
  /\ Pop("change")
  /\ LET want == Front.ev.want
     IN  /\ work' = Calls(CommandsFor(want), Front.depth)
         /\ mirror' = IF CommandsFor(want) # <<>> /\ store[want.cell] # NONE
                      THEN [mirror EXCEPT ![want.cell] = store[want.cell]]
                      ELSE mirror
  /\ UNCHANGED <<cur, arms, store, heldFrom, timerVars>>

(* RequestedChange: dispatch the command that achieves it, fold nothing,   *)
(* match nothing, and fan the store's present value out again so that a    *)
(* mirror which ran ahead is corrected.                                    *)
Requested ==
  /\ Pop("change")
  /\ LET want == Front.ev.want
     IN  /\ work' = Calls(CommandsFor(want), Front.depth)
         /\ mirror' = IF want.cell \in Cells /\ store[want.cell] # NONE
                      THEN [mirror EXCEPT ![want.cell] = store[want.cell]]
                      ELSE mirror
  /\ UNCHANGED <<cur, arms, store, heldFrom, timerVars>>

RequestedScene ==
  /\ Pop("scene")
  /\ work' = Calls(<< [op |-> "activate", scene |-> Front.ev.scene] >>, Front.depth)
  /\ UNCHANGED <<cur, arms, stateVars, timerVars>>

(* Fault: the loop over the rules runs one too far.                        *)
FaultOneRuleTooFar(c) == IF c.next \in RuleIds \cup {Len(RuleList) + 1} THEN c ELSE NONE

(* The rule at next, or nothing once every rule was considered.            *)
Considering(c) == IF c.next \in RuleIds THEN c ELSE NONE

(* Fault: reverted timers are looked for before the report is folded ...   *)
FaultRevertedTooEarly(folded) ==
  {r \in ForRules : pendingFor[r] # NONE /\ ~PredicateHolds(RuleList[r].trigger, store)}

(* ... or not at all, leaving it to the check when the timer elapses.      *)
FaultNeverReverted(folded) == {}

(* The rules whose "for:" timer is pending although the predicate ended.   *)
Reverted(folded) ==
  {r \in ForRules : pendingFor[r] # NONE /\ ~PredicateHolds(RuleList[r].trigger, folded)}

(* fold_state and cancel_reverted_for_timers: store and mirror take the    *)
(* reported value, and each "for:" timer whose predicate it ended is       *)
(* cancelled before any rule is matched.                                   *)
FoldReport ==
  /\ Pop("report")
  /\ LET cell     == Front.ev.cell
         folded   == [store EXCEPT ![cell] = Front.ev.value]
         reverted == Reverted(folded)
         Holds(r) == PredicateHolds(RuleList[r].trigger, folded)
     IN  /\ store' = folded
         /\ mirror' = [mirror EXCEPT ![cell] = Front.ev.value]
         /\ timers' = Cancel(timers, {pendingFor[r] : r \in reverted})
         /\ pendingFor' = [r \in ForRules |-> IF r \in reverted THEN NONE ELSE pendingFor[r]]
         /\ heldFrom' = [r \in ForRules |-> IF ~Holds(r) THEN NONE
                                            ELSE IF heldFrom[r] = NONE THEN now ELSE heldFrom[r]]
         /\ cur' = Considering([ev |-> Front.ev, prior |-> store[cell],
                                depth |-> Front.depth, next |-> 1])
  /\ UNCHANGED <<arms, work, forCounter, retries, retryCounter>>

(* Every other event that rules may react to.                              *)
TakeEvent ==
  /\ \/ Pop("action") \/ Pop("time") \/ Pop("failed")
     \/ Pop("elapsed") /\ Front.ev.key \notin DOMAIN retries /\ ~IsForKey(Front.ev.key)
  /\ cur' = Considering([ev |-> Front.ev, prior |-> NONE, depth |-> Front.depth, next |-> 1])
  /\ UNCHANGED <<arms, work, stateVars, timerVars>>

(* drain returns.  start() then replays the store into the mirrors.        *)
Quiesce ==
  /\ BetweenEvents /\ queue = <<>>
  /\ pc' = "idle" /\ booting' = FALSE
  /\ mirror' = IF booting THEN [c \in Cells |-> IF store[c] # NONE THEN store[c] ELSE mirror[c]]
               ELSE mirror
  /\ UNCHANGED <<now, inputs, queue, cur, arms, work, store, heldFrom, timerVars>>

-----------------------------------------------------------------------------
(* drain: matching, arming, dispatching *)

(* The body of the loop over rules: a rule that fires contributes its      *)
(* commands, or asks for its "for:" timer.                                 *)
ConsiderRule ==
  /\ cur # NONE
  /\ LET rule  == RuleList[cur.next]
         fired == Matches(rule.trigger, cur.ev, cur.prior) /\ Eval(rule.cond, store) = "True"
     IN  /\ work' = IF fired /\ rule.for = NONE THEN work \o Calls(rule.cmds, cur.depth) ELSE work
         /\ arms' = IF fired /\ rule.for # NONE THEN Append(arms, cur.next) ELSE arms
  /\ cur' = Considering([cur EXCEPT !.next = @ + 1])
  /\ UNCHANGED <<now, inputs, pc, booting, queue, stateVars, timerVars>>

(* Fault: the counter that makes the key unique is not advanced.           *)
FaultSameKey ==
  /\ cur = NONE /\ arms # <<>>
  /\ LET r == Head(arms)
         k == ForKey(forCounter)
     IN  /\ pendingFor' = [pendingFor EXCEPT ![r] = k]
         /\ timers' = Schedule(Cancel(timers, {pendingFor[r]}), k, now + RuleList[r].for)
  /\ arms' = Tail(arms)
  /\ UNCHANGED <<now, inputs, pc, booting, queue, cur, work, stateVars, forCounter, retries, retryCounter>>

(* arm_for_timer: a fresh edge replaces the timer the rule already has.    *)
ArmFor ==
  /\ cur = NONE /\ arms # <<>>
  /\ LET r == Head(arms)
         k == ForKey(forCounter + 1)
     IN  /\ forCounter' = forCounter + 1
         /\ pendingFor' = [pendingFor EXCEPT ![r] = k]
         /\ timers' = Schedule(Cancel(timers, {pendingFor[r]}), k, now + RuleList[r].for)
  /\ arms' = Tail(arms)
  /\ UNCHANGED <<now, inputs, pc, booting, queue, cur, work, stateVars, retries, retryCounter>>

(* dispatch_at: the next call, its command resolved against the store.     *)
NextCall(ops) ==
  /\ cur = NONE /\ arms = <<>> /\ work # <<>>
  /\ Resolve(Head(work).cmd).op \in ops
  /\ UNCHANGED <<now, inputs, pc, booting, cur, arms, stateVars, pendingFor, forCounter>>

Call    == Head(work)
Command == Resolve(Call.cmd)

ExpandScene ==
  /\ NextCall({"activate"})
  /\ work' = (IF Command.scene \in DOMAIN Scenes
              THEN Calls(Scenes[Command.scene], Call.depth) ELSE <<>>) \o Tail(work)
  /\ UNCHANGED <<queue, timers, retries, retryCounter>>

SetTimer ==
  /\ NextCall({"schedule", "cancel"})
  /\ timers' = IF Command.op = "schedule"
               THEN Schedule(timers, Command.key, now + Command.after)
               ELSE Cancel(timers, {Command.key})
  /\ work' = Tail(work)
  /\ UNCHANGED <<queue, retries, retryCounter>>

(* give_up: the failure becomes an event, one hop further.                 *)
GiveUp ==
  /\ queue' = Enqueued(queue, [type |-> "failed", cmd |-> Command], Call.depth + 1)
  /\ UNCHANGED <<timers, retries, retryCounter>>

(* Fault: the retry is recorded but its timer is not started.              *)
FaultRetryWithoutTimer ==
  LET k == RetryKey(retryCounter + 1)
  IN  /\ retryCounter' = retryCounter + 1
      /\ retries' = [j \in DOMAIN retries \cup {k} |->
                       IF j = k THEN [cmd |-> Command, attempt |-> Call.attempt + 1] ELSE retries[j]]
      /\ UNCHANGED <<queue, timers>>

(* schedule_retry: the failed command waits in retries for its timer.      *)
ScheduleRetry ==
  LET k == RetryKey(retryCounter + 1)
  IN  /\ retryCounter' = retryCounter + 1
      /\ retries' = [j \in DOMAIN retries \cup {k} |->
                       IF j = k THEN [cmd |-> Command, attempt |-> Call.attempt + 1] ELSE retries[j]]
      /\ timers' = Schedule(timers, k, now + Backoff(Call.attempt))
      /\ UNCHANGED queue

(* Fault: a confirmation does not count as a further hop.                  *)
FaultSameDepth ==
  /\ NextCall(DeviceOps)
  /\ Binding[TargetDevice(Command)] \in {"echo", "remote"}
  /\ queue' = IF Binding[TargetDevice(Command)] = "echo" /\ Command.op = "set"
              THEN Enqueued(queue, [type |-> "report", cell |-> Command.cell, value |-> Command.value],
                            Call.depth)
              ELSE queue
  /\ work' = Tail(work)
  /\ UNCHANGED <<timers, retries, retryCounter>>

(* Outcome Ok.  The mock and virtual adapters confirm a "set" at once with *)
(* a report; a protocol adapter has handed the command to its transport.   *)
DispatchOk ==
  /\ NextCall(DeviceOps)
  /\ Binding[TargetDevice(Command)] \in {"echo", "remote"}
  /\ queue' = IF Binding[TargetDevice(Command)] = "echo" /\ Command.op = "set"
              THEN Enqueued(queue, [type |-> "report", cell |-> Command.cell, value |-> Command.value],
                            Call.depth + 1)
              ELSE queue
  /\ work' = Tail(work)
  /\ UNCHANGED <<timers, retries, retryCounter>>

(* Outcome Transient: retry until the attempts are used up.                *)
DispatchTransient ==
  /\ NextCall(DeviceOps)
  /\ Binding[TargetDevice(Command)] = "remote"
  /\ IF Call.attempt < MaxAttempts THEN ScheduleRetry ELSE GiveUp
  /\ work' = Tail(work)

(* Outcome Permanent, which is also what a device without an adapter gets. *)
DispatchPermanent ==
  /\ NextCall(DeviceOps)
  /\ Binding[TargetDevice(Command)] \in {"remote", "none"}
  /\ GiveUp
  /\ work' = Tail(work)

-----------------------------------------------------------------------------
Host == \/ \E dt \in TimeSteps : Advance(dt)
        \/ \E ev \in SouthEvents : Inject(ev)

Tick == \/ TickTimer
        \/ SchedulerTicked
        \/ \E ev \in SouthEvents : TickSouth(ev)
        \/ \E ev \in NorthEvents : TickNorth(ev)
        \/ TickDone

Drain == \/ DropRunaway \/ RetryElapsed \/ ForElapsed \/ Requested \/ RequestedScene
         \/ FoldReport \/ TakeEvent \/ Quiesce
         \/ ConsiderRule \/ ArmFor
         \/ ExpandScene \/ SetTimer \/ DispatchOk \/ DispatchTransient \/ DispatchPermanent

Next == Host \/ Tick \/ Drain

Spec == Init /\ [][Next]_vars

(* A call into the engine runs on: nothing blocks inside tick or drain.    *)
(* The host keeps advancing time, at the latest every five seconds.        *)
Fairness == /\ WF_vars(Drain) /\ WF_vars(TickTimer \/ SchedulerTicked) /\ WF_vars(TickDone)
            /\ WF_vars(\E dt \in TimeSteps : Advance(dt))
FairSpec == Spec /\ Fairness
=============================================================================
