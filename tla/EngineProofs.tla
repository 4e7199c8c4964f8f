---------------------------- MODULE EngineProofs ----------------------------
(***************************************************************************)
(* Theorems about the engine core, for every configuration: any rules,     *)
(* scenes, bindings, limits and environment the assumptions of Engine      *)
(* admit.                                                                  *)
(***************************************************************************)
EXTENDS EngineProperties, TLAPS, SequenceTheorems

(* What an event of each type carries.                                     *)
LEMMA ReportShape == ASSUME NEW e \in Event, e.type = "report" PROVE e \in Report
BY InputAssumption DEF Event, Report

LEMMA ChangeShape == ASSUME NEW e \in Event, e.type = "change" PROVE e \in ChangeEvent
BY InputAssumption DEF Event, Report

LEMMA SceneShape == ASSUME NEW e \in Event, e.type = "scene" PROVE e.scene \in DOMAIN Scenes
BY InputAssumption DEF Event, Report

LEMMA ElapsedShape == ASSUME NEW e \in Event, e.type = "elapsed" PROVE e.key \in Key
BY InputAssumption DEF Event, Report

(* A list of commands turns into a list of dispatch_at calls.              *)
LEMMA CallsType ==
  ASSUME NEW cmds \in Seq(Cmd), NEW depth \in Nat
  PROVE  Calls(cmds, depth) \in Seq(PendingCall)
<1>1. Len(cmds) \in Nat /\ DOMAIN cmds = 1..Len(cmds) BY LenProperties
<1>2. Calls(cmds, depth) \in [1..Len(cmds) -> PendingCall]
  BY <1>1, ElementOfSeq DEF Calls, PendingCall
<1>3. QED BY <1>1, <1>2

(* Resolution yields a command, and never turns a device command into      *)
(* another kind of command or the other way round.                         *)
LEMMA ResolveType ==
  ASSUME TypeOK, NEW cmd \in Cmd
  PROVE  /\ Resolve(cmd) \in Cmd
         /\ Resolve(cmd).op \in DeviceOps => Resolve(cmd) \in DeviceCmd
<1> USE DEF Cmd, DeviceCmd, DeviceOps
<1>1. CASE cmd.op = "toggle" BY <1>1 DEF Resolve, TypeOK
<1>2. CASE cmd.op = "adjust" BY <1>2 DEF Resolve, TypeOK, Clamp
<1>3. CASE cmd.op \notin {"toggle", "adjust"} BY <1>3 DEF Resolve
<1>4. QED BY <1>1, <1>2, <1>3

(* A backoff is a delay.                                                   *)
LEMMA BackoffType == ASSUME NEW n \in Nat \ {0} PROVE Backoff(n) \in Nat
<1> DEFINE i == IF n > 16 THEN 16 ELSE n
<1>1. i \in 1..16 OBVIOUS
<1>2. \A j \in 1..16 : Doubled[j] \in Nat BY DEF Doubled
<1>3. Doubled[i] \in Nat BY <1>1, <1>2
<1>4. QED BY <1>3, EngineAssumption DEF Backoff

(* Adding one event to the queue.                                          *)
LEMMA EnqueuedType ==
  ASSUME TypeOK, NEW ev \in Event, NEW d \in Nat
  PROVE  Enqueued(queue, ev, d) \in Seq(Entry)
BY AppendProperties DEF Enqueued, TypeOK, Entry

(* Taking one event from it.                                               *)
LEMMA FrontType ==
  ASSUME TypeOK, queue # <<>>
  PROVE  Front.ev \in Event /\ Front.depth \in Nat /\ Tail(queue) \in Seq(Entry)
<1>1. Head(queue) \in Entry /\ Tail(queue) \in Seq(Entry) BY HeadTailProperties DEF TypeOK
<1>2. QED BY <1>1 DEF Front, Entry

(* The next call of dispatch_at.                                           *)
LEMMA CallType ==
  ASSUME TypeOK, work # <<>>
  PROVE  /\ Call.cmd \in Cmd /\ Call.attempt \in Nat \ {0} /\ Call.depth \in Nat
         /\ Tail(work) \in Seq(PendingCall)
         /\ Command \in Cmd /\ (Command.op \in DeviceOps => Command \in DeviceCmd)
<1>1. Head(work) \in PendingCall /\ Tail(work) \in Seq(PendingCall)
  BY HeadTailProperties DEF TypeOK
<1>2. Call.cmd \in Cmd /\ Call.attempt \in Nat \ {0} /\ Call.depth \in Nat
  BY <1>1 DEF Call, PendingCall
<1>3. QED BY <1>1, <1>2, ResolveType DEF Command

(* The scheduler's map stays a map from keys to times.                     *)
TimersOK(t) == DOMAIN t \subseteq Key /\ t \in [DOMAIN t -> Nat]

LEMMA CancelType ==
  ASSUME NEW t, TimersOK(t), NEW K PROVE TimersOK(Cancel(t, K))
BY DEF TimersOK, Cancel

LEMMA ScheduleType ==
  ASSUME NEW t, TimersOK(t), NEW k \in Key, NEW at \in Nat
  PROVE  TimersOK(Schedule(t, k, at))
BY DEF TimersOK, Schedule

LEMMA KeyTypes == /\ \A n \in Nat : ForKey(n) \in Key /\ RetryKey(n) \in Key
                  /\ UserTimers \subseteq Key
BY DEF ForKey, RetryKey, Key

-----------------------------------------------------------------------------
(* Type correctness, one step per action.                                  *)

LEMMA InitType == Init => TypeOK
BY EngineAssumption DEF Init, TypeOK

LEMMA TypeStep == TypeOK /\ [Next]_vars => TypeOK'
<1> SUFFICES ASSUME TypeOK, [Next]_vars PROVE TypeOK' OBVIOUS
<1> USE DEF stateVars, timerVars
<1>1. ASSUME NEW dt \in TimeSteps, Advance(dt) PROVE TypeOK'
  <2>1. dt \in Nat
    BY EngineAssumption
  <2>2. now' \in Nat /\ pc' = "sched"
        /\ UNCHANGED <<inputs, booting, queue, cur, arms, work, stateVars, timerVars>>
    BY <1>1, <2>1 DEF Advance, TypeOK
  <2>3. QED
    BY <2>2 DEF TypeOK
<1>2. ASSUME NEW ev \in SouthEvents, Inject(ev) PROVE TypeOK'
  <2>1. ev \in Event BY DEF Event
  <2>2. queue' \in Seq(Entry) BY <1>2, <2>1, EnqueuedType DEF Inject
  <2>3. QED BY <1>2, <2>2 DEF Inject, TypeOK
<1>3. CASE TickTimer
  <2>1. PICK k \in DOMAIN timers : /\ timers' = Cancel(timers, {k})
                                  /\ queue' = Enqueued(queue, Elapsed(k), 0)
    BY <1>3 DEF TickTimer, Earliest, Due
  <2>2. Elapsed(k) \in Event BY DEF TypeOK, Elapsed, Event
  <2>3. TimersOK(timers') BY <2>1, CancelType DEF TypeOK, TimersOK
  <2>4. queue' \in Seq(Entry) BY <2>1, <2>2, EnqueuedType
  <2>5. QED BY <1>3, <2>3, <2>4 DEF TickTimer, TypeOK, TimersOK
<1>4. CASE SchedulerTicked BY <1>4 DEF SchedulerTicked, TypeOK
<1>5. ASSUME NEW ev \in SouthEvents, TickSouth(ev) PROVE TypeOK'
  <2>1. ev \in Event BY DEF Event
  <2>2. queue' \in Seq(Entry) BY <1>5, <2>1, EnqueuedType DEF TickSouth
  <2>3. QED BY <1>5, <2>2 DEF TickSouth, TypeOK
<1>6. ASSUME NEW ev \in NorthEvents, TickNorth(ev) PROVE TypeOK'
  <2>1. queue' \in Seq(Entry) BY <1>6, EnqueuedType DEF TickNorth, Event
  <2>2. mirror' \in [Cells -> Int \cup {NONE}]
    BY <1>6, InputAssumption DEF TickNorth, TypeOK, ChangeEvent, DeviceCmd
  <2>3. QED BY <1>6, <2>1, <2>2 DEF TickNorth, TypeOK
<1>7. CASE TickDone BY <1>7 DEF TickDone, TypeOK
<1>8. CASE DropRunaway
  BY <1>8, FrontType DEF DropRunaway, TypeOK
<1>9. CASE RetryElapsed
  <2>1. Tail(queue) \in Seq(Entry) BY <1>9, FrontType DEF RetryElapsed, Pop
  <2> DEFINE k == Front.ev.key
  <2>2. [cmd |-> retries[k].cmd, attempt |-> retries[k].attempt, depth |-> 0] \in PendingCall
    BY <1>9 DEF RetryElapsed, TypeOK, PendingCall, Cmd
  <2>3. work' \in Seq(PendingCall) BY <1>9, <2>2 DEF RetryElapsed
  <2>4. QED BY <1>9, <2>1, <2>3 DEF RetryElapsed, Pop, Cancel, TypeOK
<1>10. CASE ForElapsed
  <2>1. Tail(queue) \in Seq(Entry) BY <1>10, FrontType DEF ForElapsed, Pop
  <2> DEFINE owner == {r \in ForRules : pendingFor[r] = Front.ev.key}
             rule  == RuleList[CHOOSE r \in owner : TRUE]
  <2>2. owner # {} => rule.cmds \in Seq(Cmd)
    BY RulesAssumption DEF ForRules
  <2>3. work' \in Seq(PendingCall)
    BY <1>10, <2>2, CallsType DEF ForElapsed
  <2>4. pendingFor' \in [ForRules -> Key \cup {NONE}] BY <1>10 DEF ForElapsed, TypeOK
  <2>5. QED BY <1>10, <2>1, <2>3, <2>4 DEF ForElapsed, Pop, TypeOK
<1>11. CASE Requested
  <2>1. Front.ev \in ChangeEvent /\ Front.depth \in Nat /\ Tail(queue) \in Seq(Entry)
    BY <1>11, FrontType, ChangeShape DEF Requested, Pop
  <2>2. Front.ev.want \in Cmd BY <2>1 DEF ChangeEvent, Cmd
  <2>3. CommandsFor(Front.ev.want) \in Seq(Cmd) BY <2>2 DEF CommandsFor
  <2>4. work' \in Seq(PendingCall) BY <1>11, <2>1, <2>3, CallsType DEF Requested
  <2>5. mirror' \in [Cells -> Int \cup {NONE}] BY <1>11 DEF Requested, TypeOK
  <2>6. QED BY <1>11, <2>1, <2>4, <2>5 DEF Requested, Pop, TypeOK
<1>12. CASE RequestedScene
  <2>1. Front.ev.scene \in DOMAIN Scenes /\ Front.depth \in Nat /\ Tail(queue) \in Seq(Entry)
    BY <1>12, FrontType, SceneShape DEF RequestedScene, Pop
  <2>2. << [op |-> "activate", scene |-> Front.ev.scene] >> \in Seq(Cmd) BY <2>1 DEF Cmd
  <2>3. work' \in Seq(PendingCall) BY <1>12, <2>1, <2>2, CallsType DEF RequestedScene
  <2>4. QED BY <1>12, <2>1, <2>3 DEF RequestedScene, Pop, TypeOK
<1>13. CASE FoldReport
  <2>1. Front.ev \in Event /\ Front.ev \in Report /\ Front.depth \in Nat /\ Tail(queue) \in Seq(Entry)
    BY <1>13, FrontType, ReportShape DEF FoldReport, Pop
  <2>2. Front.ev.cell \in Cells /\ Front.ev.value \in Int BY <2>1 DEF Report
  <2>3. store' \in [Cells -> Int \cup {NONE}] /\ mirror' \in [Cells -> Int \cup {NONE}]
    BY <1>13, <2>2 DEF FoldReport, TypeOK
  <2>4. TimersOK(timers') BY <1>13, CancelType DEF FoldReport, TypeOK, TimersOK
  <2>5. pendingFor' \in [ForRules -> Key \cup {NONE}] BY <1>13 DEF FoldReport, Reverted, TypeOK
  <2>6. heldFrom' \in [ForRules -> Nat \cup {NONE}] BY <1>13 DEF FoldReport, Reverted, TypeOK
  <2>7. store[Front.ev.cell] \in Int \cup {NONE} BY <2>2 DEF TypeOK
  <2>8. cur' = NONE \/ cur' \in [ev : Event, prior : Int \cup {NONE}, depth : Nat, next : RuleIds]
    BY <1>13, <2>1, <2>7 DEF FoldReport, Considering
  <2>9. QED BY <1>13, <2>1, <2>3, <2>4, <2>5, <2>6, <2>8 DEF FoldReport, Pop, TypeOK, TimersOK
<1>14. CASE TakeEvent
  <2>1. Front.ev \in Event /\ Front.depth \in Nat /\ Tail(queue) \in Seq(Entry)
    BY <1>14, FrontType DEF TakeEvent, Pop
  <2>2. cur' = NONE \/ cur' \in [ev : Event, prior : Int \cup {NONE}, depth : Nat, next : RuleIds]
    BY <1>14, <2>1 DEF TakeEvent, Considering
  <2>3. queue' = Tail(queue) /\ UNCHANGED <<now, inputs, pc, booting>>
    BY <1>14 DEF TakeEvent, Pop
  <2>4. QED BY <1>14, <2>1, <2>2, <2>3 DEF TakeEvent, TypeOK
<1>15. CASE Quiesce BY <1>15 DEF Quiesce, TypeOK
<1>16. CASE ConsiderRule
  <2> DEFINE rule == RuleList[cur.next]
  <2>1. cur \in [ev : Event, prior : Int \cup {NONE}, depth : Nat, next : RuleIds]
    BY <1>16 DEF ConsiderRule, TypeOK
  <2>2. Calls(rule.cmds, cur.depth) \in Seq(PendingCall) BY <2>1, RulesAssumption, CallsType
  <2>3. work \o Calls(rule.cmds, cur.depth) \in Seq(PendingCall)
    BY <2>2, ConcatProperties DEF TypeOK
  <2>4. work' \in Seq(PendingCall) BY <1>16, <2>3 DEF ConsiderRule, TypeOK
  <2>5. rule.for # NONE => cur.next \in ForRules BY <2>1 DEF ForRules
  <2>6. arms' \in Seq(ForRules) BY <1>16, <2>5, AppendProperties DEF ConsiderRule, TypeOK
  <2>7. cur' = NONE \/ cur' \in [ev : Event, prior : Int \cup {NONE}, depth : Nat, next : RuleIds]
    BY <1>16, <2>1 DEF ConsiderRule, Considering
  <2>8. QED BY <1>16, <2>4, <2>6, <2>7 DEF ConsiderRule, TypeOK
<1>17. CASE ArmFor
  <2>1. Head(arms) \in ForRules /\ Tail(arms) \in Seq(ForRules)
    BY <1>17, HeadTailProperties DEF ArmFor, TypeOK
  <2>2. ForKey(forCounter + 1) \in Key /\ forCounter + 1 \in Nat BY KeyTypes DEF TypeOK
  <2>3. now + RuleList[Head(arms)].for \in Nat
    <3>1. RuleList[Head(arms)].for \in Nat BY <2>1, RulesAssumption
    <3>2. now \in Nat BY DEF TypeOK
    <3>3. QED BY <3>1, <3>2
  <2>4. TimersOK(timers')
    <3>1. TimersOK(Cancel(timers, {pendingFor[Head(arms)]}))
      <4>1. TimersOK(timers) BY DEF TypeOK, TimersOK
      <4>2. QED BY <4>1, CancelType
    <3>2. timers' = Schedule(Cancel(timers, {pendingFor[Head(arms)]}), ForKey(forCounter + 1),
                             now + RuleList[Head(arms)].for)
      BY <1>17 DEF ArmFor
    <3>3. QED BY <2>2, <2>3, <3>1, <3>2, ScheduleType
  <2>5. pendingFor' \in [ForRules -> Key \cup {NONE}] BY <1>17, <2>1, <2>2 DEF ArmFor, TypeOK
  <2>6. QED BY <1>17, <2>1, <2>2, <2>4, <2>5 DEF ArmFor, TypeOK, TimersOK
<1>18. CASE ExpandScene
  <2>1. /\ Tail(work) \in Seq(PendingCall) /\ Call.depth \in Nat
    BY <1>18, CallType DEF ExpandScene, NextCall
  <2>2. Command.scene \in DOMAIN Scenes => Calls(Scenes[Command.scene], Call.depth) \in Seq(PendingCall)
    BY <2>1, RulesAssumption, CallsType
  <2>3. work' \in Seq(PendingCall) BY <1>18, <2>1, <2>2, EmptySeq, ConcatProperties DEF ExpandScene
  <2>4. QED BY <1>18, <2>3 DEF ExpandScene, NextCall, TypeOK
<1>19. CASE SetTimer
  <2>1. Tail(work) \in Seq(PendingCall) /\ Command \in Cmd
    BY <1>19, CallType DEF SetTimer, NextCall
  <2>2. Command.op = "schedule" => Command.key \in Key /\ now + Command.after \in Nat
    BY <2>1, KeyTypes DEF Cmd, DeviceCmd, TypeOK
  <2>3. TimersOK(timers')
    BY <1>19, <2>2, CancelType, ScheduleType DEF SetTimer, TypeOK, TimersOK
  <2>4. QED BY <1>19, <2>1, <2>3 DEF SetTimer, NextCall, TypeOK, TimersOK
<1>20. CASE DispatchOk
  <2>1. Tail(work) \in Seq(PendingCall) /\ Call.depth + 1 \in Nat /\ Command \in DeviceCmd
    BY <1>20, CallType DEF DispatchOk, NextCall, Command, Call
  <2>2. Command.op = "set" =>
          [type |-> "report", cell |-> Command.cell, value |-> Command.value] \in Event
    BY <2>1 DEF DeviceCmd, Event, Report
  <2>3. queue' \in Seq(Entry) BY <1>20, <2>1, <2>2, EnqueuedType DEF DispatchOk, TypeOK
  <2>4. QED BY <1>20, <2>1, <2>3 DEF DispatchOk, NextCall, TypeOK
<1>21. ASSUME NextCall(DeviceOps), GiveUp, work' = Tail(work) PROVE TypeOK'
  <2>1. Tail(work) \in Seq(PendingCall) /\ Call.depth + 1 \in Nat /\ Command \in DeviceCmd
    BY <1>21, CallType DEF NextCall, Command, Call
  <2>2. [type |-> "failed", cmd |-> Command] \in Event BY <2>1 DEF Event
  <2>3. queue' \in Seq(Entry) BY <1>21, <2>1, <2>2, EnqueuedType DEF GiveUp
  <2>4. QED BY <1>21, <2>1, <2>3 DEF GiveUp, NextCall, TypeOK
<1>22. ASSUME NextCall(DeviceOps), ScheduleRetry, work' = Tail(work) PROVE TypeOK'
  <2>1. /\ Tail(work) \in Seq(PendingCall) /\ Command \in DeviceCmd
        /\ Call.attempt \in Nat \ {0} /\ Call.attempt + 1 \in Nat \ {0}
    BY <1>22, CallType DEF NextCall, Command, Call
  <2>2. RetryKey(retryCounter + 1) \in Key /\ retryCounter + 1 \in Nat BY KeyTypes DEF TypeOK
  <2>3. now + Backoff(Call.attempt) \in Nat BY <2>1, BackoffType DEF TypeOK
  <2>4. TimersOK(timers') BY <1>22, <2>2, <2>3, ScheduleType DEF ScheduleRetry, TypeOK, TimersOK
  <2>5. /\ DOMAIN retries' \subseteq Key
        /\ retries' \in [DOMAIN retries' -> [cmd : DeviceCmd, attempt : Nat \ {0}]]
    BY <1>22, <2>1, <2>2 DEF ScheduleRetry, TypeOK
  <2>6. QED BY <1>22, <2>1, <2>2, <2>4, <2>5 DEF ScheduleRetry, NextCall, TypeOK, TimersOK
<1>23. CASE DispatchTransient BY <1>23, <1>21, <1>22 DEF DispatchTransient
<1>24. CASE DispatchPermanent BY <1>24, <1>21 DEF DispatchPermanent
<1>25. CASE UNCHANGED vars BY <1>25 DEF vars, loopVars, TypeOK
<1>26. QED
  BY <1>1, <1>2, <1>3, <1>4, <1>5, <1>6, <1>7, <1>8, <1>9, <1>10, <1>11, <1>12, <1>13, <1>14,
     <1>15, <1>16, <1>17, <1>18, <1>19, <1>20, <1>23, <1>24, <1>25
  DEF Next, Host, Tick, Drain

(* Every variable keeps its type: whatever rules, adapters and the host do,*)
(* the engine's queue, timers and retries hold only what its handlers can  *)
(* take.                                                                   *)
THEOREM TypeCorrect == Spec => []TypeOK
BY InitType, TypeStep, PTL DEF Spec

-----------------------------------------------------------------------------
(* "for:" timers and the predicates they measure.  ForSustained is not     *)
(* inductive: a timer is armed some steps after its rule was matched, from *)
(* a value that was folded some steps before that.  The strengthening says *)
(* what those steps carry: the report being matched is what the store      *)
(* holds, and every rule waiting to be armed has its predicate satisfied.  *)

MatchedIsFolded ==
  cur # NONE /\ cur.ev.type = "report" => store[cur.ev.cell] = cur.ev.value

ArmsSustained ==
  \A i \in DOMAIN arms : PredicateHolds(RuleList[arms[i]].trigger, store)

SustainedInv == TypeOK /\ MatchedIsFolded /\ ArmsSustained /\ ForSustained

(* An edge trigger that matches a report is satisfied by its value.        *)
LEMMA EdgeMatch ==
  ASSUME NEW trigger, trigger.on \in EdgeTriggers, NEW ev, NEW prior,
         Matches(trigger, ev, prior)
  PROVE  ev.type = "report" /\ trigger.cell = ev.cell /\ Satisfies(trigger, ev.value)
BY DEF Matches, EdgeTriggers

LEMMA SustainedInit == Init => SustainedInv
<1>1. Init => MatchedIsFolded /\ ArmsSustained /\ ForSustained
  BY DEF Init, MatchedIsFolded, ArmsSustained, ForSustained
<1>2. QED BY <1>1, InitType DEF SustainedInv

(* What every step that neither folds, nor matches, nor arms preserves.    *)
LEMMA SustainedFrame ==
  ASSUME SustainedInv, UNCHANGED store, cur' = cur \/ cur' = NONE, arms' = arms \/ arms' = <<>>,
         \A r \in ForRules : pendingFor'[r] \in {pendingFor[r], NONE}
  PROVE  MatchedIsFolded' /\ ArmsSustained' /\ ForSustained'
<1> USE DEF SustainedInv
<1>1. MatchedIsFolded' BY DEF MatchedIsFolded
<1>2. ArmsSustained' BY DEF ArmsSustained, PredicateHolds
<1>3. ForSustained' BY DEF ForSustained, PredicateHolds
<1>4. QED BY <1>1, <1>2, <1>3

LEMMA SustainedStep == SustainedInv /\ [Next]_vars => SustainedInv'
<1> SUFFICES ASSUME SustainedInv, [Next]_vars PROVE SustainedInv' OBVIOUS
<1>0. TypeOK /\ TypeOK' BY TypeStep DEF SustainedInv
<1>1. CASE FoldReport
  <2> DEFINE cell      == Front.ev.cell
             folded    == [store EXCEPT ![cell] = Front.ev.value]
             Holds(r)  == PredicateHolds(RuleList[r].trigger, folded)
  <2>1. Front.ev.type = "report" /\ Front.ev.cell \in Cells
    BY <1>1, <1>0, FrontType, ReportShape DEF FoldReport, Pop, Report
  <2>2. store' = folded /\ folded[cell] = Front.ev.value
    BY <1>1, <1>0, <2>1 DEF FoldReport, TypeOK
  <2>3. MatchedIsFolded'
    BY <1>1, <2>2 DEF FoldReport, Considering, MatchedIsFolded
  <2>4. ArmsSustained' BY <1>1 DEF FoldReport, Pop, BetweenEvents, ArmsSustained
  <2>5. \A r \in ForRules : pendingFor'[r] # NONE => Holds(r)
    BY <1>1 DEF FoldReport, Reverted
  <2>6. ForSustained' BY <2>2, <2>5 DEF ForSustained, PredicateHolds
  <2>7. QED BY <1>0, <2>3, <2>4, <2>6 DEF SustainedInv
<1>2. CASE TakeEvent
  <2>1. Front.ev.type # "report" BY <1>2 DEF TakeEvent, Pop
  <2>2. MatchedIsFolded' BY <1>2, <2>1 DEF TakeEvent, Considering, MatchedIsFolded
  <2>3. ArmsSustained' /\ ForSustained'
    BY <1>2 DEF TakeEvent, stateVars, timerVars, SustainedInv, ArmsSustained, ForSustained, PredicateHolds
  <2>4. QED BY <1>0, <2>2, <2>3 DEF SustainedInv
<1>3. CASE ConsiderRule
  <2> DEFINE rule == RuleList[cur.next]
  <2>1. UNCHANGED <<store, pendingFor>> BY <1>3 DEF ConsiderRule, stateVars, timerVars
  <2>2. ForSustained' BY <2>1 DEF SustainedInv, ForSustained, PredicateHolds
  <2>3. MatchedIsFolded'
    <3>1. cur \in [ev : Event, prior : Int \cup {NONE}, depth : Nat, next : RuleIds]
      BY <1>3, <1>0 DEF ConsiderRule, TypeOK
    <3>2. cur' # NONE => cur'.ev = cur.ev
      BY <1>3, <3>1 DEF ConsiderRule, Considering
    <3>3. QED BY <1>3, <2>1, <3>2 DEF ConsiderRule, SustainedInv, MatchedIsFolded
  <2>4. CASE arms' = arms BY <2>1, <2>2, <2>3, <2>4, <1>0 DEF SustainedInv, ArmsSustained, PredicateHolds
  <2>5. CASE arms' # arms
    <3>1. /\ arms' = Append(arms, cur.next) /\ rule.for # NONE
          /\ Matches(rule.trigger, cur.ev, cur.prior)
      BY <1>3, <2>5 DEF ConsiderRule
    <3>2. cur.next \in ForRules /\ rule.trigger.on \in EdgeTriggers
      BY <1>3, <1>0, <3>1, RulesAssumption DEF ConsiderRule, TypeOK, ForRules
    <3>3. PredicateHolds(rule.trigger, store)
      BY <1>3, <3>1, <3>2, EdgeMatch DEF ConsiderRule, SustainedInv, MatchedIsFolded, PredicateHolds
    <3>4. /\ DOMAIN arms = 1..Len(arms) /\ DOMAIN arms' = 1..Len(arms)+1 /\ Len(arms) \in Nat
          /\ \A i \in 1..Len(arms) : arms'[i] = arms[i]
          /\ arms'[Len(arms)+1] = cur.next
      BY <1>0, <3>1, <3>2, AppendProperties, LenProperties DEF TypeOK
    <3>5. ArmsSustained'
      <4>1. SUFFICES ASSUME NEW i \in 1..Len(arms)+1
                     PROVE  PredicateHolds(RuleList[arms'[i]].trigger, store)
        BY <2>1, <3>4 DEF ArmsSustained, PredicateHolds
      <4>2. CASE i \in 1..Len(arms) BY <4>2, <3>4 DEF SustainedInv, ArmsSustained
      <4>3. CASE i = Len(arms) + 1 BY <4>3, <3>3, <3>4
      <4>4. QED BY <4>1, <4>2, <4>3, <3>4
    <3>6. QED BY <1>0, <2>2, <2>3, <3>5 DEF SustainedInv
  <2>6. QED BY <2>4, <2>5
<1>4. CASE ArmFor
  <2>1. /\ Head(arms) = arms[1] /\ 1 \in DOMAIN arms
        /\ \A i \in DOMAIN arms' : i + 1 \in DOMAIN arms /\ arms'[i] = arms[i + 1]
    BY <1>4, <1>0, HeadTailProperties, LenProperties, EmptySeq DEF ArmFor, TypeOK
  <2>2. UNCHANGED <<store, cur>> BY <1>4 DEF ArmFor, stateVars
  <2>3. MatchedIsFolded' BY <2>2 DEF SustainedInv, MatchedIsFolded
  <2>4. ArmsSustained' BY <2>1, <2>2 DEF SustainedInv, ArmsSustained, PredicateHolds
  <2>5. PredicateHolds(RuleList[Head(arms)].trigger, store) BY <2>1 DEF SustainedInv, ArmsSustained
  <2>6. \A r \in ForRules : r # Head(arms) => pendingFor'[r] = pendingFor[r]
    BY <1>4, <1>0 DEF ArmFor, TypeOK
  <2>7. ForSustained' BY <2>2, <2>5, <2>6 DEF SustainedInv, ForSustained, PredicateHolds
  <2>8. QED BY <1>0, <2>3, <2>4, <2>7 DEF SustainedInv
<1>5. CASE ForElapsed
  <2>1. UNCHANGED <<store, cur, arms>> BY <1>5 DEF ForElapsed, stateVars
  <2>2. \A r \in ForRules : pendingFor'[r] \in {pendingFor[r], NONE} BY <1>5 DEF ForElapsed
  <2>3. QED BY <1>0, <2>1, <2>2, SustainedFrame DEF SustainedInv
<1>6. CASE /\ ~FoldReport /\ ~TakeEvent /\ ~ConsiderRule /\ ~ArmFor /\ ~ForElapsed
  <2>1. UNCHANGED <<store, cur, arms, pendingFor>>
    BY <1>6 DEF Next, Host, Tick, Drain, vars, loopVars, stateVars, timerVars,
       Advance, Inject, TickTimer, SchedulerTicked, TickSouth, TickNorth, TickDone,
       DropRunaway, Pop, RetryElapsed, Requested, RequestedScene, Quiesce, NextCall,
       ExpandScene, SetTimer, DispatchOk, DispatchTransient, DispatchPermanent
  <2>2. QED BY <1>0, <2>1, SustainedFrame DEF SustainedInv
<1>7. QED BY <1>1, <1>2, <1>3, <1>4, <1>5, <1>6

(* A "for:" timer never outlives the predicate it measures, in any         *)
(* configuration: by the time one elapses, the predicate still holds.      *)
THEOREM SustainedCorrect == Spec => []ForSustained
<1>1. SustainedInv => ForSustained BY DEF SustainedInv
<1>2. QED BY <1>1, SustainedInit, SustainedStep, PTL DEF Spec
-----------------------------------------------------------------------------
(* The mirrors.  A copy that differs from the store has a correction in    *)
(* the queue: the request that made it run ahead, taken at depth 0 and so  *)
(* never dropped as a runaway.                                             *)
Correction(e, c) == e.ev.type = "change" /\ e.ev.want.cell = c /\ e.depth = 0
OnItsWay(c) == \E i \in DOMAIN queue : Correction(queue[i], c)
OnlyAhead   == \A c \in Cells : store[c] # NONE /\ mirror[c] # store[c] => OnItsWay(c)
IdleEmpty   == pc = "idle" => queue = <<>>
Inside      == pc # "drain" => cur = NONE /\ arms = <<>> /\ work = <<>>
MirrorInv   == TypeOK /\ Inside /\ OnlyAhead /\ IdleEmpty

LEMMA OnItsWayTail ==
  ASSUME TypeOK, queue # <<>>, queue' = Tail(queue), NEW c, OnItsWay(c), ~Correction(Front, c)
  PROVE  OnItsWay(c)'
<1>1. PICK i \in DOMAIN queue : Correction(queue[i], c) BY DEF OnItsWay
<1>2. /\ DOMAIN queue = 1..Len(queue) /\ Len(queue) \in Nat
      /\ DOMAIN queue' = 1..Len(queue) - 1 /\ \A j \in DOMAIN queue' : queue'[j] = queue[j + 1]
      /\ Front = queue[1]
  BY HeadTailProperties, LenProperties, EmptySeq DEF TypeOK, Front
<1>3. i # 1 BY <1>1, <1>2
<1>4. i - 1 \in DOMAIN queue' /\ queue'[i - 1] = queue[i] BY <1>2, <1>3
<1>5. QED BY <1>1, <1>4 DEF OnItsWay, Correction

LEMMA OnItsWayAppend ==
  ASSUME TypeOK, NEW ev \in Event, NEW d \in Nat, queue' = Enqueued(queue, ev, d)
  PROVE  /\ \A c : OnItsWay(c) => OnItsWay(c)'
         /\ \A c : Correction([ev |-> ev, depth |-> d], c) => OnItsWay(c)'
<1> DEFINE e == [ev |-> ev, depth |-> d]
<1>1. e \in Entry BY DEF Entry
<1>2. /\ Len(queue) \in Nat /\ DOMAIN queue = 1..Len(queue) /\ DOMAIN queue' = 1..Len(queue) + 1
      /\ \A i \in 1..Len(queue) : queue'[i] = queue[i]
      /\ queue'[Len(queue) + 1] = e
  BY <1>1, AppendProperties, LenProperties DEF TypeOK, Enqueued
<1>3. ASSUME NEW c, OnItsWay(c) PROVE OnItsWay(c)'
  <2>1. PICK i \in DOMAIN queue : Correction(queue[i], c) BY <1>3 DEF OnItsWay
  <2>2. i \in DOMAIN queue' /\ queue'[i] = queue[i] BY <1>2
  <2>3. QED BY <2>1, <2>2 DEF OnItsWay, Correction
<1>4. ASSUME NEW c, Correction(e, c) PROVE OnItsWay(c)'
  <2>1. Len(queue) + 1 \in DOMAIN queue' BY <1>2
  <2>2. QED BY <1>2, <1>4, <2>1 DEF OnItsWay, Correction
<1>5. QED BY <1>3, <1>4

(* Events are matched and commands dispatched inside drain only.           *)
LEMMA InsideStep == Inside /\ [Next]_vars => Inside'
<1> SUFFICES ASSUME Inside, [Next]_vars PROVE Inside' OBVIOUS
<1>1. CASE /\ ~FoldReport /\ ~TakeEvent /\ ~ConsiderRule
           /\ ~RetryElapsed /\ ~ForElapsed /\ ~Requested /\ ~RequestedScene
           /\ ~ArmFor /\ ~DispatchTransient /\ ~DispatchPermanent /\ ~DispatchOk
           /\ ~ExpandScene /\ ~SetTimer
  BY <1>1 DEF Inside, Next, Host, Tick, Drain, vars, loopVars, BetweenEvents,
     Advance, Inject, TickTimer, SchedulerTicked, TickSouth, TickNorth, TickDone, DropRunaway, Quiesce
<1>2. CASE FoldReport \/ TakeEvent \/ RetryElapsed \/ ForElapsed \/ Requested \/ RequestedScene
  BY <1>2 DEF Inside, FoldReport, TakeEvent, RetryElapsed, ForElapsed, Requested, RequestedScene, Pop, BetweenEvents
<1>3. CASE ConsiderRule \/ ArmFor BY <1>3 DEF Inside, ConsiderRule, ArmFor
<1>4. CASE DispatchTransient \/ DispatchPermanent \/ DispatchOk \/ ExpandScene \/ SetTimer
  BY <1>4 DEF Inside, DispatchTransient, DispatchPermanent, DispatchOk, ExpandScene, SetTimer, NextCall
<1>5. QED BY <1>1, <1>2, <1>3, <1>4

LEMMA MirrorStep == MirrorInv /\ [Next]_vars => MirrorInv'
<1> SUFFICES ASSUME MirrorInv, [Next]_vars PROVE MirrorInv' OBVIOUS
<1>0. TypeOK /\ Inside /\ OnlyAhead /\ IdleEmpty /\ TypeOK' /\ Inside'
  BY TypeStep, InsideStep DEF MirrorInv
<1>a. SUFFICES OnlyAhead' /\ IdleEmpty' BY <1>0 DEF MirrorInv
<1> USE DEF stateVars, timerVars
<1>1. ASSUME UNCHANGED <<store, mirror, queue>>, pc' = pc \/ pc' # "idle" PROVE OnlyAhead' /\ IdleEmpty'
  BY <1>0, <1>1 DEF OnlyAhead, OnItsWay, Correction, IdleEmpty
<1>2. ASSUME UNCHANGED <<store, mirror>>, NEW ev \in Event, NEW d \in Nat,
             queue' = Enqueued(queue, ev, d), pc' # "idle"
      PROVE  OnlyAhead' /\ IdleEmpty'
  BY <1>0, <1>2, OnItsWayAppend DEF OnlyAhead, IdleEmpty
<1>3. ASSUME UNCHANGED <<store, mirror>>, queue # <<>>, queue' = Tail(queue), pc' # "idle",
             Front.ev.type # "change" \/ Front.depth > MaxDepth
      PROVE  OnlyAhead' /\ IdleEmpty'
  <2>1. \A c \in Cells : ~Correction(Front, c) BY <1>3, EngineAssumption DEF Correction
  <2>2. QED BY <1>0, <1>3, <2>1, OnItsWayTail DEF OnlyAhead, IdleEmpty
<1>4. CASE TickTimer
  <2>1. PICK k \in DOMAIN timers : queue' = Enqueued(queue, Elapsed(k), 0)
    BY <1>4 DEF TickTimer, Earliest, Due
  <2>2. Elapsed(k) \in Event BY <1>0 DEF TypeOK, Elapsed, Event
  <2>3. QED BY <1>2, <1>4, <2>1, <2>2 DEF TickTimer
<1>5. ASSUME NEW ev \in SouthEvents, Inject(ev) \/ TickSouth(ev) PROVE OnlyAhead' /\ IdleEmpty'
  <2>1. ev \in Event BY DEF Event
  <2>2. QED BY <1>2, <1>5, <2>1 DEF Inject, TickSouth
<1>6. ASSUME NEW ev \in NorthEvents, TickNorth(ev) PROVE OnlyAhead' /\ IdleEmpty'
  <2>1. ev \in Event BY DEF Event
  <2>2. queue' = Enqueued(queue, ev, 0) /\ pc' = "north" /\ store' = store BY <1>6 DEF TickNorth
  <2>3. CASE mirror' = mirror BY <1>2, <2>1, <2>2, <2>3
  <2>4. CASE /\ ev.type = "change" /\ ev.want.op = "set"
             /\ mirror' = [mirror EXCEPT ![ev.want.cell] = ev.want.value]
    <3>1. \A c \in Cells : c # ev.want.cell => mirror'[c] = mirror[c] BY <1>0, <2>4 DEF TypeOK
    <3>2. OnItsWay(ev.want.cell)' BY <1>0, <2>1, <2>2, <2>4, OnItsWayAppend DEF Correction
    <3>3. \A c \in Cells : OnItsWay(c) => OnItsWay(c)' BY <1>0, <2>1, <2>2, OnItsWayAppend
    <3>4. QED BY <1>0, <2>2, <3>1, <3>2, <3>3 DEF OnlyAhead, IdleEmpty
  <2>5. QED BY <1>6, <2>3, <2>4 DEF TickNorth
<1>7. CASE DropRunaway \/ RetryElapsed \/ ForElapsed \/ RequestedScene \/ TakeEvent
  BY <1>3, <1>7 DEF DropRunaway, RetryElapsed, ForElapsed, RequestedScene, TakeEvent, Pop, BetweenEvents
<1>8. CASE Requested
  <2>1. /\ queue # <<>> /\ queue' = Tail(queue) /\ pc' = "drain" /\ store' = store
        /\ Front.ev.type = "change"
    BY <1>8 DEF Requested, Pop, BetweenEvents
  <2> DEFINE cell == Front.ev.want.cell
  <2>2. cell \in Cells BY <1>0, <2>1, FrontType, ChangeShape DEF ChangeEvent, DeviceCmd
  <2>3. mirror' = IF store[cell] # NONE THEN [mirror EXCEPT ![cell] = store[cell]] ELSE mirror
    BY <1>8, <2>2 DEF Requested
  <2>4. \A c \in Cells : c # cell => mirror'[c] = mirror[c] BY <1>0, <2>3 DEF TypeOK
  <2>5. store[cell] # NONE => mirror'[cell] = store[cell] BY <1>0, <2>2, <2>3 DEF TypeOK
  <2>6. \A c \in Cells : c # cell => ~Correction(Front, c) BY DEF Correction
  <2>7. \A c \in Cells : c # cell /\ OnItsWay(c) => OnItsWay(c)' BY <1>0, <2>1, <2>6, OnItsWayTail
  <2>8. QED BY <1>0, <2>1, <2>4, <2>5, <2>7 DEF OnlyAhead, IdleEmpty
<1>9. CASE FoldReport
  <2>1. queue # <<>> /\ queue' = Tail(queue) /\ pc' = "drain" /\ Front.ev.type = "report"
    BY <1>9 DEF FoldReport, Pop, BetweenEvents
  <2> DEFINE cell == Front.ev.cell
  <2>2. cell \in Cells BY <1>0, <2>1, FrontType, ReportShape DEF Report
  <2>3. /\ store' = [store EXCEPT ![cell] = Front.ev.value]
        /\ mirror' = [mirror EXCEPT ![cell] = Front.ev.value]
    BY <1>9 DEF FoldReport
  <2>4. /\ mirror'[cell] = store'[cell]
        /\ \A c \in Cells : c # cell => store'[c] = store[c] /\ mirror'[c] = mirror[c]
    BY <1>0, <2>2, <2>3 DEF TypeOK
  <2>5. \A c \in Cells : OnItsWay(c) => OnItsWay(c)' BY <1>0, <2>1, OnItsWayTail DEF Correction
  <2>6. QED BY <1>0, <2>1, <2>4, <2>5 DEF OnlyAhead, IdleEmpty
<1>10. CASE Quiesce
  <2>1. queue = <<>> /\ queue' = <<>> /\ store' = store BY <1>10 DEF Quiesce
  <2>2. \A c \in Cells : ~OnItsWay(c) BY <2>1 DEF OnItsWay
  <2>3. \A c \in Cells : store[c] # NONE => mirror[c] = store[c] BY <1>0, <2>2 DEF OnlyAhead
  <2>4. \A c \in Cells : store[c] # NONE => mirror'[c] = store[c] BY <1>10, <2>3 DEF Quiesce
  <2>5. QED BY <2>1, <2>4 DEF OnlyAhead, IdleEmpty
<1>11. CASE DispatchOk
  <2>1. UNCHANGED <<store, mirror, pc>> /\ pc' = "drain"
    BY <1>0, <1>11 DEF DispatchOk, NextCall, Inside
  <2>2. Call.depth + 1 \in Nat /\ Command \in DeviceCmd
    BY <1>11, <1>0, CallType DEF DispatchOk, NextCall, Command, Call
  <2> DEFINE ev == [type |-> "report", cell |-> Command.cell, value |-> Command.value]
  <2>3. Command.op = "set" => ev \in Event BY <2>2 DEF DeviceCmd, Event, Report
  <2>4. CASE queue' = queue BY <1>1, <2>1, <2>4
  <2>5. CASE Command.op = "set" /\ queue' = Enqueued(queue, ev, Call.depth + 1)
    BY <1>2, <2>1, <2>2, <2>3, <2>5
  <2>6. QED BY <1>11, <2>4, <2>5 DEF DispatchOk
<1>12. ASSUME NextCall(DeviceOps), GiveUp PROVE OnlyAhead' /\ IdleEmpty'
  <2>1. UNCHANGED <<store, mirror, pc>> /\ pc' = "drain" BY <1>0, <1>12 DEF NextCall, Inside
  <2>2. Call.depth + 1 \in Nat /\ Command \in DeviceCmd
    BY <1>12, <1>0, CallType DEF NextCall, Command, Call
  <2>3. [type |-> "failed", cmd |-> Command] \in Event BY <2>2 DEF Event
  <2>4. QED BY <1>2, <1>12, <2>1, <2>2, <2>3 DEF GiveUp
<1>13. CASE DispatchTransient \/ DispatchPermanent
  <2>1. CASE GiveUp BY <1>12, <1>13, <2>1 DEF DispatchTransient, DispatchPermanent
  <2>2. CASE ~GiveUp BY <1>1, <1>13, <2>2 DEF DispatchTransient, DispatchPermanent, ScheduleRetry, NextCall
  <2>3. QED BY <2>1, <2>2
<1>14. CASE \/ \E dt \in TimeSteps : Advance(dt)
            \/ SchedulerTicked \/ TickDone \/ ConsiderRule \/ ArmFor \/ ExpandScene \/ SetTimer
            \/ UNCHANGED vars
  BY <1>1, <1>14 DEF Advance, SchedulerTicked, TickDone, ConsiderRule, ArmFor, ExpandScene, SetTimer,
     NextCall, vars, loopVars
<1>15. QED
  BY <1>4, <1>5, <1>6, <1>7, <1>8, <1>9, <1>10, <1>11, <1>13, <1>14 DEF Next, Host, Tick, Drain

(* Whatever consumers write and devices refuse, a northbound projection    *)
(* agrees with the store whenever the engine is quiescent.                 *)
THEOREM MirrorCorrect == Spec => []MirrorSettles
<1>1. Init => MirrorInv
  <2>1. Init => OnlyAhead /\ IdleEmpty /\ Inside BY DEF Init, OnlyAhead, IdleEmpty, Inside
  <2>2. QED BY <2>1, InitType DEF MirrorInv
<1>2. MirrorInv => MirrorSettles
  <2>1. ASSUME MirrorInv, pc = "idle", NEW c \in Cells, store[c] # NONE PROVE mirror[c] = store[c]
    <3>1. ~OnItsWay(c) BY <2>1 DEF MirrorInv, IdleEmpty, OnItsWay
    <3>2. QED BY <2>1, <3>1 DEF MirrorInv, OnlyAhead
  <2>2. QED BY <2>1 DEF MirrorSettles
<1>3. QED BY <1>1, <1>2, MirrorStep, PTL DEF Spec

-----------------------------------------------------------------------------
(* Timers.  The scheduler hands over every due one before anything else of *)
(* a tick happens, and none is ever set for the past.                      *)
PastIsDone == pc # "sched" => \A k \in DOMAIN timers : timers[k] >= now
NowIsDone  == pc \in {"south", "north"} => \A k \in DOMAIN timers : timers[k] > now
OverdueInv == TypeOK /\ Inside /\ PastIsDone

LEMMA OverdueStep == OverdueInv /\ [Next]_vars => OverdueInv'
<1> SUFFICES ASSUME OverdueInv, [Next]_vars PROVE OverdueInv' OBVIOUS
<1>0. TypeOK /\ Inside /\ PastIsDone /\ TypeOK' /\ Inside' BY TypeStep, InsideStep DEF OverdueInv
<1>a. SUFFICES PastIsDone' BY <1>0 DEF OverdueInv
<1> USE DEF stateVars, timerVars
<1>b. now \in Nat BY <1>0 DEF TypeOK
<1>1. ASSUME UNCHANGED now, pc' # "sched", pc # "sched",
             \A k \in DOMAIN timers' : timers'[k] >= now \/ (k \in DOMAIN timers /\ timers'[k] = timers[k])
      PROVE  PastIsDone'
  BY <1>0, <1>1 DEF PastIsDone
<1>2. CASE SchedulerTicked
  <2>1. \A k \in DOMAIN timers : timers[k] \in Nat /\ ~(timers[k] =< now)
    BY <1>0, <1>2 DEF SchedulerTicked, Due, TypeOK
  <2>2. QED BY <1>b, <1>2, <2>1 DEF SchedulerTicked, PastIsDone
<1>3. CASE (\E dt \in TimeSteps : Advance(dt)) \/ TickTimer
  BY <1>3 DEF Advance, TickTimer, PastIsDone
<1>4. CASE ArmFor
  <2> DEFINE r == Head(arms)
  <2>1. r \in ForRules /\ pc = "drain" /\ pc' = "drain" /\ now' = now
    BY <1>4, <1>0, HeadTailProperties DEF ArmFor, TypeOK, Inside
  <2>2. RuleList[r].for \in Nat BY <2>1, RulesAssumption
  <2>3. now + RuleList[r].for >= now BY <1>b, <2>2
  <2>4. timers' = Schedule(Cancel(timers, {pendingFor[r]}), ForKey(forCounter + 1), now + RuleList[r].for)
    BY <1>4 DEF ArmFor
  <2>5. \A k \in DOMAIN timers' : timers'[k] >= now \/ (k \in DOMAIN timers /\ timers'[k] = timers[k])
    BY <2>3, <2>4 DEF Schedule, Cancel
  <2>6. QED BY <1>1, <2>1, <2>5
<1>5. CASE SetTimer
  <2>1. Command \in Cmd /\ Command.op \in {"schedule", "cancel"}
    BY <1>5, <1>0, CallType DEF SetTimer, NextCall, Command, Call
  <2>2. Command.op = "schedule" => Command.after \in Nat BY <2>1 DEF Cmd, DeviceCmd
  <2>3. Command.op = "schedule" => now + Command.after >= now BY <1>b, <2>2
  <2>4. pc = "drain" /\ pc' = "drain" /\ now' = now BY <1>5, <1>0 DEF SetTimer, NextCall, Inside
  <2>5. \A k \in DOMAIN timers' : timers'[k] >= now \/ (k \in DOMAIN timers /\ timers'[k] = timers[k])
    BY <1>5, <2>3 DEF SetTimer, Schedule, Cancel
  <2>6. QED BY <1>1, <2>4, <2>5
<1>6. ASSUME NextCall(DeviceOps), ScheduleRetry PROVE PastIsDone'
  <2>1. Call.attempt \in Nat \ {0} BY <1>6, <1>0, CallType DEF NextCall
  <2>2. Backoff(Call.attempt) \in Nat BY <2>1, BackoffType
  <2>3. now + Backoff(Call.attempt) >= now BY <1>b, <2>2
  <2>4. pc = "drain" /\ pc' = "drain" /\ now' = now BY <1>6, <1>0 DEF NextCall, Inside
  <2>5. \A k \in DOMAIN timers' : timers'[k] >= now \/ (k \in DOMAIN timers /\ timers'[k] = timers[k])
    BY <1>6, <2>3 DEF ScheduleRetry, Schedule
  <2>6. QED BY <1>1, <2>4, <2>5
<1>7. CASE FoldReport
  <2>1. pc = "drain" /\ pc' = "drain" /\ now' = now BY <1>7 DEF FoldReport, Pop, BetweenEvents
  <2>2. DOMAIN timers' \subseteq DOMAIN timers /\ \A k \in DOMAIN timers' : timers'[k] = timers[k]
    BY <1>7 DEF FoldReport, Cancel
  <2>3. QED BY <1>1, <2>1, <2>2
<1>8. ASSUME UNCHANGED <<now, timers>>, pc # "sched" PROVE PastIsDone'
  BY <1>0, <1>8 DEF PastIsDone
<1>9. CASE \/ \E ev \in SouthEvents : Inject(ev) \/ TickSouth(ev)
           \/ \E ev \in NorthEvents : TickNorth(ev)
           \/ TickDone \/ Quiesce
  BY <1>8, <1>9 DEF Inject, TickSouth, TickNorth, TickDone, Quiesce, BetweenEvents
<1>10. CASE DropRunaway \/ RetryElapsed \/ ForElapsed \/ Requested \/ RequestedScene \/ TakeEvent
  BY <1>8, <1>10 DEF DropRunaway, RetryElapsed, ForElapsed, Requested, RequestedScene, TakeEvent,
     Pop, BetweenEvents
<1>11. CASE ConsiderRule \/ ExpandScene \/ DispatchOk
  BY <1>0, <1>8, <1>11 DEF ConsiderRule, ExpandScene, DispatchOk, NextCall, Inside
<1>12. CASE DispatchTransient \/ DispatchPermanent
  <2>1. NextCall(DeviceOps) /\ (ScheduleRetry \/ GiveUp)
    BY <1>12 DEF DispatchTransient, DispatchPermanent
  <2>2. CASE GiveUp BY <1>0, <1>8, <2>1, <2>2 DEF GiveUp, NextCall, Inside
  <2>3. QED BY <1>6, <2>1, <2>2
<1>13. CASE UNCHANGED vars BY <1>0, <1>13 DEF vars, loopVars, PastIsDone
<1>14. QED
  BY <1>2, <1>3, <1>4, <1>5, <1>7, <1>9, <1>10, <1>11, <1>12, <1>13 DEF Next, Host, Tick, Drain

(* While the other adapters tick no timer is set, and nothing passes.      *)
LEMMA NowStep ==
  ASSUME TypeOK, Inside, NowIsDone, [Next]_vars PROVE NowIsDone'
<1> USE DEF stateVars, timerVars
<1>1. CASE SchedulerTicked
  <2>1. now \in Nat /\ \A k \in DOMAIN timers : timers[k] \in Nat /\ ~(timers[k] =< now)
    BY <1>1 DEF SchedulerTicked, Due, TypeOK
  <2>2. QED BY <1>1, <2>1 DEF SchedulerTicked, NowIsDone
<1>2. ASSUME UNCHANGED <<now, timers>>, pc \in {"south", "north"} PROVE NowIsDone'
  BY <1>2 DEF NowIsDone
<1>3. ASSUME pc' \notin {"south", "north"} PROVE NowIsDone'
  BY <1>3 DEF NowIsDone
<1>4. CASE (\E dt \in TimeSteps : Advance(dt)) \/ (\E ev \in SouthEvents : Inject(ev))
           \/ TickTimer \/ TickDone \/ Quiesce
  BY <1>3, <1>4 DEF Advance, Inject, TickTimer, TickDone, Quiesce
<1>5. CASE (\E ev \in SouthEvents : TickSouth(ev)) \/ (\E ev \in NorthEvents : TickNorth(ev))
  BY <1>2, <1>5 DEF TickSouth, TickNorth
<1>6. CASE \/ DropRunaway \/ RetryElapsed \/ ForElapsed \/ Requested \/ RequestedScene
           \/ FoldReport \/ TakeEvent
  BY <1>3, <1>6 DEF DropRunaway, RetryElapsed, ForElapsed, Requested, RequestedScene, FoldReport,
     TakeEvent, Pop, BetweenEvents
<1>7. CASE \/ ConsiderRule \/ ArmFor \/ ExpandScene \/ SetTimer
           \/ DispatchOk \/ DispatchTransient \/ DispatchPermanent
  BY <1>3, <1>7 DEF ConsiderRule, ArmFor, ExpandScene, SetTimer, DispatchOk, DispatchTransient,
     DispatchPermanent, NextCall, Inside
<1>8. CASE UNCHANGED vars BY <1>8 DEF vars, loopVars, NowIsDone
<1>9. QED BY <1>1, <1>4, <1>5, <1>6, <1>7, <1>8 DEF Next, Host, Tick, Drain

(* Nothing that is due survives the scheduler's tick, and whenever the host*)
(* has control no timer is overdue, so the delay to the next wake-up is    *)
(* never negative.                                                         *)
THEOREM NothingOverdueCorrect == Spec => []NothingOverdue
<1>1. Init => OverdueInv /\ NowIsDone
  <2>1. Init => PastIsDone /\ NowIsDone /\ Inside BY DEF Init, PastIsDone, NowIsDone, Inside
  <2>2. QED BY <2>1, InitType DEF OverdueInv
<1>2. OverdueInv /\ NowIsDone => NothingOverdue
  BY DEF OverdueInv, PastIsDone, NowIsDone, NothingOverdue
<1>3. OverdueInv /\ NowIsDone /\ [Next]_vars => NowIsDone'
  BY NowStep DEF OverdueInv
<1>4. QED BY <1>1, <1>2, <1>3, OverdueStep, PTL DEF Spec
=============================================================================
