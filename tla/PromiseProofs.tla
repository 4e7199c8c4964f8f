--------------------------- MODULE PromiseProofs ----------------------------
(***************************************************************************)
(* The engine implements the promise of "for:" (Sustained), for every      *)
(* configuration.  The mapping is ForKeepsPromise's: a rule waits while    *)
(* pending_for has a key for it, and heldFrom is a history variable.       *)
(*                                                                         *)
(* Then the engine's own timers: pending_for, retries and the scheduler    *)
(* stay in step.                                                           *)
(***************************************************************************)
EXTENDS EngineProofs

(* heldFrom says of every "for:" rule since when the store satisfies it.   *)
HeldTruly ==
  \A r \in ForRules :
    IF PredicateHolds(RuleList[r].trigger, store)
    THEN heldFrom[r] \in Nat /\ heldFrom[r] =< now
    ELSE heldFrom[r] = NONE

(* A rule waits for a key of its own, which the engine generated ...       *)
KeysOwned ==
  /\ \A r \in ForRules : pendingFor[r] # NONE => \E n \in 1..forCounter : pendingFor[r] = ForKey(n)
  /\ \A r, s \in ForRules : pendingFor[r] # NONE /\ pendingFor[r] = pendingFor[s] => r = s

(* ... and the next key it generates is neither pending nor on its way.    *)
KeysFresh == \A n \in Nat : ForKey(n) \in DOMAIN timers \cup QueuedKeys => n =< forCounter

(* No wait is cut short: its timer is set for the end of the duration or   *)
(* later, and has elapsed only if that is over.                            *)
Ripe(r) == heldFrom[r] + RuleList[r].for
NotEarly ==
  \A r \in ForRules : pendingFor[r] # NONE =>
    /\ pendingFor[r] \in DOMAIN timers => Ripe(r) =< timers[pendingFor[r]]
    /\ pendingFor[r] \in QueuedKeys => Ripe(r) =< now

PromiseInv == SustainedInv /\ HeldTruly /\ KeysOwned /\ KeysFresh /\ NotEarly

-----------------------------------------------------------------------------
(* The elapsed keys in the queue: an event that is taken from the front or *)
(* added to the end.                                                       *)
LEMMA QueuedTail ==
  ASSUME TypeOK, queue # <<>>, queue' = Tail(queue)
  PROVE  QueuedKeys' \subseteq QueuedKeys
<1>1. \A i \in DOMAIN queue' : i + 1 \in DOMAIN queue /\ queue'[i] = queue[i + 1]
  BY HeadTailProperties, LenProperties, EmptySeq DEF TypeOK
<1>2. QED BY <1>1 DEF QueuedKeys

LEMMA QueuedFront ==
  ASSUME TypeOK, queue # <<>>, Front.ev.type = "elapsed"
  PROVE  Front.ev.key \in QueuedKeys
<1>1. 1 \in DOMAIN queue /\ queue[1] = Front
  BY HeadTailProperties, LenProperties, EmptySeq DEF TypeOK, Front
<1>2. QED BY <1>1 DEF QueuedKeys

LEMMA QueuedAppend ==
  ASSUME TypeOK, NEW ev \in Event, NEW d \in Nat, queue' = Enqueued(queue, ev, d)
  PROVE  QueuedKeys' \subseteq QueuedKeys \cup (IF ev.type = "elapsed" THEN {ev.key} ELSE {})
<1> DEFINE e == [ev |-> ev, depth |-> d]
<1>1. e \in Entry BY DEF Entry
<1>2. /\ Len(queue) \in Nat /\ DOMAIN queue = 1..Len(queue) /\ DOMAIN queue' = 1..Len(queue) + 1
      /\ \A i \in 1..Len(queue) : queue'[i] = queue[i]
      /\ queue'[Len(queue) + 1] = e
  BY <1>1, AppendProperties, LenProperties DEF TypeOK, Enqueued
<1>3. ASSUME NEW i \in DOMAIN queue', queue'[i].ev.type = "elapsed"
      PROVE  queue'[i].ev.key \in QueuedKeys \cup (IF ev.type = "elapsed" THEN {ev.key} ELSE {})
  <2>1. CASE i \in DOMAIN queue BY <1>2, <1>3, <2>1 DEF QueuedKeys
  <2>2. CASE i = Len(queue) + 1 BY <1>2, <1>3, <2>2
  <2>3. QED BY <1>2, <2>1, <2>2
<1>4. QED BY <1>3 DEF QueuedKeys

(* An adapter's report is not an elapsed timer.                            *)
LEMMA InputShape ==
  \A ev \in SouthEvents \cup NorthEvents : ev \in Event /\ ev.type # "elapsed"
BY InputAssumption DEF Event

LEMMA PromiseInit == Init => PromiseInv
<1> SUFFICES ASSUME Init PROVE PromiseInv OBVIOUS
<1>1. HeldTruly
  <2>1. \A r \in ForRules : ~PredicateHolds(RuleList[r].trigger, store)
    BY RulesAssumption, EngineAssumption DEF Init, PredicateHolds, Satisfies, AsBool, AsNum, ForRules
  <2>2. QED BY <2>1 DEF Init, HeldTruly
<1>2. KeysOwned /\ NotEarly BY DEF Init, KeysOwned, NotEarly
<1>3. KeysFresh BY DEF Init, KeysFresh, QueuedKeys
<1>4. QED BY <1>1, <1>2, <1>3, SustainedInit DEF PromiseInv

(* What every step preserves that leaves the store alone, arms no timer    *)
(* and hands over none: it may end waits and drop their timers.            *)
ForTimersKept ==
  \A n \in Nat : ForKey(n) \in DOMAIN timers' =>
    ForKey(n) \in DOMAIN timers /\ timers'[ForKey(n)] = timers[ForKey(n)]

LEMMA PromiseFrame ==
  ASSUME PromiseInv, TypeOK', UNCHANGED <<store, heldFrom, forCounter>>, now =< now',
         \A r \in ForRules : pendingFor'[r] \in {pendingFor[r], NONE},
         QueuedKeys' \subseteq QueuedKeys, ForTimersKept
  PROVE  HeldTruly' /\ KeysOwned' /\ KeysFresh' /\ NotEarly'
<1>1. TypeOK /\ HeldTruly /\ KeysOwned /\ KeysFresh /\ NotEarly BY DEF PromiseInv, SustainedInv
<1>2. now \in Nat /\ now' \in Nat /\ forCounter \in Nat BY <1>1 DEF TypeOK
<1>3. HeldTruly' BY <1>1, <1>2 DEF HeldTruly, PredicateHolds
<1>4. KeysOwned' BY <1>1, <1>2 DEF KeysOwned
<1>5. KeysFresh' BY <1>1, <1>2 DEF KeysFresh, ForTimersKept
<1>6. NotEarly'
  <2> SUFFICES ASSUME NEW r \in ForRules, pendingFor'[r] # NONE
               PROVE  /\ pendingFor'[r] \in DOMAIN timers' => Ripe(r) =< timers'[pendingFor'[r]]
                      /\ pendingFor'[r] \in QueuedKeys' => Ripe(r) =< now'
    BY DEF NotEarly, Ripe
  <2>1. pendingFor'[r] = pendingFor[r] OBVIOUS
  <2>2. PICK n \in Nat : pendingFor[r] = ForKey(n) BY <1>1, <1>2, <2>1 DEF KeysOwned
  <2>3. heldFrom[r] \in Nat BY <1>1, <2>1 DEF HeldTruly, ForSustained, PromiseInv, SustainedInv
  <2>4. Ripe(r) \in Nat BY <2>3, RulesAssumption DEF Ripe
  <2>5. pendingFor[r] \in DOMAIN timers => Ripe(r) =< timers[pendingFor[r]] BY <1>1, <2>1 DEF NotEarly
  <2>6. pendingFor[r] \in QueuedKeys => Ripe(r) =< now BY <1>1, <2>1 DEF NotEarly
  <2>7. QED BY <1>2, <2>1, <2>2, <2>4, <2>5, <2>6 DEF ForTimersKept
<1>7. QED BY <1>3, <1>4, <1>5, <1>6

LEMMA PromiseStep == PromiseInv /\ [Next]_vars => PromiseInv'
<1> SUFFICES ASSUME PromiseInv, [Next]_vars PROVE PromiseInv' OBVIOUS
<1>0. /\ SustainedInv /\ TypeOK /\ HeldTruly /\ KeysOwned /\ KeysFresh /\ NotEarly
      /\ SustainedInv' /\ TypeOK'
  BY SustainedStep, TypeStep DEF PromiseInv, SustainedInv
<1>a. /\ now \in Nat /\ now' \in Nat /\ forCounter \in Nat
      /\ \A r \in ForRules : RuleList[r].for \in Nat
  BY <1>0, RulesAssumption DEF TypeOK
<1> DEFINE Kept == HeldTruly' /\ KeysOwned' /\ KeysFresh' /\ NotEarly'
<1>b. SUFFICES Kept BY <1>0 DEF PromiseInv
<1> USE DEF stateVars, timerVars
<1>1. ASSUME NEW dt \in TimeSteps, Advance(dt) PROVE Kept
  <2>1. now =< now' BY <1>1, <1>a, EngineAssumption DEF Advance
  <2>2. QueuedKeys' \subseteq QueuedKeys /\ ForTimersKept
    BY <1>1 DEF Advance, QueuedKeys, ForTimersKept
  <2>3. QED BY <1>0, <1>1, <2>1, <2>2, PromiseFrame DEF Advance
<1>2. ASSUME NEW ev \in SouthEvents \cup NorthEvents, queue' = Enqueued(queue, ev, 0),
             UNCHANGED <<now, store, heldFrom, forCounter, pendingFor, timers>>
      PROVE  Kept
  <2>1. ev \in Event /\ ev.type # "elapsed" BY InputShape
  <2>2. QueuedKeys' \subseteq QueuedKeys BY <1>0, <1>2, <2>1, QueuedAppend
  <2>3. ForTimersKept BY <1>2 DEF ForTimersKept
  <2>4. QED BY <1>0, <1>a, <1>2, <2>2, <2>3, PromiseFrame
<1>3. CASE TickTimer
  <2>1. PICK k \in DOMAIN timers : /\ timers[k] =< now
                                   /\ timers' = Cancel(timers, {k})
                                   /\ queue' = Enqueued(queue, Elapsed(k), 0)
    BY <1>3 DEF TickTimer, Earliest, Due
  <2>2. UNCHANGED <<now, store, heldFrom, pendingFor, forCounter>> BY <1>3 DEF TickTimer
  <2>3. Elapsed(k) \in Event BY <1>0 DEF TypeOK, Elapsed, Event
  <2>4. QueuedKeys' \subseteq QueuedKeys \cup {k} BY <1>0, <2>1, <2>3, QueuedAppend DEF Elapsed
  <2>5. DOMAIN timers' \subseteq DOMAIN timers /\ \A j \in DOMAIN timers' : timers'[j] = timers[j]
    BY <2>1 DEF Cancel
  <2>6. HeldTruly' BY <1>0, <2>2 DEF HeldTruly, PredicateHolds
  <2>7. KeysOwned' BY <1>0, <2>2 DEF KeysOwned
  <2>8. KeysFresh' BY <1>0, <2>2, <2>4, <2>5 DEF KeysFresh
  <2>9. NotEarly'
    <3> SUFFICES ASSUME NEW r \in ForRules, pendingFor[r] # NONE
                 PROVE  /\ pendingFor[r] \in DOMAIN timers' => Ripe(r) =< timers'[pendingFor[r]]
                        /\ pendingFor[r] \in QueuedKeys' => Ripe(r) =< now
      BY <2>2 DEF NotEarly, Ripe
    <3>1. heldFrom[r] \in Nat BY <1>0 DEF HeldTruly, ForSustained, SustainedInv
    <3>2. Ripe(r) \in Nat BY <3>1, <1>a DEF Ripe
    <3>3. /\ pendingFor[r] \in DOMAIN timers => Ripe(r) =< timers[pendingFor[r]]
          /\ pendingFor[r] \in QueuedKeys => Ripe(r) =< now
      BY <1>0 DEF NotEarly
    <3>4. timers[k] \in Nat BY <1>0 DEF TypeOK
    <3>5. pendingFor[r] \in DOMAIN timers' => Ripe(r) =< timers'[pendingFor[r]] BY <2>5, <3>3
    <3>6. CASE pendingFor[r] = k BY <1>a, <2>1, <3>2, <3>3, <3>4, <3>5, <3>6
    <3>7. CASE pendingFor[r] # k BY <2>4, <3>3, <3>5, <3>7
    <3>8. QED BY <3>6, <3>7
  <2>10. QED BY <2>6, <2>7, <2>8, <2>9
<1>4. CASE FoldReport
  <2> DEFINE folded  == [store EXCEPT ![Front.ev.cell] = Front.ev.value]
             Held(r) == PredicateHolds(RuleList[r].trigger, folded)
  <2>1. /\ store' = folded /\ UNCHANGED <<now, forCounter>>
        /\ heldFrom' = [r \in ForRules |-> IF ~Held(r) THEN NONE
                                           ELSE IF heldFrom[r] = NONE THEN now ELSE heldFrom[r]]
        /\ pendingFor' = [r \in ForRules |-> IF r \in Reverted(folded) THEN NONE ELSE pendingFor[r]]
        /\ timers' = Cancel(timers, {pendingFor[r] : r \in Reverted(folded)})
    BY <1>4 DEF FoldReport, Pop
  <2>2. QueuedKeys' \subseteq QueuedKeys BY <1>0, <1>4, QueuedTail DEF FoldReport, Pop
  <2>3. DOMAIN timers' \subseteq DOMAIN timers /\ \A j \in DOMAIN timers' : timers'[j] = timers[j]
    BY <2>1 DEF Cancel
  <2>4. ASSUME NEW r \in ForRules
        PROVE  heldFrom[r] = NONE \/ (heldFrom[r] \in Nat /\ heldFrom[r] =< now)
    <3>1. CASE PredicateHolds(RuleList[r].trigger, store) BY <1>0, <3>1 DEF HeldTruly
    <3>2. CASE ~PredicateHolds(RuleList[r].trigger, store) BY <1>0, <3>2 DEF HeldTruly
    <3>3. QED BY <3>1, <3>2
  <2>5. HeldTruly'
    <3> SUFFICES ASSUME NEW r \in ForRules
                 PROVE  IF PredicateHolds(RuleList[r].trigger, store')
                        THEN heldFrom'[r] \in Nat /\ heldFrom'[r] =< now'
                        ELSE heldFrom'[r] = NONE
      BY DEF HeldTruly, PredicateHolds
    <3>1. PredicateHolds(RuleList[r].trigger, store') <=> Held(r) BY <2>1 DEF PredicateHolds
    <3>2. heldFrom'[r] = IF ~Held(r) THEN NONE
                         ELSE IF heldFrom[r] = NONE THEN now ELSE heldFrom[r]
      BY <2>1
    <3> HIDE DEF Held
    <3>3. QED BY <1>a, <2>1, <2>4, <3>1, <3>2
  <2>6. \A r \in ForRules : pendingFor'[r] # NONE => pendingFor'[r] = pendingFor[r] BY <2>1
  <2>7. KeysOwned' BY <1>0, <2>1, <2>6 DEF KeysOwned
  <2>8. KeysFresh' BY <1>0, <2>1, <2>2, <2>3 DEF KeysFresh
  <2>9. \A r \in ForRules : pendingFor'[r] # NONE => heldFrom'[r] = heldFrom[r]
    <3> SUFFICES ASSUME NEW r \in ForRules, pendingFor'[r] # NONE PROVE heldFrom'[r] = heldFrom[r]
      OBVIOUS
    <3>1. Held(r) BY <2>1 DEF Reverted
    <3>2. heldFrom[r] \in Nat BY <1>0, <2>6 DEF HeldTruly, ForSustained, SustainedInv
    <3>3. heldFrom[r] # NONE BY <3>2, EngineAssumption
    <3>4. QED BY <2>1, <3>1, <3>3
  <2>10. NotEarly' BY <1>0, <2>1, <2>2, <2>3, <2>6, <2>9 DEF NotEarly, Ripe
  <2>11. QED BY <2>5, <2>7, <2>8, <2>10
<1>5. CASE ArmFor
  <2> DEFINE r == Head(arms)
             k == ForKey(forCounter + 1)
             t == Cancel(timers, {pendingFor[r]})
  <2>1. /\ UNCHANGED <<now, queue, store, heldFrom>> /\ forCounter' = forCounter + 1
        /\ pendingFor' = [pendingFor EXCEPT ![r] = k]
        /\ timers' = Schedule(t, k, now + RuleList[r].for)
    BY <1>5 DEF ArmFor
  <2>2. r \in ForRules /\ PredicateHolds(RuleList[r].trigger, store)
    <3>1. r = arms[1] /\ 1 \in DOMAIN arms /\ r \in ForRules
      BY <1>5, <1>0, HeadTailProperties, LenProperties, EmptySeq DEF ArmFor, TypeOK
    <3>2. QED BY <3>1, <1>0 DEF SustainedInv, ArmsSustained
  <2>3. heldFrom[r] \in Nat /\ heldFrom[r] =< now BY <1>0, <2>2 DEF HeldTruly
  <2>4. /\ DOMAIN timers' \subseteq DOMAIN timers \cup {k}
        /\ timers'[k] = now + RuleList[r].for
        /\ \A j \in DOMAIN timers' \ {k} : timers'[j] = timers[j]
    BY <2>1 DEF Schedule, Cancel
  <2>5. QueuedKeys' = QueuedKeys BY <2>1 DEF QueuedKeys
  <2>6. k \notin QueuedKeys BY <1>0, <1>a DEF KeysFresh
  <2>7. /\ pendingFor'[r] = k
        /\ \A s \in ForRules \ {r} : pendingFor'[s] = pendingFor[s]
    BY <1>0, <2>1, <2>2 DEF TypeOK
  <2>8. \A s \in ForRules : pendingFor[s] # NONE => pendingFor[s] # k
    BY <1>0, <1>a DEF KeysOwned, ForKey
  <2>9. HeldTruly' BY <1>0, <2>1 DEF HeldTruly, PredicateHolds
  <2>10. KeysOwned'
    <3>1. \A s \in ForRules : pendingFor'[s] # NONE => \E n \in 1..forCounter' : pendingFor'[s] = ForKey(n)
      BY <1>0, <1>a, <2>1, <2>7 DEF KeysOwned
    <3>2. ASSUME NEW s \in ForRules, NEW u \in ForRules, pendingFor'[s] # NONE,
                 pendingFor'[s] = pendingFor'[u]
          PROVE  s = u
      BY <1>0, <2>7, <2>8, <3>2 DEF KeysOwned
    <3>3. QED BY <3>1, <3>2 DEF KeysOwned
  <2>11. KeysFresh'
    <3> SUFFICES ASSUME NEW n \in Nat, ForKey(n) \in DOMAIN timers' \cup QueuedKeys'
                 PROVE  n =< forCounter'
      BY DEF KeysFresh
    <3>1. CASE ForKey(n) = k BY <1>a, <2>1, <3>1 DEF ForKey
    <3>2. CASE ForKey(n) # k
      <4>1. ForKey(n) \in DOMAIN timers \cup QueuedKeys BY <2>4, <2>5, <3>2
      <4>2. n =< forCounter BY <1>0, <4>1 DEF KeysFresh
      <4>3. QED BY <1>a, <2>1, <4>2
    <3>3. QED BY <3>1, <3>2
  <2>12. NotEarly'
    <3> SUFFICES ASSUME NEW s \in ForRules, pendingFor'[s] # NONE
                 PROVE  /\ pendingFor'[s] \in DOMAIN timers' => Ripe(s) =< timers'[pendingFor'[s]]
                        /\ pendingFor'[s] \in QueuedKeys' => Ripe(s) =< now
      BY <2>1 DEF NotEarly, Ripe
    <3>1. CASE s = r
      <4>1. Ripe(r) =< now + RuleList[r].for BY <1>a, <2>2, <2>3 DEF Ripe
      <4>2. QED BY <2>4, <2>5, <2>6, <2>7, <3>1, <4>1
    <3>2. CASE s # r
      <4>1. pendingFor'[s] = pendingFor[s] /\ pendingFor[s] # k BY <2>7, <2>8, <3>2
      <4>2. QED BY <1>0, <2>4, <2>5, <4>1 DEF NotEarly
    <3>3. QED BY <3>1, <3>2
  <2>13. QED BY <2>9, <2>10, <2>11, <2>12
<1>6. CASE DropRunaway \/ RetryElapsed \/ ForElapsed \/ Requested \/ RequestedScene \/ TakeEvent
  <2>1. /\ queue # <<>> /\ queue' = Tail(queue)
        /\ UNCHANGED <<now, store, heldFrom, forCounter, timers>>
        /\ \A r \in ForRules : pendingFor'[r] \in {pendingFor[r], NONE}
    BY <1>6 DEF DropRunaway, RetryElapsed, ForElapsed, Requested, RequestedScene, TakeEvent, Pop
  <2>2. QueuedKeys' \subseteq QueuedKeys BY <1>0, <2>1, QueuedTail
  <2>3. ForTimersKept BY <2>1 DEF ForTimersKept
  <2>4. QED BY <1>0, <1>a, <2>1, <2>2, <2>3, PromiseFrame
<1>7. ASSUME UNCHANGED <<now, queue, store, heldFrom, forCounter, pendingFor, timers>> PROVE Kept
  <2>1. QueuedKeys' \subseteq QueuedKeys /\ ForTimersKept BY <1>7 DEF QueuedKeys, ForTimersKept
  <2>2. QED BY <1>0, <1>a, <1>7, <2>1, PromiseFrame
<1>8. CASE SetTimer
  <2>1. Command \in Cmd BY <1>8, <1>0, CallType DEF SetTimer, NextCall
  <2>2. Command.op \in {"schedule", "cancel"} BY <1>8 DEF SetTimer, NextCall, Command, Call
  <2>3. \A n \in Nat : ForKey(n) # Command.key
    BY <2>1, <2>2, KeyAssumption DEF Cmd, DeviceCmd, ForKey
  <2>4. ForTimersKept BY <1>8, <2>3 DEF SetTimer, ForTimersKept, Schedule, Cancel
  <2>5. UNCHANGED <<now, queue, store, heldFrom, forCounter, pendingFor>> BY <1>8 DEF SetTimer, NextCall
  <2>6. QueuedKeys' \subseteq QueuedKeys BY <2>5 DEF QueuedKeys
  <2>7. QED BY <1>0, <1>a, <2>4, <2>5, <2>6, PromiseFrame
<1>9. CASE DispatchOk
  <2>1. UNCHANGED <<now, store, heldFrom, forCounter, pendingFor, timers>> BY <1>9 DEF DispatchOk, NextCall
  <2>2. ForTimersKept BY <2>1 DEF ForTimersKept
  <2>3. Call.depth + 1 \in Nat /\ Command \in DeviceCmd
    BY <1>9, <1>0, CallType DEF DispatchOk, NextCall, Command, Call
  <2>4. QueuedKeys' \subseteq QueuedKeys
    <3> DEFINE ev == [type |-> "report", cell |-> Command.cell, value |-> Command.value]
    <3>1. CASE queue' = queue BY <3>1 DEF QueuedKeys
    <3>2. CASE Command.op = "set" /\ queue' = Enqueued(queue, ev, Call.depth + 1)
      <4>1. ev \in Event BY <2>3, <3>2 DEF DeviceCmd, Event, Report
      <4>2. QED BY <1>0, <2>3, <3>2, <4>1, QueuedAppend
    <3>3. QED BY <1>9, <3>1, <3>2 DEF DispatchOk
  <2>5. QED BY <1>0, <1>a, <2>1, <2>2, <2>4, PromiseFrame
<1>10. ASSUME NextCall(DeviceOps), GiveUp PROVE Kept
  <2>1. UNCHANGED <<now, store, heldFrom, forCounter, pendingFor, timers>> BY <1>10 DEF GiveUp, NextCall
  <2>2. ForTimersKept BY <2>1 DEF ForTimersKept
  <2>3. Call.depth + 1 \in Nat /\ Command \in DeviceCmd
    BY <1>10, <1>0, CallType DEF NextCall, Command, Call
  <2>4. [type |-> "failed", cmd |-> Command] \in Event BY <2>3 DEF Event
  <2>5. QueuedKeys' \subseteq QueuedKeys BY <1>0, <1>10, <2>3, <2>4, QueuedAppend DEF GiveUp
  <2>6. QED BY <1>0, <1>a, <2>1, <2>2, <2>5, PromiseFrame
<1>11. ASSUME NextCall(DeviceOps), ScheduleRetry PROVE Kept
  <2>1. UNCHANGED <<now, queue, store, heldFrom, forCounter, pendingFor>> BY <1>11 DEF ScheduleRetry, NextCall
  <2>2. ForTimersKept BY <1>11 DEF ScheduleRetry, ForTimersKept, Schedule, ForKey, RetryKey
  <2>3. QueuedKeys' \subseteq QueuedKeys BY <2>1 DEF QueuedKeys
  <2>4. QED BY <1>0, <1>a, <2>1, <2>2, <2>3, PromiseFrame
<1>12. CASE SchedulerTicked \/ TickDone \/ Quiesce \/ ConsiderRule \/ ExpandScene \/ UNCHANGED vars
  BY <1>12, <1>7 DEF SchedulerTicked, TickDone, Quiesce, ConsiderRule, ExpandScene, NextCall, vars, loopVars
<1>13. ASSUME NEW ev \in SouthEvents \cup NorthEvents, Inject(ev) \/ TickSouth(ev) \/ TickNorth(ev)
       PROVE  Kept
  BY <1>13, <1>2 DEF Inject, TickSouth, TickNorth
<1>14. CASE DispatchTransient \/ DispatchPermanent
  BY <1>14, <1>10, <1>11 DEF DispatchTransient, DispatchPermanent
<1>15. QED
  BY <1>1, <1>3, <1>4, <1>5, <1>6, <1>8, <1>9, <1>12, <1>13, <1>14 DEF Next, Host, Tick, Drain

-----------------------------------------------------------------------------
(* What the engine's step is to Sustained.                                 *)
Waiting == {r \in ForRules : pendingFor[r] # NONE}

LEMMA PromiseMapsInit == Init => Promise!Init
BY DEF Init, Promise!Init

(* A report.                                                               *)
LEMMA FoldMaps ==
  ASSUME PromiseInv, FoldReport
  PROVE  \E on \in SUBSET ForRules : Promise!Report(on)
<1> DEFINE folded  == [store EXCEPT ![Front.ev.cell] = Front.ev.value]
           Held(r) == PredicateHolds(RuleList[r].trigger, folded)
           on      == {r \in ForRules : Held(r)}
<1>1. UNCHANGED <<now, work>> BY DEF FoldReport, Pop
<1>2. heldFrom' = [r \in ForRules |-> IF ~Held(r) THEN NONE
                                      ELSE IF heldFrom[r] = NONE THEN now ELSE heldFrom[r]]
  BY DEF FoldReport
<1>3. pendingFor' = [r \in ForRules |-> IF r \in Reverted(folded) THEN NONE ELSE pendingFor[r]]
  BY DEF FoldReport
<1>4. Reverted(folded) = {r \in ForRules : pendingFor[r] # NONE /\ ~Held(r)} BY DEF Reverted
<1> HIDE DEF Held
<1>5. heldFrom' = [r \in ForRules |-> IF r \notin on THEN NONE
                                      ELSE IF heldFrom[r] = NONE THEN now ELSE heldFrom[r]]
  BY <1>2
<1>6. {r \in ForRules : pendingFor'[r] # NONE} = Waiting \cap on BY <1>3, <1>4 DEF Waiting
<1>7. PICK active \in SUBSET ForRules : active = on OBVIOUS
<1>8. Promise!Report(active) BY <1>1, <1>5, <1>6, <1>7 DEF Promise!Report, Waiting
<1>9. QED BY <1>8

(* A timer that is armed.                                                  *)
LEMMA ArmMaps ==
  ASSUME PromiseInv, ArmFor
  PROVE  \E r \in ForRules : Promise!Wait(r)
<1>0. TypeOK /\ HeldTruly /\ ArmsSustained BY DEF PromiseInv, SustainedInv
<1>1. PICK r \in ForRules : r = Head(arms) /\ r = arms[1] /\ 1 \in DOMAIN arms
  BY <1>0, HeadTailProperties, LenProperties, EmptySeq DEF ArmFor, TypeOK
<1>2. heldFrom[r] \in Nat BY <1>0, <1>1 DEF ArmsSustained, HeldTruly
<1>3. heldFrom[r] # NONE BY <1>2, EngineAssumption
<1>4. UNCHANGED <<now, heldFrom, work>> BY DEF ArmFor, stateVars
<1>5. pendingFor' = [pendingFor EXCEPT ![r] = ForKey(forCounter + 1)] BY <1>1 DEF ArmFor
<1>6. ForKey(forCounter + 1) # NONE 
  <2>1. forCounter \in Nat BY <1>0 DEF TypeOK
  <2>2. forCounter + 1 \in Nat BY <2>1
  <2>3. ForKey(forCounter + 1) \in Key BY <2>2, KeyTypes
  <2>4. QED BY <2>3, EngineAssumption
<1>7. {s \in ForRules : pendingFor'[s] # NONE} = Waiting \cup {r}
  <2>1. \A s \in ForRules : pendingFor'[s] = IF s = r THEN ForKey(forCounter + 1) ELSE pendingFor[s]
    <3>1. pendingFor \in [ForRules -> Key \cup {NONE}] BY <1>0 DEF TypeOK
    <3>2. QED BY <1>5, <3>1
  <2>2. QED BY <1>1, <1>6, <2>1 DEF Waiting
<1>8. Promise!Wait(r) BY <1>3, <1>4, <1>7 DEF Promise!Wait, Waiting
<1>9. QED BY <1>1, <1>8

(* A timer that elapses: its rule's commands are called, after the whole   *)
(* duration; a stale one changes nothing.                                  *)
LEMMA ElapsedMaps ==
  ASSUME PromiseInv, ForElapsed
  PROVE  (\E r \in ForRules : Promise!Fire(r)) \/ UNCHANGED <<now, heldFrom, Waiting>>
<1>0. TypeOK /\ HeldTruly /\ KeysOwned /\ NotEarly /\ ForSustained BY DEF PromiseInv, SustainedInv
<1> DEFINE k     == Front.ev.key
           owner == {r \in ForRules : pendingFor[r] = k}
           rule  == RuleList[CHOOSE r \in owner : TRUE]
<1>1. /\ UNCHANGED <<now, heldFrom>>
      /\ pendingFor' = [r \in ForRules |-> IF r \in owner THEN NONE ELSE pendingFor[r]]
      /\ work' = IF owner # {} /\ PredicateHolds(rule.trigger, store)
                 THEN Calls(rule.cmds, 0) ELSE <<>>
      /\ queue # <<>> /\ Front.ev.type = "elapsed"
  BY DEF ForElapsed, Pop, stateVars
<1>2. k \in QueuedKeys BY <1>0, <1>1, QueuedFront
<1>3. k \in Key BY <1>0, <1>1, FrontType, ElapsedShape
<1>4. k # NONE BY <1>3, EngineAssumption
<1>5. CASE owner = {}
  <2>1. pendingFor' = pendingFor BY <1>0, <1>1, <1>5 DEF TypeOK
  <2>2. QED BY <1>1, <2>1 DEF Waiting
<1>6. CASE owner # {}
  <2>1. PICK r \in owner : TRUE BY <1>6
  <2>2. r \in ForRules /\ pendingFor[r] = k BY <2>1
  <2>3. \A s \in owner : s = r BY <1>0, <1>4, <2>2 DEF KeysOwned
  <2>4. owner = {r} BY <2>1, <2>3
  <2>5. (CHOOSE s \in owner : TRUE) = r BY <2>4
  <2>6. PredicateHolds(RuleList[r].trigger, store) BY <1>0, <1>4, <2>2 DEF ForSustained
  <2>7. work' = Calls(RuleList[r].cmds, 0) BY <1>1, <1>6, <2>5, <2>6
  <2>8. heldFrom[r] \in Nat BY <1>0, <2>2, <2>6 DEF HeldTruly
  <2>9. heldFrom[r] # NONE BY <2>8, EngineAssumption
  <2>10. heldFrom[r] + RuleList[r].for =< now BY <1>0, <1>2, <1>4, <2>2 DEF NotEarly, Ripe
  <2>11. {s \in ForRules : pendingFor'[s] # NONE} = Waiting \ {r} BY <1>1, <2>4 DEF Waiting
  <2>12. r \in Waiting BY <1>4, <2>2 DEF Waiting
  <2>13. RuleList[r].for \in Nat /\ now \in Nat BY <1>0, <2>2, RulesAssumption DEF TypeOK
  <2>14. Promise!Fire(r)
    BY <1>1, <2>2, <2>7, <2>8, <2>9, <2>10, <2>11, <2>12, <2>13 DEF Promise!Fire, Waiting
  <2>15. QED BY <2>2, <2>14
<1>7. QED BY <1>5, <1>6

LEMMA PromiseMaps ==
  PromiseInv /\ [Next]_vars => [Promise!Next]_<<now, heldFrom, Waiting>>
<1> SUFFICES ASSUME PromiseInv, [Next]_vars
             PROVE  Promise!Next \/ UNCHANGED <<now, heldFrom, Waiting>>
  OBVIOUS
<1>1. CASE FoldReport BY <1>1, FoldMaps DEF Promise!Next
<1>2. CASE ArmFor BY <1>2, ArmMaps DEF Promise!Next
<1>3. CASE ForElapsed BY <1>3, ElapsedMaps DEF Promise!Next
<1>4. ASSUME NEW dt \in TimeSteps, Advance(dt) PROVE Promise!Next
  <2>1. now' >= now
    <3>1. now \in Nat BY DEF PromiseInv, SustainedInv, TypeOK
    <3>2. now' = now + dt BY <1>4 DEF Advance
    <3>3. dt \in Nat BY EngineAssumption
    <3>4. QED BY <3>1, <3>2, <3>3
  <2>2. UNCHANGED <<heldFrom, pendingFor, work>> BY <1>4 DEF Advance, stateVars, timerVars
  <2>3. QED BY <2>1, <2>2 DEF Promise!Next, Promise!Pass, Waiting
<1>5. CASE /\ ~FoldReport /\ ~ArmFor /\ ~ForElapsed /\ ~\E dt \in TimeSteps : Advance(dt)
  <2>1. UNCHANGED <<now, heldFrom, pendingFor>>
    BY <1>5 DEF Next, Host, Tick, Drain, vars, loopVars, stateVars, timerVars,
       Inject, TickTimer, SchedulerTicked, TickSouth, TickNorth, TickDone,
       DropRunaway, Pop, RetryElapsed, Requested, RequestedScene, TakeEvent, Quiesce, ConsiderRule,
       NextCall, ExpandScene, SetTimer, DispatchOk, DispatchTransient, DispatchPermanent
  <2>2. QED BY <2>1 DEF Waiting
<1>6. QED BY <1>1, <1>2, <1>3, <1>4, <1>5

(* The engine implements Sustained in every configuration: whatever folds, *)
(* re-arms, cancels and queues do, a rule with "for:" waits only while its *)
(* predicate holds without a break, and calls its commands only after the  *)
(* whole duration.                                                         *)
THEOREM PromiseKept == Spec => ForKeepsPromise
<1>1. [Promise!Next]_<<now, heldFrom, Waiting>>
        <=> [Promise!Next]_<<now, heldFrom, {r \in ForRules : pendingFor[r] # NONE}>>
  BY DEF Waiting
<1>2. QED
  BY <1>1, PromiseInit, PromiseStep, PromiseMaps, PromiseMapsInit, PTL
  DEF Spec, ForKeepsPromise, Promise!Spec

-----------------------------------------------------------------------------
(* The engine's own timers *)

IsElapsed(e) == e.ev.type = "elapsed"

(* Elapsed timers come before everything else of a tick, at depth 0 ...    *)
ElapsedFirst ==
  \A i \in DOMAIN queue : IsElapsed(queue[i]) =>
    queue[i].depth = 0 /\ \A j \in 1..i : IsElapsed(queue[j])

(* ... each once ...                                                       *)
OnceQueued ==
  \A i, j \in DOMAIN queue :
    IsElapsed(queue[i]) /\ IsElapsed(queue[j]) /\ queue[i].ev.key = queue[j].ev.key => i = j

(* ... and are gone before a report is matched or a timer armed.           *)
SchedFirst ==
  pc = "sched" => (\A i \in DOMAIN queue : IsElapsed(queue[i])) /\ QueuedKeys \cap DOMAIN timers = {}
ArmsLast == arms # <<>> \/ (cur # NONE /\ cur.ev.type = "report") => QueuedKeys = {}

QueueInv == ElapsedFirst /\ OnceQueued /\ SchedFirst /\ ArmsLast

(* The keys that will come back, and who waits for them.                   *)
Coming == DOMAIN timers \cup QueuedKeys
Generated(k) == k[1] \in {"for", "retry"}

KeysInv ==
  /\ \A k \in DOMAIN timers \cap QueuedKeys : ~Generated(k)
  /\ \A k \in Coming : IsForKey(k) => \E r \in ForRules : pendingFor[r] = k
  /\ \A r \in ForRules : pendingFor[r] # NONE => pendingFor[r] \in Coming
  /\ \A k \in Coming : k[1] = "retry" => k \in DOMAIN retries
  /\ DOMAIN retries \subseteq Coming
  /\ \A k \in DOMAIN retries : /\ \E n \in 1..retryCounter : k = RetryKey(n)
                               /\ retries[k].attempt \in 2..MaxAttempts

OwnedInv == PromiseInv /\ MirrorInv /\ QueueInv /\ KeysInv

-----------------------------------------------------------------------------
(* The queue *)

LEMMA QueuedMember ==
  ASSUME NEW i \in DOMAIN queue, IsElapsed(queue[i]) PROVE queue[i].ev.key \in QueuedKeys
BY DEF QueuedKeys, IsElapsed

(* Taking the front.                                                       *)
LEMMA OwnTail ==
  ASSUME TypeOK, ElapsedFirst, OnceQueued, queue # <<>>, queue' = Tail(queue)
  PROVE  /\ ElapsedFirst' /\ OnceQueued'
         /\ IsElapsed(Front) => QueuedKeys' = QueuedKeys \ {Front.ev.key}
         /\ ~IsElapsed(Front) => QueuedKeys = {} /\ QueuedKeys' = {}
<1>1. /\ DOMAIN queue = 1..Len(queue) /\ Len(queue) \in Nat /\ 1 \in DOMAIN queue
      /\ DOMAIN queue' = 1..Len(queue) - 1 /\ \A i \in DOMAIN queue' : queue'[i] = queue[i + 1]
      /\ Front = queue[1]
  BY HeadTailProperties, LenProperties, EmptySeq DEF TypeOK, Front
<1>2. \A i \in DOMAIN queue' : i + 1 \in DOMAIN queue BY <1>1
<1>3. ElapsedFirst'
  <2> SUFFICES ASSUME NEW i \in DOMAIN queue', IsElapsed(queue'[i])
               PROVE  queue'[i].depth = 0 /\ \A j \in 1..i : IsElapsed(queue'[j])
    BY DEF ElapsedFirst, IsElapsed
  <2>1. queue[i + 1].depth = 0 /\ \A j \in 1..(i + 1) : IsElapsed(queue[j])
    BY <1>1, <1>2 DEF ElapsedFirst, IsElapsed
  <2>2. \A j \in 1..i : j \in DOMAIN queue' /\ j + 1 \in 1..(i + 1) BY <1>1
  <2>3. QED BY <1>1, <2>1, <2>2 DEF IsElapsed
<1>4. OnceQueued'
  <2> SUFFICES ASSUME NEW i \in DOMAIN queue', NEW j \in DOMAIN queue', IsElapsed(queue'[i]),
                      IsElapsed(queue'[j]), queue'[i].ev.key = queue'[j].ev.key
               PROVE  i = j
    BY DEF OnceQueued, IsElapsed
  <2>1. i + 1 = j + 1 BY <1>1, <1>2 DEF OnceQueued, IsElapsed
  <2>2. QED BY <1>1, <2>1
<1>5. QueuedKeys' \subseteq QueuedKeys BY QueuedTail
<1>6. ASSUME IsElapsed(Front) PROVE QueuedKeys' = QueuedKeys \ {Front.ev.key}
  <2>1. ASSUME NEW k \in QueuedKeys, k # Front.ev.key PROVE k \in QueuedKeys'
    <3>1. PICK i \in DOMAIN queue : queue[i].ev.type = "elapsed" /\ queue[i].ev.key = k
      BY <2>1 DEF QueuedKeys
    <3>2. i # 1 BY <1>1, <2>1, <3>1
    <3>3. i - 1 \in DOMAIN queue' /\ queue'[i - 1] = queue[i] BY <1>1, <3>2
    <3>4. QED BY <3>1, <3>3 DEF QueuedKeys
  <2>2. ASSUME NEW k \in QueuedKeys' PROVE k # Front.ev.key
    <3>1. PICK i \in DOMAIN queue' : queue'[i].ev.type = "elapsed" /\ queue'[i].ev.key = k
      BY <2>2 DEF QueuedKeys
    <3>2. i + 1 # 1 BY <1>1
    <3>3. QED BY <1>1, <1>2, <1>6, <3>1, <3>2 DEF OnceQueued, IsElapsed
  <2>3. QED BY <1>5, <2>1, <2>2
<1>7. ASSUME ~IsElapsed(Front) PROVE QueuedKeys = {}
  <2> SUFFICES ASSUME NEW k \in QueuedKeys PROVE FALSE OBVIOUS
  <2>1. PICK i \in DOMAIN queue : IsElapsed(queue[i]) BY DEF QueuedKeys, IsElapsed
  <2>2. 1 \in 1..i BY <1>1
  <2>3. QED BY <1>1, <1>7, <2>1, <2>2 DEF ElapsedFirst
<1>8. QED BY <1>3, <1>4, <1>5, <1>6, <1>7

(* Adding to the end: anything but an elapsed timer changes no key ...     *)
LEMMA OwnAppend ==
  ASSUME TypeOK, ElapsedFirst, OnceQueued, NEW ev \in Event, NEW d \in Nat, ev.type # "elapsed",
         queue' = Enqueued(queue, ev, d)
  PROVE  ElapsedFirst' /\ OnceQueued' /\ QueuedKeys' = QueuedKeys
<1> DEFINE e == [ev |-> ev, depth |-> d]
<1>1. e \in Entry BY DEF Entry
<1>2. /\ Len(queue) \in Nat /\ DOMAIN queue = 1..Len(queue) /\ DOMAIN queue' = 1..Len(queue) + 1
      /\ \A i \in 1..Len(queue) : queue'[i] = queue[i]
      /\ queue'[Len(queue) + 1] = e
  BY <1>1, AppendProperties, LenProperties DEF TypeOK, Enqueued
<1>3. \A i \in DOMAIN queue' : IsElapsed(queue'[i]) => i \in DOMAIN queue /\ queue'[i] = queue[i]
  BY <1>2 DEF IsElapsed
<1>4. \A i \in DOMAIN queue : i \in DOMAIN queue' /\ queue'[i] = queue[i] BY <1>2
<1>5. ElapsedFirst'
  <2> SUFFICES ASSUME NEW i \in DOMAIN queue', IsElapsed(queue'[i])
               PROVE  queue'[i].depth = 0 /\ \A j \in 1..i : IsElapsed(queue'[j])
    BY DEF ElapsedFirst, IsElapsed
  <2>1. i \in DOMAIN queue /\ queue'[i] = queue[i] BY <1>3
  <2>2. \A j \in 1..i : j \in DOMAIN queue BY <1>2, <2>1
  <2>3. QED BY <1>4, <2>1, <2>2 DEF ElapsedFirst, IsElapsed
<1>6. OnceQueued' BY <1>3 DEF OnceQueued, IsElapsed
<1>7. QueuedKeys' = QueuedKeys BY <1>3, <1>4 DEF QueuedKeys, IsElapsed
<1>8. QED BY <1>5, <1>6, <1>7

(* ... and the scheduler adds a key that was not there.                    *)
LEMMA OwnAppendElapsed ==
  ASSUME TypeOK, OnceQueued, \A i \in DOMAIN queue : IsElapsed(queue[i]) /\ queue[i].depth = 0,
         NEW k \in Key \ QueuedKeys, queue' = Enqueued(queue, Elapsed(k), 0)
  PROVE  /\ ElapsedFirst' /\ OnceQueued' /\ QueuedKeys' = QueuedKeys \cup {k}
         /\ \A i \in DOMAIN queue' : IsElapsed(queue'[i])
<1> DEFINE e == [ev |-> Elapsed(k), depth |-> 0]
<1>1. e \in Entry BY DEF Entry, Event, Elapsed
<1>2. /\ Len(queue) \in Nat /\ DOMAIN queue = 1..Len(queue) /\ DOMAIN queue' = 1..Len(queue) + 1
      /\ \A i \in 1..Len(queue) : queue'[i] = queue[i]
      /\ queue'[Len(queue) + 1] = e
  BY <1>1, AppendProperties, LenProperties DEF TypeOK, Enqueued
<1>3. IsElapsed(e) /\ e.depth = 0 /\ e.ev.key = k BY DEF IsElapsed, Elapsed
<1>4. \A i \in DOMAIN queue' : IsElapsed(queue'[i]) /\ queue'[i].depth = 0
  BY <1>2, <1>3 DEF IsElapsed
<1>5. ElapsedFirst' BY <1>2, <1>4 DEF ElapsedFirst, IsElapsed
<1>6. \A i \in DOMAIN queue : queue[i].ev.key # k BY QueuedMember
<1>7. OnceQueued'
  <2> SUFFICES ASSUME NEW i \in DOMAIN queue', NEW j \in DOMAIN queue', i # j
               PROVE  queue'[i].ev.key # queue'[j].ev.key
    BY DEF OnceQueued, IsElapsed
  <2>1. CASE i \in DOMAIN queue /\ j \in DOMAIN queue BY <1>2, <2>1 DEF OnceQueued
  <2>2. CASE i = Len(queue) + 1 BY <1>2, <1>3, <1>6, <2>2
  <2>3. CASE j = Len(queue) + 1 BY <1>2, <1>3, <1>6, <2>3
  <2>4. QED BY <1>2, <2>1, <2>2, <2>3
<1>8. QueuedKeys' = QueuedKeys \cup {k}
  <2>1. ASSUME NEW j \in QueuedKeys' PROVE j \in QueuedKeys \cup {k}
    <3>1. PICK i \in DOMAIN queue' : queue'[i].ev.type = "elapsed" /\ queue'[i].ev.key = j
      BY <2>1 DEF QueuedKeys
    <3>2. CASE i \in DOMAIN queue BY <1>2, <3>1, <3>2 DEF QueuedKeys
    <3>3. CASE i = Len(queue) + 1 BY <1>2, <1>3, <3>1, <3>3
    <3>4. QED BY <1>2, <3>2, <3>3
  <2>2. ASSUME NEW j \in QueuedKeys PROVE j \in QueuedKeys'
    <3>1. PICK i \in DOMAIN queue : queue[i].ev.type = "elapsed" /\ queue[i].ev.key = j
      BY <2>2 DEF QueuedKeys
    <3>2. QED BY <1>2, <3>1 DEF QueuedKeys
  <2>3. k \in QueuedKeys' BY <1>2, <1>3 DEF QueuedKeys, IsElapsed
  <2>4. QED BY <2>1, <2>2, <2>3
<1>9. QED BY <1>4, <1>5, <1>7, <1>8

(* Nothing that leaves the queue, the timers and the matching as they are. *)
LEMMA QueueSame ==
  ASSUME QueueInv, UNCHANGED queue,
         pc' = "sched" => pc = "sched" /\ DOMAIN timers' \subseteq DOMAIN timers,
         cur' \in {cur, NONE}, arms' = arms \/ arms' = <<>> \/ arms # <<>>
  PROVE  QueueInv'
<1>1. QueuedKeys' = QueuedKeys BY DEF QueuedKeys
<1>2. ElapsedFirst' /\ OnceQueued' BY DEF QueueInv, ElapsedFirst, OnceQueued, IsElapsed
<1>3. SchedFirst' BY <1>1 DEF QueueInv, SchedFirst, IsElapsed
<1>4. ArmsLast' BY <1>1 DEF QueueInv, ArmsLast
<1>5. QED BY <1>2, <1>3, <1>4 DEF QueueInv

(* An event that comes from an adapter or a command, while nothing is      *)
(* collected from the scheduler.                                           *)
LEMMA QueueAdded ==
  ASSUME TypeOK, QueueInv, NEW ev \in Event, NEW d \in Nat, ev.type # "elapsed",
         queue' = Enqueued(queue, ev, d), pc' # "sched", UNCHANGED <<cur, arms>>
  PROVE  QueueInv' /\ QueuedKeys' = QueuedKeys
<1>1. ElapsedFirst' /\ OnceQueued' /\ QueuedKeys' = QueuedKeys BY OwnAppend DEF QueueInv
<1>2. QED BY <1>1 DEF QueueInv, SchedFirst, ArmsLast

(* An event that is taken and, unless it is a report, leads to no arming.  *)
LEMMA QueueTaken ==
  ASSUME TypeOK, QueueInv, BetweenEvents, queue # <<>>, queue' = Tail(queue), UNCHANGED pc,
         arms' = <<>>, ~IsElapsed(Front) \/ cur' = NONE \/ cur'.ev.type # "report"
  PROVE  QueueInv'
<1>1. ElapsedFirst' /\ OnceQueued' /\ (~IsElapsed(Front) => QueuedKeys' = {})
  BY OwnTail DEF QueueInv
<1>2. QED BY <1>1 DEF QueueInv, SchedFirst, ArmsLast, BetweenEvents

LEMMA QueueStep == OwnedInv /\ [Next]_vars => QueueInv'
<1> SUFFICES ASSUME OwnedInv, [Next]_vars PROVE QueueInv' OBVIOUS
<1>0. TypeOK /\ Inside /\ IdleEmpty /\ QueueInv /\ KeysInv BY DEF OwnedInv, MirrorInv
<1> USE DEF stateVars, timerVars
<1>1. ASSUME NEW dt \in TimeSteps, Advance(dt) PROVE QueueInv'
  <2>1. queue' = <<>> /\ UNCHANGED <<queue, cur, arms>> BY <1>0, <1>1 DEF Advance, IdleEmpty
  <2>2. DOMAIN queue' = {} /\ QueuedKeys' = {} BY <2>1 DEF QueuedKeys
  <2>3. QED BY <2>2 DEF QueueInv, ElapsedFirst, OnceQueued, SchedFirst, ArmsLast
<1>2. CASE TickTimer
  <2>1. PICK k \in DOMAIN timers : timers' = Cancel(timers, {k}) /\ queue' = Enqueued(queue, Elapsed(k), 0)
    BY <1>2 DEF TickTimer, Earliest, Due
  <2>2. pc = "sched" /\ UNCHANGED <<cur, arms>> BY <1>2 DEF TickTimer
  <2>3. k \in Key \ QueuedKeys BY <1>0, <2>2 DEF TypeOK, QueueInv, SchedFirst
  <2>4. \A i \in DOMAIN queue : IsElapsed(queue[i]) /\ queue[i].depth = 0
    BY <1>0, <2>2 DEF QueueInv, SchedFirst, ElapsedFirst
  <2>5. /\ ElapsedFirst' /\ OnceQueued' /\ QueuedKeys' = QueuedKeys \cup {k}
        /\ \A i \in DOMAIN queue' : IsElapsed(queue'[i])
    BY <1>0, <2>1, <2>3, <2>4, OwnAppendElapsed DEF QueueInv
  <2>6. DOMAIN timers' = DOMAIN timers \ {k} BY <2>1 DEF Cancel
  <2>7. SchedFirst' BY <1>0, <2>2, <2>5, <2>6 DEF QueueInv, SchedFirst, IsElapsed
  <2>8. ArmsLast' BY <1>0, <2>2 DEF Inside, ArmsLast
  <2>9. QED BY <2>5, <2>7, <2>8 DEF QueueInv
<1>3. ASSUME NEW ev \in SouthEvents \cup NorthEvents, Inject(ev) \/ TickSouth(ev) \/ TickNorth(ev)
      PROVE  QueueInv'
  <2>1. ev \in Event /\ ev.type # "elapsed" BY InputShape
  <2>2. queue' = Enqueued(queue, ev, 0) /\ pc' # "sched" /\ UNCHANGED <<cur, arms>>
    BY <1>3 DEF Inject, TickSouth, TickNorth
  <2>3. QED BY <1>0, <2>1, <2>2, QueueAdded
<1>4. CASE SchedulerTicked \/ TickDone \/ Quiesce
  <2>1. UNCHANGED <<queue, cur, arms>> /\ pc' # "sched" BY <1>4 DEF SchedulerTicked, TickDone, Quiesce
  <2>2. QED BY <1>0, <2>1, QueueSame
<1>5. CASE DropRunaway
  <2>1. queue # <<>> /\ queue' = Tail(queue) /\ UNCHANGED <<pc, cur, arms>> /\ BetweenEvents
    BY <1>5 DEF DropRunaway
  <2>2. arms' = <<>> /\ cur' = NONE BY <2>1 DEF BetweenEvents
  <2>3. QED BY <1>0, <2>1, <2>2, QueueTaken
<1>6. CASE RetryElapsed \/ ForElapsed \/ Requested \/ RequestedScene
  <2>1. queue # <<>> /\ queue' = Tail(queue) /\ UNCHANGED <<pc, cur, arms>> /\ BetweenEvents
    BY <1>6 DEF RetryElapsed, ForElapsed, Requested, RequestedScene, Pop
  <2>2. arms' = <<>> /\ cur' = NONE BY <2>1 DEF BetweenEvents
  <2>3. QED BY <1>0, <2>1, <2>2, QueueTaken
<1>7. CASE TakeEvent
  <2>1. queue # <<>> /\ queue' = Tail(queue) /\ UNCHANGED <<pc, arms>> /\ BetweenEvents
        /\ Front.ev.type # "report"
    BY <1>7 DEF TakeEvent, Pop
  <2>2. arms' = <<>> BY <2>1 DEF BetweenEvents
  <2>3. cur' = NONE \/ cur'.ev.type # "report" BY <1>7, <2>1 DEF TakeEvent, Considering
  <2>4. QED BY <1>0, <2>1, <2>2, <2>3, QueueTaken
<1>8. CASE FoldReport
  <2>1. queue # <<>> /\ queue' = Tail(queue) /\ UNCHANGED <<pc, arms>> /\ BetweenEvents
        /\ ~IsElapsed(Front)
    BY <1>8 DEF FoldReport, Pop, IsElapsed
  <2>2. arms' = <<>> BY <2>1 DEF BetweenEvents
  <2>3. QED BY <1>0, <2>1, <2>2, QueueTaken
<1>9. CASE ConsiderRule
  <2>1. cur # NONE /\ UNCHANGED <<queue, pc, timers>> BY <1>9 DEF ConsiderRule
  <2>2. cur \in [ev : Event, prior : Int \cup {NONE}, depth : Nat, next : RuleIds] BY <1>0, <2>1 DEF TypeOK
  <2>3. cur' # NONE => cur'.ev = cur.ev BY <1>9, <2>2 DEF ConsiderRule, Considering
  <2>4. QueuedKeys' = QueuedKeys BY <2>1 DEF QueuedKeys
  <2>5. ElapsedFirst' /\ OnceQueued' /\ SchedFirst'
    BY <1>0, <2>1, <2>4 DEF QueueInv, ElapsedFirst, OnceQueued, SchedFirst, IsElapsed
  <2>6. ArmsLast'
    <3>1. CASE arms' = arms BY <1>0, <2>1, <2>3, <2>4, <3>1 DEF QueueInv, ArmsLast
    <3>2. CASE arms' # arms
      <4> DEFINE rule == RuleList[cur.next]
      <4>1. rule.for # NONE /\ Matches(rule.trigger, cur.ev, cur.prior) BY <1>9, <3>2 DEF ConsiderRule
      <4>2. rule.trigger.on \in EdgeTriggers BY <2>2, <4>1, RulesAssumption DEF ForRules
      <4>3. cur.ev.type = "report" BY <4>1, <4>2, EdgeMatch
      <4>4. QED BY <1>0, <2>1, <2>4, <4>3 DEF QueueInv, ArmsLast
    <3>3. QED BY <3>1, <3>2
  <2>7. QED BY <2>5, <2>6 DEF QueueInv
<1>10. CASE ArmFor
  <2>1. UNCHANGED <<queue, pc, cur>> /\ arms # <<>> BY <1>10 DEF ArmFor
  <2>2. pc' # "sched" BY <1>0, <2>1 DEF Inside
  <2>3. QED BY <1>0, <2>1, <2>2, QueueSame
<1>11. CASE ExpandScene \/ SetTimer
  <2>1. UNCHANGED <<queue, pc, cur, arms>> /\ work # <<>> BY <1>11 DEF ExpandScene, SetTimer, NextCall
  <2>2. pc' # "sched" BY <1>0, <2>1 DEF Inside
  <2>3. QED BY <1>0, <2>1, <2>2, QueueSame
<1>12. ASSUME NextCall(DeviceOps),
              \/ UNCHANGED queue
              \/ \E ev \in Event, d \in Nat : ev.type # "elapsed" /\ queue' = Enqueued(queue, ev, d)
       PROVE  QueueInv'
  <2>1. UNCHANGED <<pc, cur, arms>> /\ work # <<>> BY <1>12 DEF NextCall
  <2>2. pc' # "sched" BY <1>0, <2>1 DEF Inside
  <2>3. CASE UNCHANGED queue BY <1>0, <2>1, <2>2, <2>3, QueueSame
  <2>4. ASSUME NEW ev \in Event, NEW d \in Nat, ev.type # "elapsed", queue' = Enqueued(queue, ev, d)
        PROVE  QueueInv'
    BY <1>0, <2>1, <2>2, <2>4, QueueAdded
  <2>5. QED BY <1>12, <2>3, <2>4
<1>13. CASE DispatchOk
  <2>1. Call.depth + 1 \in Nat /\ Command \in DeviceCmd
    BY <1>13, <1>0, CallType DEF DispatchOk, NextCall, Command, Call
  <2> DEFINE ev == [type |-> "report", cell |-> Command.cell, value |-> Command.value]
  <2>2. Command.op = "set" => ev \in Event BY <2>1 DEF DeviceCmd, Event, Report
  <2>3. ev.type # "elapsed" OBVIOUS
  <2>4. UNCHANGED queue \/ (Command.op = "set" /\ queue' = Enqueued(queue, ev, Call.depth + 1))
    BY <1>13 DEF DispatchOk
  <2> HIDE DEF ev
  <2>5. NextCall(DeviceOps) BY <1>13 DEF DispatchOk
  <2>6. QED BY <1>12, <2>1, <2>2, <2>3, <2>4, <2>5
<1>14. CASE DispatchTransient \/ DispatchPermanent
  <2>1. NextCall(DeviceOps) /\ (ScheduleRetry \/ GiveUp) BY <1>14 DEF DispatchTransient, DispatchPermanent
  <2>2. Call.depth + 1 \in Nat /\ Command \in DeviceCmd
    BY <1>0, <2>1, CallType DEF NextCall, Command, Call
  <2> DEFINE ev == [type |-> "failed", cmd |-> Command]
  <2>3. ev \in Event BY <2>2 DEF Event
  <2>4. ev.type # "elapsed" OBVIOUS
  <2>5. UNCHANGED queue \/ queue' = Enqueued(queue, ev, Call.depth + 1)
    BY <2>1 DEF ScheduleRetry, GiveUp
  <2> HIDE DEF ev
  <2>6. QED BY <1>12, <2>1, <2>2, <2>3, <2>4, <2>5
<1>15. CASE UNCHANGED vars
  BY <1>0, <1>15, QueueSame DEF vars, loopVars
<1>16. QED
  BY <1>1, <1>2, <1>3, <1>4, <1>5, <1>6, <1>7, <1>8, <1>9, <1>10, <1>11, <1>13, <1>14, <1>15
  DEF Next, Host, Tick, Drain

-----------------------------------------------------------------------------
(* The keys *)

LEMMA GeneratedShape ==
  \A k \in Key : /\ IsForKey(k) => \E n \in Nat : k = ForKey(n)
                 /\ k \in UserTimers => ~Generated(k)
BY KeyAssumption DEF Key, IsForKey, ForKey, Generated

LEMMA WaitedShape ==
  ASSUME KeysOwned, KeysInv
  PROVE  /\ \A r \in ForRules : pendingFor[r] # NONE => IsForKey(pendingFor[r]) /\ Generated(pendingFor[r])
         /\ \A k \in DOMAIN retries : ~IsForKey(k) /\ Generated(k)
<1>1. \A n : Generated(ForKey(n)) /\ IsForKey(ForKey(n)) /\ Generated(RetryKey(n)) /\ ~IsForKey(RetryKey(n))
  BY DEF Generated, ForKey, RetryKey, IsForKey
<1>2. \A r \in ForRules : pendingFor[r] # NONE => \E n : pendingFor[r] = ForKey(n) BY DEF KeysOwned
<1>3. \A k \in DOMAIN retries : \E n : k = RetryKey(n) BY DEF KeysInv
<1>4. QED BY <1>1, <1>2, <1>3

(* A step that leaves the waiting alone and brings back the same keys.     *)
LEMMA KeysFrame ==
  ASSUME KeysOwned, KeysInv, UNCHANGED <<pendingFor, retries, retryCounter>>,
         \A k : Generated(k) => /\ k \in Coming' <=> k \in Coming
                                /\ ~(k \in DOMAIN timers' /\ k \in QueuedKeys')
  PROVE  KeysInv'
<1>1. /\ \A r \in ForRules : pendingFor[r] # NONE => Generated(pendingFor[r])
      /\ \A k \in DOMAIN retries : Generated(k)
  BY WaitedShape
<1>2. \A k : IsForKey(k) \/ k[1] = "retry" => Generated(k) BY DEF Generated, IsForKey
<1>3. \A k \in DOMAIN timers' \cap QueuedKeys' : ~Generated(k) OBVIOUS
<1>4. \A k \in Coming' : IsForKey(k) => \E r \in ForRules : pendingFor'[r] = k
  BY <1>2 DEF KeysInv
<1>5. \A r \in ForRules : pendingFor'[r] # NONE => pendingFor'[r] \in Coming' BY <1>1 DEF KeysInv
<1>6. \A k \in Coming' : k[1] = "retry" => k \in DOMAIN retries' BY <1>2 DEF KeysInv
<1>7. DOMAIN retries' \subseteq Coming' BY <1>1 DEF KeysInv
<1>8. \A k \in DOMAIN retries' : /\ \E n \in 1..retryCounter' : k = RetryKey(n)
                                 /\ retries'[k].attempt \in 2..MaxAttempts
  BY DEF KeysInv
<1>9. QED BY <1>3, <1>4, <1>5, <1>6, <1>7, <1>8 DEF KeysInv, Generated, IsForKey

(* The same, when timers and queue keep their keys.                        *)
LEMMA KeysStill ==
  ASSUME KeysOwned, KeysInv, UNCHANGED <<pendingFor, retries, retryCounter>>,
         \A k : Generated(k) => /\ k \in DOMAIN timers' <=> k \in DOMAIN timers
                                /\ k \in QueuedKeys' <=> k \in QueuedKeys
  PROVE  KeysInv'
<1>1. ASSUME NEW k, Generated(k)
      PROVE  /\ k \in Coming' <=> k \in Coming
             /\ ~(k \in DOMAIN timers' /\ k \in QueuedKeys')
  BY <1>1 DEF Coming, KeysInv
<1>2. QED BY <1>1, KeysFrame

LEMMA KeysStep == OwnedInv /\ [Next]_vars => KeysInv'
<1> SUFFICES ASSUME OwnedInv, [Next]_vars PROVE KeysInv' OBVIOUS
<1>0. TypeOK /\ KeysOwned /\ KeysFresh /\ Inside /\ IdleEmpty /\ QueueInv /\ KeysInv
  BY DEF OwnedInv, MirrorInv, PromiseInv, SustainedInv
<1>a. /\ forCounter \in Nat /\ retryCounter \in Nat /\ MaxAttempts \in Nat \ {0} /\ MaxDepth \in Nat
  BY <1>0, EngineAssumption DEF TypeOK
<1> USE DEF stateVars, timerVars
<1>1. ASSUME UNCHANGED <<timers, pendingFor, retries, retryCounter>>, QueuedKeys' = QueuedKeys
      PROVE  KeysInv'
  BY <1>0, <1>1, KeysStill
<1>2. ASSUME UNCHANGED <<queue, timers, pendingFor, retries, retryCounter>> PROVE KeysInv'
  <2>1. QueuedKeys' = QueuedKeys BY <1>2 DEF QueuedKeys
  <2>2. QED BY <1>1, <1>2, <2>1
<1>3. CASE TickTimer
  <2>1. PICK k \in DOMAIN timers : timers' = Cancel(timers, {k}) /\ queue' = Enqueued(queue, Elapsed(k), 0)
    BY <1>3 DEF TickTimer, Earliest, Due
  <2>2. pc = "sched" /\ UNCHANGED <<pendingFor, retries, retryCounter>> BY <1>3 DEF TickTimer
  <2>3. k \in Key \ QueuedKeys BY <1>0, <2>2 DEF TypeOK, QueueInv, SchedFirst
  <2>4. \A i \in DOMAIN queue : IsElapsed(queue[i]) /\ queue[i].depth = 0
    BY <1>0, <2>2 DEF QueueInv, SchedFirst, ElapsedFirst
  <2>5. QueuedKeys' = QueuedKeys \cup {k}
    BY <1>0, <2>1, <2>3, <2>4, OwnAppendElapsed DEF QueueInv
  <2>6. DOMAIN timers' = DOMAIN timers \ {k} BY <2>1 DEF Cancel
  <2>7. QueuedKeys \cap DOMAIN timers = {} BY <1>0, <2>2 DEF QueueInv, SchedFirst
  <2>8. ASSUME NEW j, Generated(j)
        PROVE  /\ j \in Coming' <=> j \in Coming
               /\ ~(j \in DOMAIN timers' /\ j \in QueuedKeys')
    BY <2>5, <2>6, <2>7 DEF Coming
  <2>9. QED BY <1>0, <2>2, <2>8, KeysFrame
<1>4. ASSUME NEW ev \in SouthEvents \cup NorthEvents, Inject(ev) \/ TickSouth(ev) \/ TickNorth(ev)
      PROVE  KeysInv'
  <2>1. ev \in Event /\ ev.type # "elapsed" BY InputShape
  <2>2. queue' = Enqueued(queue, ev, 0) /\ UNCHANGED <<timers, pendingFor, retries, retryCounter>>
    BY <1>4 DEF Inject, TickSouth, TickNorth
  <2>3. QueuedKeys' = QueuedKeys BY <1>0, <2>1, <2>2, OwnAppend DEF QueueInv
  <2>4. QED BY <1>1, <2>2, <2>3
<1>5. ASSUME BetweenEvents, queue # <<>>, queue' = Tail(queue), ~IsElapsed(Front)
      PROVE  QueuedKeys = {} /\ QueuedKeys' = {}
  BY <1>0, <1>5, OwnTail DEF QueueInv
<1>6. ASSUME queue # <<>>, queue' = Tail(queue), IsElapsed(Front)
      PROVE  /\ QueuedKeys' = QueuedKeys \ {Front.ev.key}
             /\ Front.ev.key \in QueuedKeys /\ Front.ev.key \in Key
             /\ Front.depth = 0
             /\ Generated(Front.ev.key) => Front.ev.key \notin DOMAIN timers
  <2>1. QueuedKeys' = QueuedKeys \ {Front.ev.key} BY <1>0, <1>6, OwnTail DEF QueueInv
  <2>2. Front.ev.key \in QueuedKeys BY <1>0, <1>6, QueuedFront DEF IsElapsed
  <2>3. Front.ev.key \in Key BY <1>0, <1>6, FrontType, ElapsedShape DEF IsElapsed
  <2>4. 1 \in DOMAIN queue /\ queue[1] = Front
    BY <1>0, <1>6, HeadTailProperties, LenProperties, EmptySeq DEF TypeOK, Front
  <2>5. Front.depth = 0 BY <1>0, <1>6, <2>4 DEF QueueInv, ElapsedFirst
  <2>6. QED BY <1>0, <2>1, <2>2, <2>3, <2>5 DEF KeysInv
<1>7. CASE DropRunaway
  <2>1. /\ queue # <<>> /\ queue' = Tail(queue) /\ BetweenEvents /\ Front.depth > MaxDepth
        /\ UNCHANGED <<timers, pendingFor, retries, retryCounter>>
    BY <1>7 DEF DropRunaway
  <2>2. ~IsElapsed(Front) BY <1>6, <1>a, <2>1
  <2>3. QED BY <1>1, <1>5, <2>1, <2>2
<1>8. CASE Requested \/ RequestedScene
  <2>1. /\ queue # <<>> /\ queue' = Tail(queue) /\ BetweenEvents /\ ~IsElapsed(Front)
        /\ UNCHANGED <<timers, pendingFor, retries, retryCounter>>
    BY <1>8 DEF Requested, RequestedScene, Pop, IsElapsed
  <2>2. QED BY <1>1, <1>5, <2>1
<1>9. CASE TakeEvent
  <2>1. /\ queue # <<>> /\ queue' = Tail(queue) /\ BetweenEvents
        /\ UNCHANGED <<timers, pendingFor, retries, retryCounter>>
        /\ IsElapsed(Front) => Front.ev.key \notin DOMAIN retries /\ ~IsForKey(Front.ev.key)
    BY <1>9 DEF TakeEvent, Pop, IsElapsed
  <2>2. CASE ~IsElapsed(Front) BY <1>1, <1>5, <2>1, <2>2
  <2>3. CASE IsElapsed(Front)
    <3>1. QueuedKeys' = QueuedKeys \ {Front.ev.key} /\ Front.ev.key \in Coming BY <1>6, <2>1, <2>3 DEF Coming
    <3>2. ~Generated(Front.ev.key) BY <1>0, <2>1, <2>3, <3>1 DEF KeysInv, Generated, IsForKey
    <3>3. QED BY <1>0, <2>1, <3>1, <3>2, KeysStill
  <2>4. QED BY <2>2, <2>3
<1>10. CASE RetryElapsed
  <2> DEFINE k == Front.ev.key
  <2>1. /\ queue # <<>> /\ queue' = Tail(queue) /\ IsElapsed(Front)
        /\ k \in DOMAIN retries /\ retries' = Cancel(retries, {k})
        /\ UNCHANGED <<timers, pendingFor, retryCounter>>
    BY <1>10 DEF RetryElapsed, Pop, IsElapsed
  <2>2. Generated(k) /\ ~IsForKey(k) BY <1>0, <2>1, WaitedShape
  <2>3. QueuedKeys' = QueuedKeys \ {k} /\ k \in QueuedKeys /\ k \notin DOMAIN timers BY <1>6, <2>1, <2>2
  <2>4. Coming' = Coming \ {k} BY <2>1, <2>3 DEF Coming
  <2>5. DOMAIN retries' = DOMAIN retries \ {k} /\ \A j \in DOMAIN retries' : retries'[j] = retries[j]
    BY <2>1 DEF Cancel
  <2>6. \A j \in DOMAIN timers' \cap QueuedKeys' : ~Generated(j) BY <1>0, <2>1, <2>3 DEF KeysInv
  <2>7. \A j \in Coming' : IsForKey(j) => \E r \in ForRules : pendingFor'[r] = j
    BY <1>0, <2>1, <2>4 DEF KeysInv
  <2>8. \A r \in ForRules : pendingFor'[r] # NONE => pendingFor'[r] \in Coming'
    BY <1>0, <2>1, <2>2, <2>4, WaitedShape DEF KeysInv
  <2>9. \A j \in Coming' : j[1] = "retry" => j \in DOMAIN retries' BY <1>0, <2>4, <2>5 DEF KeysInv
  <2>10. DOMAIN retries' \subseteq Coming' BY <1>0, <2>4, <2>5 DEF KeysInv
  <2>11. \A j \in DOMAIN retries' : /\ \E n \in 1..retryCounter' : j = RetryKey(n)
                                    /\ retries'[j].attempt \in 2..MaxAttempts
    BY <1>0, <2>1, <2>5 DEF KeysInv
  <2>12. QED BY <2>6, <2>7, <2>8, <2>9, <2>10, <2>11 DEF KeysInv, Generated, IsForKey
<1>11. CASE ForElapsed
  <2> DEFINE k == Front.ev.key
  <2>1. /\ queue # <<>> /\ queue' = Tail(queue) /\ IsElapsed(Front)
        /\ k \notin DOMAIN retries /\ IsForKey(k)
        /\ pendingFor' = [r \in ForRules |-> IF pendingFor[r] = k THEN NONE ELSE pendingFor[r]]
        /\ UNCHANGED <<timers, retries, retryCounter>>
    BY <1>11 DEF ForElapsed, Pop, IsElapsed
  <2>2. Generated(k) BY <2>1 DEF Generated, IsForKey
  <2>3. QueuedKeys' = QueuedKeys \ {k} /\ k \in QueuedKeys /\ k \notin DOMAIN timers BY <1>6, <2>1, <2>2
  <2>4. Coming' = Coming \ {k} BY <2>1, <2>3 DEF Coming
  <2>5. \A r \in ForRules : /\ pendingFor'[r] # NONE => pendingFor'[r] = pendingFor[r] /\ pendingFor[r] # k
                            /\ pendingFor[r] # k => pendingFor'[r] = pendingFor[r]
    BY <2>1
  <2>6. \A j \in DOMAIN timers' \cap QueuedKeys' : ~Generated(j) BY <1>0, <2>1, <2>3 DEF KeysInv
  <2>7. \A j \in Coming' : IsForKey(j) => \E r \in ForRules : pendingFor'[r] = j
    BY <1>0, <2>4, <2>5 DEF KeysInv
  <2>8. \A r \in ForRules : pendingFor'[r] # NONE => pendingFor'[r] \in Coming'
    BY <1>0, <2>4, <2>5 DEF KeysInv
  <2>9. \A j \in Coming' : j[1] = "retry" => j \in DOMAIN retries' BY <1>0, <2>1, <2>4 DEF KeysInv
  <2>10. DOMAIN retries' \subseteq Coming' BY <1>0, <2>1, <2>4 DEF KeysInv
  <2>11. \A j \in DOMAIN retries' : /\ \E n \in 1..retryCounter' : j = RetryKey(n)
                                    /\ retries'[j].attempt \in 2..MaxAttempts
    BY <1>0, <2>1 DEF KeysInv
  <2>12. QED BY <2>6, <2>7, <2>8, <2>9, <2>10, <2>11 DEF KeysInv, Generated, IsForKey
<1>12. CASE FoldReport
  <2> DEFINE folded == [store EXCEPT ![Front.ev.cell] = Front.ev.value]
             ended  == {pendingFor[r] : r \in Reverted(folded)}
  <2>1. /\ queue # <<>> /\ queue' = Tail(queue) /\ BetweenEvents /\ ~IsElapsed(Front)
        /\ pendingFor' = [r \in ForRules |-> IF r \in Reverted(folded) THEN NONE ELSE pendingFor[r]]
        /\ timers' = Cancel(timers, ended)
        /\ UNCHANGED <<retries, retryCounter>>
    BY <1>12 DEF FoldReport, Pop, IsElapsed
  <2>2. QueuedKeys = {} /\ QueuedKeys' = {} BY <1>5, <2>1
  <2>3. DOMAIN timers' = DOMAIN timers \ ended BY <2>1 DEF Cancel
  <2>4. Coming = DOMAIN timers /\ Coming' = DOMAIN timers \ ended BY <2>2, <2>3 DEF Coming
  <2>5. Reverted(folded) \subseteq ForRules /\ \A r \in Reverted(folded) : pendingFor[r] # NONE
    BY DEF Reverted
  <2>6. \A j \in ended : IsForKey(j) BY <1>0, <2>5, WaitedShape
  <2>7. \A r \in ForRules \ Reverted(folded) :
          pendingFor'[r] = pendingFor[r] /\ (pendingFor[r] # NONE => pendingFor[r] \notin ended)
    <3>1. ASSUME NEW r \in ForRules \ Reverted(folded), pendingFor[r] # NONE, NEW s \in Reverted(folded)
          PROVE  pendingFor[r] # pendingFor[s]
      BY <1>0, <2>5, <3>1 DEF KeysOwned
    <3>2. QED BY <2>1, <3>1
  <2>8. \A r \in Reverted(folded) : pendingFor'[r] = NONE BY <2>1, <2>5
  <2> HIDE DEF folded
  <2>9. \A j \in Coming' : IsForKey(j) => \E r \in ForRules : pendingFor'[r] = j
    <3> SUFFICES ASSUME NEW j \in Coming', IsForKey(j) PROVE \E r \in ForRules : pendingFor'[r] = j
      OBVIOUS
    <3>1. PICK r \in ForRules : pendingFor[r] = j BY <1>0, <2>4 DEF KeysInv
    <3>2. r \notin Reverted(folded) BY <2>4, <3>1
    <3>3. QED BY <2>7, <3>1, <3>2
  <2>10. \A r \in ForRules : pendingFor'[r] # NONE => pendingFor'[r] \in Coming'
    <3> SUFFICES ASSUME NEW r \in ForRules, pendingFor'[r] # NONE PROVE pendingFor'[r] \in Coming'
      OBVIOUS
    <3>1. r \notin Reverted(folded) BY <2>8
    <3>2. QED BY <1>0, <2>4, <2>7, <3>1 DEF KeysInv
  <2>11. \A j \in Coming' : j[1] = "retry" => j \in DOMAIN retries' BY <1>0, <2>1, <2>4 DEF KeysInv
  <2>12. DOMAIN retries' \subseteq Coming'
    <3> SUFFICES ASSUME NEW j \in DOMAIN retries PROVE j \in Coming' BY <2>1
    <3>1. j \in Coming /\ ~IsForKey(j) BY <1>0, WaitedShape DEF KeysInv
    <3>2. QED BY <2>4, <2>6, <3>1
  <2>13. \A j \in DOMAIN retries' : /\ \E n \in 1..retryCounter' : j = RetryKey(n)
                                    /\ retries'[j].attempt \in 2..MaxAttempts
    BY <1>0, <2>1 DEF KeysInv
  <2>14. QED BY <2>2, <2>9, <2>10, <2>11, <2>12, <2>13 DEF KeysInv, Generated, IsForKey
<1>13. CASE ArmFor
  <2> DEFINE r == Head(arms)
             k == ForKey(forCounter + 1)
             old == pendingFor[r]
  <2>1. /\ UNCHANGED <<queue, retries, retryCounter>> /\ arms # <<>>
        /\ pendingFor' = [pendingFor EXCEPT ![r] = k]
        /\ timers' = Schedule(Cancel(timers, {old}), k, now + RuleList[r].for)
    BY <1>13 DEF ArmFor
  <2>2. r \in ForRules
    BY <1>0, <2>1, HeadTailProperties, LenProperties, EmptySeq DEF TypeOK
  <2>3. QueuedKeys = {} /\ QueuedKeys' = {} BY <1>0, <2>1 DEF QueueInv, ArmsLast, QueuedKeys
  <2>4. DOMAIN timers' = (DOMAIN timers \ {old}) \cup {k} BY <2>1 DEF Schedule, Cancel
  <2>5. Coming = DOMAIN timers /\ Coming' = (Coming \ {old}) \cup {k} BY <2>3, <2>4 DEF Coming
  <2>6. /\ pendingFor'[r] = k
        /\ \A s \in ForRules \ {r} : pendingFor'[s] = pendingFor[s]
    BY <1>0, <2>1, <2>2 DEF TypeOK
  <2>7. IsForKey(k) BY DEF IsForKey, ForKey
  <2>8. old = NONE \/ IsForKey(old) BY <1>0, <2>2, WaitedShape
  <2> HIDE DEF k, r, old
  <2>9. \A j \in Coming' : IsForKey(j) => \E s \in ForRules : pendingFor'[s] = j
    <3> SUFFICES ASSUME NEW j \in Coming', IsForKey(j), j # k PROVE \E s \in ForRules : pendingFor'[s] = j
      BY <2>2, <2>6
    <3>1. j \in Coming /\ j # old BY <2>5
    <3>2. PICK s \in ForRules : pendingFor[s] = j BY <1>0, <3>1 DEF KeysInv
    <3>3. s # r BY <3>1, <3>2 DEF old
    <3>4. QED BY <2>6, <3>2, <3>3
  <2>10. \A s \in ForRules : pendingFor'[s] # NONE => pendingFor'[s] \in Coming'
    <3> SUFFICES ASSUME NEW s \in ForRules, s # r, pendingFor'[s] # NONE PROVE pendingFor'[s] \in Coming'
      BY <2>5, <2>6
    <3>1. pendingFor'[s] = pendingFor[s] BY <2>6
    <3>2. pendingFor[s] # old BY <1>0, <2>2, <3>1 DEF KeysOwned, old
    <3>3. QED BY <1>0, <2>5, <3>1, <3>2 DEF KeysInv
  <2>11. \A j \in Coming' : j[1] = "retry" => j \in DOMAIN retries'
    <3> SUFFICES ASSUME NEW j \in Coming', j[1] = "retry" PROVE j \in DOMAIN retries BY <2>1
    <3>1. j # k BY <2>7 DEF IsForKey
    <3>2. QED BY <1>0, <2>5, <3>1 DEF KeysInv
  <2>12. DOMAIN retries' \subseteq Coming'
    <3> SUFFICES ASSUME NEW j \in DOMAIN retries PROVE j \in Coming' BY <2>1
    <3>1. j \in Coming /\ ~IsForKey(j) BY <1>0, WaitedShape DEF KeysInv
    <3>2. j \in Key BY <1>0 DEF TypeOK
    <3>3. j # old BY <2>8, <3>1, <3>2, EngineAssumption
    <3>4. QED BY <2>5, <3>1, <3>3
  <2>13. \A j \in DOMAIN retries' : /\ \E n \in 1..retryCounter' : j = RetryKey(n)
                                    /\ retries'[j].attempt \in 2..MaxAttempts
    BY <1>0, <2>1 DEF KeysInv
  <2>14. QED BY <2>3, <2>9, <2>10, <2>11, <2>12, <2>13 DEF KeysInv, Generated, IsForKey
<1>14. CASE SetTimer
  <2>1. Command \in Cmd BY <1>14, <1>0, CallType DEF SetTimer, NextCall
  <2>2. Command.op \in {"schedule", "cancel"} BY <1>14 DEF SetTimer, NextCall, Command, Call
  <2>3. Command.key \in UserTimers BY <2>1, <2>2 DEF Cmd, DeviceCmd
  <2>4. ~Generated(Command.key) BY <2>3, KeyAssumption DEF Generated
  <2>5. \A k : Generated(k) => (k \in DOMAIN timers' <=> k \in DOMAIN timers)
    BY <1>14, <2>4 DEF SetTimer, Schedule, Cancel
  <2>6. UNCHANGED <<queue, pendingFor, retries, retryCounter>> BY <1>14 DEF SetTimer, NextCall
  <2>7. QueuedKeys' = QueuedKeys BY <2>6 DEF QueuedKeys
  <2>8. QED BY <1>0, <2>5, <2>6, <2>7, KeysStill
<1>15. CASE DispatchOk
  <2>1. Call.depth + 1 \in Nat /\ Command \in DeviceCmd
    BY <1>15, <1>0, CallType DEF DispatchOk, NextCall, Command, Call
  <2> DEFINE ev == [type |-> "report", cell |-> Command.cell, value |-> Command.value]
  <2>2. Command.op = "set" => ev \in Event BY <2>1 DEF DeviceCmd, Event, Report
  <2>3. ev.type # "elapsed" OBVIOUS
  <2>4. UNCHANGED queue \/ (Command.op = "set" /\ queue' = Enqueued(queue, ev, Call.depth + 1))
    BY <1>15 DEF DispatchOk
  <2>5. UNCHANGED <<timers, pendingFor, retries, retryCounter>> BY <1>15 DEF DispatchOk, NextCall
  <2> HIDE DEF ev
  <2>6. QueuedKeys' = QueuedKeys
    <3>1. CASE UNCHANGED queue BY <3>1 DEF QueuedKeys
    <3>2. CASE Command.op = "set" /\ queue' = Enqueued(queue, ev, Call.depth + 1)
      BY <1>0, <2>1, <2>2, <2>3, <3>2, OwnAppend DEF QueueInv
    <3>3. QED BY <2>4, <3>1, <3>2
  <2>7. QED BY <1>1, <2>5, <2>6
<1>16. ASSUME NextCall(DeviceOps), GiveUp PROVE KeysInv'
  <2>1. Call.depth + 1 \in Nat /\ Command \in DeviceCmd
    BY <1>16, <1>0, CallType DEF NextCall, Command, Call
  <2> DEFINE ev == [type |-> "failed", cmd |-> Command]
  <2>2. ev \in Event BY <2>1 DEF Event
  <2>3. ev.type # "elapsed" OBVIOUS
  <2>4. queue' = Enqueued(queue, ev, Call.depth + 1) BY <1>16 DEF GiveUp
  <2>5. UNCHANGED <<timers, pendingFor, retries, retryCounter>> BY <1>16 DEF GiveUp, NextCall
  <2> HIDE DEF ev
  <2>6. QueuedKeys' = QueuedKeys BY <1>0, <2>1, <2>2, <2>3, <2>4, OwnAppend DEF QueueInv
  <2>7. QED BY <1>1, <2>5, <2>6
<1>17. ASSUME NextCall(DeviceOps), Call.attempt < MaxAttempts, ScheduleRetry PROVE KeysInv'
  <2> DEFINE k == RetryKey(retryCounter + 1)
  <2>1. /\ UNCHANGED <<queue, pendingFor>> /\ retryCounter' = retryCounter + 1
        /\ retries' = [j \in DOMAIN retries \cup {k} |->
                         IF j = k THEN [cmd |-> Command, attempt |-> Call.attempt + 1] ELSE retries[j]]
        /\ timers' = Schedule(timers, k, now + Backoff(Call.attempt))
    BY <1>17 DEF ScheduleRetry, NextCall
  <2>2. Call.attempt \in Nat \ {0} BY <1>17, <1>0, CallType DEF NextCall
  <2>3. QueuedKeys' = QueuedKeys BY <2>1 DEF QueuedKeys
  <2>4. DOMAIN timers' = DOMAIN timers \cup {k} BY <2>1 DEF Schedule
  <2>5. Coming' = Coming \cup {k} BY <2>3, <2>4 DEF Coming
  <2>6. k \notin DOMAIN retries BY <1>0, <1>a DEF KeysInv, RetryKey
  <2>7. k[1] = "retry" /\ ~IsForKey(k) BY DEF RetryKey, IsForKey
  <2>8. k \notin QueuedKeys BY <1>0, <2>6, <2>7 DEF KeysInv, Coming
  <2>9. retries'[k].attempt \in 2..MaxAttempts BY <1>17, <1>a, <2>1, <2>2
  <2>10. DOMAIN retries' = DOMAIN retries \cup {k} /\ \A j \in DOMAIN retries : retries'[j] = retries[j]
    BY <2>1, <2>6
  <2>11. \A j \in DOMAIN timers' \cap QueuedKeys' : ~Generated(j) BY <1>0, <2>3, <2>4, <2>8 DEF KeysInv
  <2>12. \A j \in Coming' : IsForKey(j) => \E r \in ForRules : pendingFor'[r] = j
    BY <1>0, <2>1, <2>5, <2>7 DEF KeysInv
  <2>13. \A r \in ForRules : pendingFor'[r] # NONE => pendingFor'[r] \in Coming'
    BY <1>0, <2>1, <2>5 DEF KeysInv
  <2>14. \A j \in Coming' : j[1] = "retry" => j \in DOMAIN retries' BY <1>0, <2>5, <2>10 DEF KeysInv
  <2>15. DOMAIN retries' \subseteq Coming' BY <1>0, <2>5, <2>10 DEF KeysInv
  <2>16. \A j \in DOMAIN retries' : \E n \in 1..retryCounter' : j = RetryKey(n)
    BY <1>0, <1>a, <2>1, <2>10 DEF KeysInv
  <2>17. \A j \in DOMAIN retries' : retries'[j].attempt \in 2..MaxAttempts
    BY <1>0, <2>9, <2>10 DEF KeysInv
  <2>18. QED BY <2>11, <2>12, <2>13, <2>14, <2>15, <2>16, <2>17 DEF KeysInv, Generated, IsForKey
<1>18. CASE DispatchTransient \/ DispatchPermanent
  BY <1>18, <1>16, <1>17 DEF DispatchTransient, DispatchPermanent
<1>19. ASSUME NEW dt \in TimeSteps, Advance(dt) PROVE KeysInv'
  BY <1>19, <1>2 DEF Advance
<1>20. CASE SchedulerTicked \/ TickDone \/ Quiesce \/ ConsiderRule \/ ExpandScene \/ UNCHANGED vars
  BY <1>20, <1>2 DEF SchedulerTicked, TickDone, Quiesce, ConsiderRule, ExpandScene, NextCall, vars, loopVars
<1>21. QED
  BY <1>3, <1>4, <1>7, <1>8, <1>9, <1>10, <1>11, <1>12, <1>13, <1>14, <1>15, <1>18, <1>19, <1>20
  DEF Next, Host, Tick, Drain

-----------------------------------------------------------------------------
LEMMA OwnedInit == Init => OwnedInv
<1> SUFFICES ASSUME Init PROVE OwnedInv OBVIOUS
<1>1. QueueInv BY DEF Init, QueueInv, ElapsedFirst, OnceQueued, SchedFirst, ArmsLast, QueuedKeys
<1>2. KeysInv BY DEF Init, KeysInv, Coming, QueuedKeys
<1>3. MirrorInv BY InitType DEF Init, MirrorInv, OnlyAhead, IdleEmpty, Inside
<1>4. QED BY <1>1, <1>2, <1>3, PromiseInit DEF OwnedInv

LEMMA OwnedStep == OwnedInv /\ [Next]_vars => OwnedInv'
BY PromiseStep, MirrorStep, QueueStep, KeysStep DEF OwnedInv

(* A generated key that will come back comes back once.                    *)
LEMMA ComesOnce ==
  ASSUME OwnedInv, NEW k \in Coming, Generated(k) PROVE WillElapseOnce(k)
<1>0. TypeOK /\ OnceQueued /\ KeysInv BY DEF OwnedInv, PromiseInv, SustainedInv, QueueInv
<1>1. \A i \in DOMAIN queue : queue[i].ev = Elapsed(k) => IsElapsed(queue[i]) /\ queue[i].ev.key = k
  BY DEF Elapsed, IsElapsed
<1>2. ASSUME NEW i \in DOMAIN queue, IsElapsed(queue[i]) PROVE queue[i].ev = Elapsed(queue[i].ev.key)
  <2>1. queue[i].ev \in Event
    <3>1. queue \in Seq(Entry) BY <1>0 DEF TypeOK
    <3>2. queue[i] \in Entry BY <3>1, ElementOfSeq, LenProperties
    <3>3. QED BY <3>2 DEF Entry
  <2>2. queue[i].ev \in [type : {"elapsed"}, key : Key]
    BY <1>2, <2>1, InputAssumption DEF Event, Report, IsElapsed
  <2>3. QED BY <2>2 DEF Elapsed
<1>3. CASE k \in DOMAIN timers
  <2>1. k \notin QueuedKeys BY <1>0, <1>3 DEF KeysInv
  <2>2. \A i \in DOMAIN queue : queue[i].ev # Elapsed(k) BY <1>1, <2>1, QueuedMember
  <2>3. QED BY <1>3, <2>2 DEF WillElapseOnce, QueuedElapsed
<1>4. CASE k \notin DOMAIN timers
  <2>1. k \in QueuedKeys BY <1>4 DEF Coming
  <2>2. PICK i \in DOMAIN queue : IsElapsed(queue[i]) /\ queue[i].ev.key = k
    BY <2>1 DEF QueuedKeys, IsElapsed
  <2>3. queue[i].ev = Elapsed(k) BY <1>2, <2>2
  <2>4. \A j \in DOMAIN queue : queue[j].ev = Elapsed(k) => j = i BY <1>0, <1>1, <2>2 DEF OnceQueued
  <2>5. QueuedElapsed(k) = {i} BY <2>3, <2>4 DEF QueuedElapsed
  <2>6. QED BY <1>4, <2>5 DEF WillElapseOnce
<1>5. QED BY <1>3, <1>4

(* In every configuration the rules that wait and the timers that will     *)
(* elapse are matched one to one: arm_for_timer, the cancellation when a   *)
(* report ends the predicate and fire_elapsed_for keep pending_for and the *)
(* scheduler in step, through the queue.                                   *)
THEOREM OwnersCorrect == Spec => []ForTimersOwned
<1>1. OwnedInv => ForTimersOwned
  <2> SUFFICES ASSUME OwnedInv PROVE ForTimersOwned OBVIOUS
  <2>1. KeysOwned /\ KeysInv BY DEF OwnedInv, PromiseInv
  <2>2. \A r \in ForRules : pendingFor[r] # NONE => WillElapseOnce(pendingFor[r])
    BY <2>1, WaitedShape, ComesOnce DEF KeysInv
  <2>3. \A r, s \in ForRules : pendingFor[r] = pendingFor[s] /\ pendingFor[r] # NONE => r = s
    BY <2>1 DEF KeysOwned
  <2>4. \A k \in DOMAIN timers \cup QueuedKeys : IsForKey(k) => \E r \in ForRules : pendingFor[r] = k
    BY <2>1 DEF KeysInv, Coming
  <2>5. QED BY <2>2, <2>3, <2>4 DEF ForTimersOwned
<1>2. QED BY <1>1, OwnedInit, OwnedStep, PTL DEF Spec

(* In every configuration a command that waits for its next attempt is     *)
(* brought back by exactly one timer, is at most at its last attempt, and  *)
(* no retry timer elapses without a command.                               *)
THEOREM RetriesCorrect == Spec => []RetriesOwned
<1>1. OwnedInv => RetriesOwned
  <2> SUFFICES ASSUME OwnedInv PROVE RetriesOwned OBVIOUS
  <2>1. KeysOwned /\ KeysInv BY DEF OwnedInv, PromiseInv
  <2>2. \A k \in DOMAIN retries : WillElapseOnce(k) BY <2>1, WaitedShape, ComesOnce DEF KeysInv
  <2>3. QED BY <2>1, <2>2 DEF RetriesOwned, KeysInv, Coming
<1>2. QED BY <1>1, OwnedInit, OwnedStep, PTL DEF Spec
=============================================================================
