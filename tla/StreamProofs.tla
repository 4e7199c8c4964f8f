---------------------------- MODULE StreamProofs ----------------------------
(***************************************************************************)
(* Proofs about the event stream, for every number of connections, of      *)
(* capabilities and of frames, and every queue capacity: slots and         *)
(* registrations are given back, no writer sleeps on a frame, and a client *)
(* that was not told it lags believes what the mirror says.                *)
(***************************************************************************)
EXTENDS StreamProperties, SequenceTheorems, FiniteSetTheorems, TLAPS

-----------------------------------------------------------------------------
(* The invariant *)

(* The registry holds the connections between the two steps that enter     *)
(* them and take them out, a batch exists only while it is written, and    *)
(* only what has a place in the mirror is on its way there.                *)
Registered == {"counting", "snapshot", "loop", "checked", "waiting", "writing", "leaving"}

Structure ==
  /\ DOMAIN subs = {c \in Conns : pc[c] \in Registered}
  /\ \A c \in Conns : pc[c] # "writing" => batch[c] = NoBatch
  /\ fold # NONE /\ fold.step = "mirror" => fold.frame.cell # NONE

(* What the mirror will say of a capability once the fold is done.         *)
Folding(x) == fold # NONE /\ fold.frame.cell = x
Expected(x) == IF Folding(x) THEN fold.frame.value ELSE mirror[x]

Lagging(c) == c \in told \/ subs[c].lagged \/ batch[c].lagged

Unread(c) == IF pc[c] = "counting" THEN Cells ELSE IF pc[c] = "snapshot" THEN toRead[c] ELSE {}

(* Read through to the end of its queue, a client believes what the mirror *)
(* will say; and as long as its snapshot is built, a fold under way is in  *)
(* its queue.                                                              *)
Current(c, x) ==
  /\ pc[c] \in {"counting", "snapshot"} /\ Folding(x) => LastAbout(x, subs[c].queue) # {}
  /\ LastAbout(x, subs[c].queue) # {} \/ x \notin Unread(c) =>
       Newest(x, subs[c].queue, Newest(x, batch[c].frames, view[c][x])) = Expected(x)

Synced ==
  \A c \in Conns : pc[c] \in Registered \ {"leaving"} /\ ~Lagging(c) =>
    \A x \in Cells \ overtaken[c] : Current(c, x)

-----------------------------------------------------------------------------
(* Slots *)

LEMMA Frames == \A f \in Frame : f.cell \in Cells \cup {NONE}
BY DEF Frame

LEMMA CardinalityOfConns ==
  /\ Cardinality(Conns) \in Nat
  /\ \A S \in SUBSET Conns : IsFiniteSet(S) /\ Cardinality(S) \in 0..Cardinality(Conns)
<1>1. IsFiniteSet(Conns)
  BY StreamAssumption
<1>2. QED
  BY <1>1, FS_CardinalityType, FS_Subset

Slots == live = Cardinality(Open)

(* Who is open changes only as a slot is taken or given back.              *)
LEMMA SlotsStep ==
  ASSUME TypeOK, Slots, [Next]_vars PROVE Slots'
<1> USE DEF Slots
<1>0. IsFiniteSet(Open)
  BY CardinalityOfConns DEF Open
<1>a. ASSUME live' = live, \A c \in Conns : pc'[c] = "closed" <=> pc[c] = "closed" PROVE Slots'
  <2>1. Open' = Open
    BY <1>a DEF Open
  <2>2. QED
    BY <2>1, <1>a
<1> USE DEF TypeOK, Streaming
<1>1. ASSUME NEW c \in Conns, Accept(c) PROVE Slots'
  <2>1. Open' = Open \cup {c} /\ c \notin Open
    BY <1>1 DEF Accept, Open
  <2>2. QED
    BY <1>0, <1>1, <2>1, FS_AddElement, FS_CardinalityType DEF Accept
<1>2. ASSUME NEW c \in Conns, Close(c) PROVE Slots'
  <2>1. Open' = Open \ {c} /\ c \in Open
    BY <1>2 DEF Close, Goto, Open
  <2>2. QED
    BY <1>0, <1>2, <2>1, FS_RemoveElement, FS_CardinalityType DEF Close
<1>3. ASSUME NEW frame \in Frame, Broadcast(frame) PROVE Slots'
  BY <1>a, <1>3 DEF Broadcast, connVars
<1>4. CASE Notify
  BY <1>a, <1>4 DEF Notify, Notified
<1>5. CASE FoldMirror
  BY <1>a, <1>5 DEF FoldMirror, connVars
<1>6. CASE Stop
  BY <1>a, <1>6 DEF Stop, Notified
<1>7. ASSUME NEW c \in Conns,
             \/ ServeRequest(c) \/ BeginStream(c) \/ Subscribe(c) \/ StoreCount(c) \/ ReadMirror(c)
             \/ WriteSnapshot(c) \/ CheckShutdown(c) \/ TakeBatch(c) \/ Wait(c) \/ WriteBatch(c)
             \/ Unsubscribe(c) \/ TimeOut(c) \/ WriteFails(c)
      PROVE  Slots'
  BY <1>a, <1>7
     DEF ServeRequest, BeginStream, Subscribe, StoreCount, ReadMirror, WriteSnapshot, CheckShutdown,
         TakeBatch, Wait, WriteBatch, Unsubscribe, TimeOut, WriteFails, Goto
<1>8. CASE UNCHANGED vars
  BY <1>a, <1>8 DEF vars, connVars
<1>9. QED
  BY <1>1, <1>2, <1>3, <1>4, <1>5, <1>6, <1>7, <1>8 DEF Next, Engine, Progress, Refuse

-----------------------------------------------------------------------------
(* Types *)

LEMMA EmptyIsSeq == <<>> \in Seq(Frame)
OBVIOUS

LEMMA PushType ==
  ASSUME NEW sub \in Mailbox, NEW frame \in Frame PROVE Push(sub, frame) \in Mailbox
<1>1. sub.queue \in Seq(Frame) /\ sub.lagged \in BOOLEAN
  BY DEF Mailbox
<1>2. Append(sub.queue, frame) \in Seq(Frame)
  BY <1>1, AppendProperties
<1>3. ASSUME Len(sub.queue) >= QueueCapacity PROVE Append(Tail(sub.queue), frame) \in Seq(Frame)
  <2>1. sub.queue # <<>>
    BY <1>1, <1>3, StreamAssumption, EmptySeq
  <2>2. Tail(sub.queue) \in Seq(Frame)
    BY <1>1, <2>1, HeadTailProperties
  <2>3. QED
    BY <2>2, AppendProperties
<1>4. QED
  BY <1>1, <1>2, <1>3 DEF Push, Mailbox

(* The last frame about a capability is there and is about it.             *)
LEMMA NewestType ==
  ASSUME NEW x \in Cells, NEW queue \in Seq(Frame), NEW v \in Values \cup {NONE}
  PROVE  Newest(x, queue, v) \in Values \cup {NONE}
<1>1. CASE LastAbout(x, queue) = {}
  BY <1>1 DEF Newest
<1>2. CASE LastAbout(x, queue) # {}
  <2> DEFINE i == CHOOSE k \in LastAbout(x, queue) : TRUE
  <2>1. i \in LastAbout(x, queue)
    BY <1>2
  <2>2. i \in 1..Len(queue) /\ queue[i].cell = x
    BY <2>1 DEF LastAbout
  <2>3. queue[i] \in Frame
    BY <2>2, ElementOfSeq
  <2>4. queue[i].value \in Values
    BY <2>2, <2>3, StreamAssumption DEF Frame
  <2>5. QED
    BY <1>2, <2>4 DEF Newest
<1>3. QED
  BY <1>1, <1>2

LEMMA SeenType ==
  ASSUME NEW queue \in Seq(Frame), NEW v \in [Cells -> Values \cup {NONE}]
  PROVE  Seen(v, queue) \in [Cells -> Values \cup {NONE}]
BY NewestType DEF Seen

LEMMA TypesInit == Init => TypeOK
<1> SUFFICES ASSUME Init PROVE TypeOK
  OBVIOUS
<1>1. 0 \in 0..Cardinality(Conns) /\ 0 \in 0..MaxConnections
  BY CardinalityOfConns, StreamAssumption
<1>2. QED
  BY <1>1, EmptyIsSeq DEF Init, TypeOK, NoView, NoBatch, Streaming

LEMMA TypesStep ==
  ASSUME TypeOK, Structure, Slots, [Next]_vars PROVE TypeOK'
<1> USE CardinalityOfConns, StreamAssumption, EmptyIsSeq
<1> USE DEF TypeOK, Fold, Streaming, connVars, engineVars
<1>1. ASSUME NEW c \in Conns, Accept(c) PROVE TypeOK'
  BY <1>1 DEF Accept
<1>2. ASSUME NEW c \in Conns, Close(c) PROVE TypeOK'
  <2>1. live' = live - 1 /\ live' = Cardinality(Open')
    BY <1>2, SlotsStep DEF Close, Slots, Next, Progress
  <2>2. Cardinality(Open') \in Nat
    BY DEF Open
  <2>3. live' \in 0..MaxConnections
    BY <2>1, <2>2
  <2>4. QED
    BY <1>2, <2>3 DEF Close, Goto
<1>3. ASSUME NEW frame \in Frame, Broadcast(frame) PROVE TypeOK'
  <2>1. subs' = [c \in DOMAIN subs |-> Push(subs[c], frame)]
    BY <1>3 DEF Broadcast
  <2>2. \A c \in DOMAIN subs' : subs'[c] \in Mailbox
    BY <2>1, PushType
  <2>3. fold' \in Fold \cup {NONE}
    BY <1>3 DEF Broadcast, AfterFrame
  <2>4. QED
    BY <1>3, <2>1, <2>2, <2>3 DEF Broadcast
<1>4. CASE Notify
  BY <1>4 DEF Notify, Notified, AfterFrame
<1>5. CASE FoldMirror
  BY <1>5, Frames DEF FoldMirror, Structure, Frame
<1>6. CASE Stop
  <2>1. signal' \in {"running", "stopping", "flagged", "notified"}
    BY <1>6, Zenon DEF Stop
  <2>2. pc' = pc \/ pc' = Notified
    BY <1>6, Zenon DEF Stop
  <2>3. UNCHANGED <<engineVars, subs, count, live, len, toRead, batch, view, told, overtaken, accepts>>
    BY <1>6, Zenon DEF Stop
  <2>4. QED
    BY <2>1, <2>2, <2>3 DEF Notified
<1>7. ASSUME NEW c \in Conns, ServeRequest(c) \/ BeginStream(c) PROVE TypeOK'
  BY <1>7 DEF ServeRequest, BeginStream, Goto
<1>8. ASSUME NEW c \in Conns, Subscribe(c) PROVE TypeOK'
  <2>1. /\ DOMAIN subs' = DOMAIN subs \cup {c}
        /\ \A d \in DOMAIN subs' : subs'[d] \in Mailbox
    BY <1>8 DEF Subscribe, Mailbox
  <2>2. Cardinality(DOMAIN subs \cup {c}) \in 0..Cardinality(Conns)
    OBVIOUS
  <2>3. pc' \in [Conns -> Streaming \cup {"closed", "reading", "closing"}]
    BY <1>8 DEF Subscribe, Goto
  <2>4. len' \in [Conns -> 0..Cardinality(Conns)] /\ overtaken' \in [Conns -> SUBSET Cells]
    BY <1>8, <2>2 DEF Subscribe
  <2>5. DOMAIN subs' \subseteq Conns
    BY <2>1
  <2>6. UNCHANGED <<fold, mirror, count, live, signal, toRead, batch, view, told>>
    BY <1>8 DEF Subscribe
  <2>7. QED
    BY <2>1, <2>3, <2>4, <2>5, <2>6
<1>9. ASSUME NEW c \in Conns, StoreCount(c) PROVE TypeOK'
  <2>1. pc' \in [Conns -> Streaming \cup {"closed", "reading", "closing"}]
    BY <1>9 DEF StoreCount, Goto
  <2>2. toRead' \in [Conns -> SUBSET Cells]
    BY <1>9 DEF StoreCount
  <2>3. count' \in 0..Cardinality(Conns) /\ len' \in [Conns -> 0..Cardinality(Conns)]
    BY <1>9 DEF StoreCount
  <2>4. UNCHANGED <<fold, mirror, subs, live, signal, batch, view, told, overtaken>>
    BY <1>9 DEF StoreCount
  <2>5. QED
    BY <2>1, <2>2, <2>3, <2>4
<1>10. ASSUME NEW c \in Conns, ReadMirror(c) PROVE TypeOK'
  BY <1>10 DEF ReadMirror
<1>11. ASSUME NEW c \in Conns, WriteSnapshot(c) \/ CheckShutdown(c) \/ Wait(c) PROVE TypeOK'
  BY <1>11 DEF WriteSnapshot, CheckShutdown, Wait, Goto
<1>12. ASSUME NEW c \in Conns, TakeBatch(c) PROVE TypeOK'
  BY <1>12 DEF TakeBatch, Goto, Mailbox, Structure, Registered
<1>13. ASSUME NEW c \in Conns, WriteBatch(c) PROVE TypeOK'
  <2>1. Seen(view[c], batch[c].frames) \in [Cells -> Values \cup {NONE}]
    BY SeenType
  <2>2. QED
    BY <1>13, <2>1 DEF WriteBatch, Goto, NoBatch
<1>14. ASSUME NEW c \in Conns, Unsubscribe(c) PROVE TypeOK'
  <2>1. Cardinality(DOMAIN subs \ {c}) \in 0..Cardinality(Conns)
    OBVIOUS
  <2>2. QED
    BY <1>14, <2>1 DEF Unsubscribe, Goto, NoView
<1>15. ASSUME NEW c \in Conns, TimeOut(c) \/ WriteFails(c) PROVE TypeOK'
  <2>1. pc' \in [Conns -> Streaming \cup {"closed", "reading", "closing"}]
    BY <1>15 DEF TimeOut, WriteFails, Goto
  <2>2. toRead' \in [Conns -> SUBSET Cells]
    BY <1>15 DEF TimeOut, WriteFails
  <2>3. NoBatch \in [frames : Seq(Frame), lagged : BOOLEAN]
    BY DEF NoBatch
  <2>4. batch' \in [Conns -> [frames : Seq(Frame), lagged : BOOLEAN]]
    BY <1>15, <2>3 DEF TimeOut, WriteFails
  <2>5. UNCHANGED <<engineVars, subs, count, live, signal, len, view, told, overtaken>>
    BY <1>15 DEF TimeOut, WriteFails
  <2>6. QED
    BY <2>1, <2>2, <2>4, <2>5
<1>16. CASE UNCHANGED vars
  BY <1>16 DEF vars
<1>17. QED
  BY <1>1, <1>2, <1>3, <1>4, <1>5, <1>6, <1>7, <1>8, <1>9, <1>10, <1>11, <1>12, <1>13, <1>14, <1>15,
     <1>16 DEF Next, Engine, Progress, Refuse

-----------------------------------------------------------------------------
(* The registry *)

LEMMA StructureStep ==
  ASSUME TypeOK, Structure, [Next]_vars PROVE Structure'
<1> USE DEF Structure, Registered, connVars, engineVars
<1> USE DEF TypeOK, Fold
<1>1. ASSUME NEW frame \in Frame, Broadcast(frame) PROVE Structure'
  BY <1>1 DEF Broadcast, AfterFrame
<1>2. CASE Notify
  BY <1>2 DEF Notify, Notified, AfterFrame
<1>3. CASE FoldMirror
  BY <1>3 DEF FoldMirror
<1>4. CASE Stop
  <2>1. (pc' = pc \/ pc' = Notified) /\ UNCHANGED <<fold, subs, batch>>
    BY <1>4, Zenon DEF Stop
  <2>2. QED
    BY <2>1 DEF Notified
<1>5. ASSUME NEW c \in Conns, Accept(c) \/ Close(c) PROVE Structure'
  BY <1>5 DEF Accept, Close, Goto
<1>6. ASSUME NEW c \in Conns, ServeRequest(c) \/ BeginStream(c) \/ StoreCount(c) PROVE Structure'
  BY <1>6 DEF ServeRequest, BeginStream, StoreCount, Goto
<1>7. ASSUME NEW c \in Conns, Subscribe(c) PROVE Structure'
  BY <1>7 DEF Subscribe, Goto
<1>8. ASSUME NEW c \in Conns, ReadMirror(c) \/ WriteSnapshot(c) \/ CheckShutdown(c) \/ Wait(c)
      PROVE  Structure'
  BY <1>8 DEF ReadMirror, WriteSnapshot, CheckShutdown, Wait, Goto
<1>9. ASSUME NEW c \in Conns, TakeBatch(c) PROVE Structure'
  BY <1>9 DEF TakeBatch, Goto
<1>10. ASSUME NEW c \in Conns, TimeOut(c) \/ WriteBatch(c) \/ WriteFails(c) PROVE Structure'
  <2>1. CASE TimeOut(c)
    BY <2>1 DEF TimeOut, Goto
  <2>2. CASE WriteBatch(c)
    BY <2>2 DEF WriteBatch, Goto
  <2>3. CASE WriteFails(c)
    BY <2>3 DEF WriteFails, Goto
  <2>4. QED
    BY <1>10, <2>1, <2>2, <2>3
<1>11. ASSUME NEW c \in Conns, Unsubscribe(c) PROVE Structure'
  BY <1>11 DEF Unsubscribe, Goto
<1>12. CASE UNCHANGED vars
  BY <1>12 DEF vars
<1>13. QED
  BY <1>1, <1>2, <1>3, <1>4, <1>5, <1>6, <1>7, <1>8, <1>9, <1>10, <1>11, <1>12
     DEF Next, Engine, Progress, Refuse

(* A queue grows only by a broadcast, which then has everyone to notify;   *)
(* whoever waits found an empty queue, and the notification comes before   *)
(* the next broadcast.                                                     *)
LEMMA AwakeStep ==
  ASSUME TypeOK, Structure, NoSleepOnFrames, [Next]_vars PROVE NoSleepOnFrames'
<1> USE DEF NoSleepOnFrames, connVars, engineVars, Structure, Registered
<1> USE DEF TypeOK, Fold
<1>1. ASSUME NEW frame \in Frame, Broadcast(frame) PROVE NoSleepOnFrames'
  <2>1. ASSUME NEW c \in Conns, pc'[c] = "waiting" PROVE fold' = [frame |-> frame, step |-> "notify"]
    <3>1. c \in DOMAIN subs
      BY <1>1, <2>1 DEF Broadcast
    <3>2. QED
      BY <1>1, <3>1 DEF Broadcast
  <2>2. QED
    BY <2>1, StreamAssumption DEF Fold
<1>2. CASE Notify
  BY <1>2 DEF Notify, Notified
<1>3. CASE FoldMirror
  BY <1>3 DEF FoldMirror
<1>4. CASE Stop
  <2>1. (pc' = pc \/ pc' = Notified) /\ UNCHANGED <<fold, subs, batch>>
    BY <1>4, Zenon DEF Stop
  <2>2. QED
    BY <2>1 DEF Notified
<1>5. ASSUME NEW c \in Conns, Accept(c) \/ Close(c) PROVE NoSleepOnFrames'
  BY <1>5 DEF Accept, Close, Goto
<1>6. ASSUME NEW c \in Conns, ServeRequest(c) \/ BeginStream(c) \/ StoreCount(c) PROVE NoSleepOnFrames'
  BY <1>6 DEF ServeRequest, BeginStream, StoreCount, Goto
<1>7. ASSUME NEW c \in Conns, Subscribe(c) PROVE NoSleepOnFrames'
  <2>1. ASSUME NEW d \in Conns, pc'[d] = "waiting" PROVE pc[d] = "waiting" /\ subs'[d] = subs[d]
    BY <1>7, <2>1 DEF Subscribe, Goto
  <2>2. QED
    BY <1>7, <2>1 DEF Subscribe
<1>8. ASSUME NEW c \in Conns, ReadMirror(c) \/ WriteSnapshot(c) \/ CheckShutdown(c) \/ Wait(c)
      PROVE  NoSleepOnFrames'
  BY <1>8 DEF ReadMirror, WriteSnapshot, CheckShutdown, Wait, Goto
<1>9. ASSUME NEW c \in Conns, TakeBatch(c) PROVE NoSleepOnFrames'
  BY <1>9 DEF TakeBatch, Goto
<1>10. ASSUME NEW c \in Conns, TimeOut(c) \/ WriteBatch(c) \/ WriteFails(c) PROVE NoSleepOnFrames'
  <2>1. ASSUME NEW d \in Conns, pc'[d] = "waiting" PROVE pc[d] = "waiting"
    BY <1>10, <2>1 DEF TimeOut, WriteBatch, WriteFails, Goto
  <2>2. UNCHANGED <<subs, fold>>
    BY <1>10 DEF TimeOut, WriteBatch, WriteFails
  <2>3. QED
    BY <2>1, <2>2
<1>11. ASSUME NEW c \in Conns, Unsubscribe(c) PROVE NoSleepOnFrames'
  BY <1>11 DEF Unsubscribe, Goto
<1>12. CASE UNCHANGED vars
  BY <1>12 DEF vars
<1>13. QED
  BY <1>1, <1>2, <1>3, <1>4, <1>5, <1>6, <1>7, <1>8, <1>9, <1>10, <1>11, <1>12
     DEF Next, Engine, Progress, Refuse

-----------------------------------------------------------------------------
(* Clients *)

LEMMA NewestOfNone ==
  ASSUME NEW x, NEW v PROVE LastAbout(x, <<>>) = {} /\ Newest(x, <<>>, v) = v
BY DEF LastAbout, Newest

(* There is at most one last frame about a capability.                     *)
LEMMA NewestIsLast ==
  ASSUME NEW x, NEW queue \in Seq(Frame), NEW i \in LastAbout(x, queue), NEW v
  PROVE  Newest(x, queue, v) = queue[i].value
<1>1. Len(queue) \in Nat
  BY LenProperties
<1>2. \A j, k \in LastAbout(x, queue) : j = k
  BY <1>1 DEF LastAbout
<1>3. QED
  BY <1>2 DEF Newest

(* A frame about the capability is the newest about it ...                 *)
LEMMA NewestPushed ==
  ASSUME NEW x \in Cells, NEW queue \in Seq(Frame), NEW frame \in Frame, frame.cell = x, NEW v
  PROVE  LastAbout(x, Append(queue, frame)) # {} /\ Newest(x, Append(queue, frame), v) = frame.value
<1> DEFINE longer == Append(queue, frame)
           n == Len(queue) + 1
<1>1. /\ Len(longer) = n /\ longer[n] = frame /\ n \in Nat /\ Len(queue) \in Nat
      /\ \A i \in 1..Len(queue) : longer[i] = queue[i]
  BY AppendProperties, LenProperties
<1>2. n \in LastAbout(x, longer)
  BY <1>1 DEF LastAbout
<1>3. longer \in Seq(Frame)
  BY AppendProperties
<1>4. Newest(x, longer, v) = longer[n].value
  <2> HIDE DEF longer, n
  <2>1. QED
    BY <1>2, <1>3, NewestIsLast
<1>5. QED
  BY <1>1, <1>2, <1>4

(* ... and one about anything else changes nothing.                        *)
LEMMA NewestKeptByOthers ==
  ASSUME NEW x \in Cells, NEW queue \in Seq(Frame), NEW frame \in Frame, frame.cell # x, NEW v
  PROVE  /\ LastAbout(x, Append(queue, frame)) = LastAbout(x, queue)
         /\ Newest(x, Append(queue, frame), v) = Newest(x, queue, v)
<1> DEFINE longer == Append(queue, frame)
           n == Len(queue) + 1
<1>1. /\ Len(longer) = n /\ longer[n] = frame /\ n \in Nat /\ Len(queue) \in Nat
      /\ \A i \in 1..Len(queue) : longer[i] = queue[i]
  BY AppendProperties, LenProperties
<1>2. LastAbout(x, longer) = LastAbout(x, queue)
  <2>1. ASSUME NEW i \in LastAbout(x, longer) PROVE i \in LastAbout(x, queue)
    BY <1>1, <2>1 DEF LastAbout
  <2>2. ASSUME NEW i \in LastAbout(x, queue) PROVE i \in LastAbout(x, longer)
    BY <1>1, <2>2 DEF LastAbout
  <2>3. QED
    BY <2>1, <2>2
<1>3. \A i \in LastAbout(x, queue) : longer[i] = queue[i]
  BY <1>1 DEF LastAbout
<1>4. CASE LastAbout(x, queue) = {}
  BY <1>2, <1>4 DEF Newest
<1>5. CASE LastAbout(x, queue) # {}
  <2>1. PICK i \in LastAbout(x, queue) : TRUE
    BY <1>5
  <2>2. longer \in Seq(Frame) /\ i \in LastAbout(x, longer)
    BY <1>2, AppendProperties
  <2>3. Newest(x, longer, v) = longer[i].value
    BY <2>2, NewestIsLast
  <2>4. Newest(x, queue, v) = queue[i].value
    BY <2>1, NewestIsLast
  <2>5. QED
    BY <1>2, <1>3, <2>1, <2>3, <2>4
<1>6. QED
  BY <1>4, <1>5

(* The steps that keep what a client has read, is writing and has queued,  *)
(* and what it should believe, keep Current.                               *)
LEMMA CurrentKept ==
  ASSUME NEW c \in Conns, NEW x \in Cells, Current(c, x),
         subs'[c] = subs[c], batch'[c] = batch[c], view'[c] = view[c], Unread(c)' = Unread(c),
         Expected(x)' = Expected(x), Folding(x)' => Folding(x),
         pc'[c] \in {"counting", "snapshot"} => pc[c] \in {"counting", "snapshot"}
  PROVE  Current(c, x)'
BY DEF Current

(* A broadcast reaches every subscriber that is not flagged as lagging.    *)
LEMMA CurrentBroadcast ==
  ASSUME TypeOK, Structure, NEW frame \in Frame, Broadcast(frame),
         NEW c \in Conns, pc[c] \in Registered, ~subs'[c].lagged,
         NEW x \in Cells, x = frame.cell \/ Current(c, x)
  PROVE  Current(c, x)'
<1>1. subs[c] \in Mailbox /\ subs'[c] = Push(subs[c], frame)
  BY DEF TypeOK, Structure, Broadcast
<1>2. /\ subs[c].queue \in Seq(Frame)
      /\ subs'[c].queue = Append(subs[c].queue, frame)
  BY <1>1 DEF Push, Mailbox
<1>3. /\ fold = NONE
      /\ fold' # NONE /\ fold'.frame = frame
  BY StreamAssumption DEF Broadcast, Structure, Fold
<1>4. UNCHANGED <<mirror, pc, toRead, batch, view>>
  BY DEF Broadcast, connVars
<1>5. CASE x = frame.cell
  <2>1. \A v : /\ LastAbout(x, subs'[c].queue) # {}
                /\ Newest(x, subs'[c].queue, v) = frame.value
    <3>1. \A v : /\ LastAbout(x, Append(subs[c].queue, frame)) # {}
                 /\ Newest(x, Append(subs[c].queue, frame), v) = frame.value
      BY <1>2, <1>5, NewestPushed
    <3>2. QED
      BY <1>2, <3>1
  <2>2. Expected(x)' = frame.value
    BY <1>3, <1>5 DEF Folding, Expected
  <2>3. QED
    BY <1>4, <2>1, <2>2 DEF Current
<1>6. CASE x # frame.cell
  <2>1. Current(c, x)
    BY <1>6
  <2>2. ~Folding(x) /\ ~Folding(x)' /\ Expected(x)' = Expected(x)
    BY <1>3, <1>4, <1>6 DEF Folding, Expected
  <2>3. Unread(c)' = Unread(c)
    BY <1>4 DEF Unread
  <2>4. QED
    BY <1>2, <1>4, <1>6, <2>1, <2>2, <2>3, NewestKeptByOthers DEF Current
<1>7. QED
  BY <1>5, <1>6

(* A step of the other connections, of the engine between two frames or of *)
(* the signal thread.                                                      *)
Undisturbed(c) ==
  /\ subs'[c] = subs[c] /\ batch'[c] = batch[c] /\ view'[c] = view[c]
  /\ overtaken'[c] = overtaken[c] /\ (c \in told' <=> c \in told)
  /\ \/ pc'[c] = pc[c] /\ toRead'[c] = toRead[c]
     \/ pc[c] \in Registered \ {"counting", "snapshot", "leaving"}
        /\ pc'[c] \notin {"counting", "snapshot"}

LEMMA SyncedUndisturbed ==
  ASSUME Synced, NEW c \in Conns, Undisturbed(c),
         \A x \in Cells : Expected(x)' = Expected(x) /\ (Folding(x)' => Folding(x)),
         pc'[c] \in Registered \ {"leaving"}, ~Lagging(c)',
         NEW x \in Cells \ overtaken'[c]
  PROVE  Current(c, x)'
<1>1. pc[c] \in Registered \ {"leaving"} /\ ~Lagging(c) /\ x \notin overtaken[c]
  BY DEF Undisturbed, Lagging
<1>2. Current(c, x)
  BY <1>1 DEF Synced
<1>3. Unread(c)' = Unread(c)
  BY DEF Undisturbed, Unread
<1>4. QED
  BY <1>2, <1>3, CurrentKept DEF Undisturbed

LEMMA ExpectedKept ==
  ASSUME fold' = fold, mirror' = mirror
  PROVE  \A x \in Cells : Expected(x)' = Expected(x) /\ (Folding(x)' => Folding(x))
BY DEF Expected, Folding

LEMMA ExpectedNotify ==
  ASSUME TypeOK, Notify
  PROVE  \A x \in Cells : Expected(x)' = Expected(x) /\ (Folding(x)' => Folding(x))
<1>1. fold \in Fold /\ mirror' = mirror
  BY DEF Notify, TypeOK
<1>2. fold.frame \in Frame
  BY <1>1 DEF Fold
<1>3. CASE fold.frame.cell = NONE
  <2>1. fold' = NONE
    BY <1>3 DEF Notify, AfterFrame
  <2>2. QED
    BY <1>1, <1>3, <2>1, StreamAssumption DEF Expected, Folding
<1>4. CASE fold.frame.cell # NONE
  <2>1. fold' = [frame |-> fold.frame, step |-> "mirror"]
    BY <1>4 DEF Notify, AfterFrame
  <2>2. fold' # NONE /\ fold'.frame = fold.frame /\ fold # NONE
    BY <1>1, <1>2, <2>1, StreamAssumption DEF Fold, Notify
  <2>3. QED
    BY <1>1, <2>2 DEF Expected, Folding
<1>5. QED
  BY <1>3, <1>4

LEMMA ExpectedFold ==
  ASSUME TypeOK, FoldMirror
  PROVE  \A x \in Cells : Expected(x)' = Expected(x) /\ (Folding(x)' => Folding(x))
<1> SUFFICES ASSUME NEW x \in Cells
             PROVE  Expected(x)' = Expected(x) /\ (Folding(x)' => Folding(x))
  OBVIOUS
<1>1. fold # NONE /\ fold' = NONE /\ mirror' = [mirror EXCEPT ![fold.frame.cell] = fold.frame.value]
  BY DEF FoldMirror
<1>2. mirror'[x] = IF fold.frame.cell = x THEN fold.frame.value ELSE mirror[x]
  BY <1>1 DEF TypeOK
<1>3. QED
  BY <1>1, <1>2 DEF Expected, Folding

(* A capability is read from the mirror while its fold, if one is under    *)
(* way, is in the queue behind it.                                         *)
LEMMA CurrentRead ==
  ASSUME TypeOK, Structure, NEW c \in Conns, ReadMirror(c), NEW x \in Cells, Current(c, x)
  PROVE  Current(c, x)'
<1>1. PICK y \in toRead[c] : /\ view' = [view EXCEPT ![c][y] = mirror[y]]
                             /\ toRead' = [toRead EXCEPT ![c] = @ \ {y}]
  BY DEF ReadMirror
<1>2. pc[c] = "snapshot" /\ UNCHANGED <<fold, mirror, subs, pc, batch>>
  BY DEF ReadMirror, engineVars
<1>3. Expected(x)' = Expected(x) /\ (Folding(x)' <=> Folding(x))
  BY <1>2 DEF Expected, Folding
<1>4. batch[c].frames = <<>>
  BY <1>2 DEF Structure, NoBatch
<1>5. view'[c][x] = IF x = y THEN mirror[x] ELSE view[c][x]
  BY <1>1 DEF TypeOK
<1>6. Unread(c) = toRead[c] /\ Unread(c)' = toRead[c] \ {y}
  BY <1>1, <1>2 DEF Unread, TypeOK
<1>7. CASE LastAbout(x, subs[c].queue) # {}
  <2>1. \A v, w : Newest(x, subs[c].queue, v) = Newest(x, subs[c].queue, w)
    BY <1>7 DEF Newest
  <2>2. QED
    BY <1>2, <1>3, <1>7, <2>1 DEF Current
<1>8. CASE LastAbout(x, subs[c].queue) = {}
  <2>1. \A v : Newest(x, subs[c].queue, Newest(x, batch[c].frames, v)) = v
    BY <1>4, <1>8, NewestOfNone DEF Newest
  <2>2. x = y => Expected(x) = mirror[x]
    BY <1>2, <1>8 DEF Current, Expected
  <2>3. x # y /\ x \notin Unread(c)' => view[c][x] = Expected(x)
    BY <1>6, <1>8, <2>1 DEF Current
  <2>4. x \notin Unread(c)' => view'[c][x] = Expected(x)
    BY <1>5, <2>2, <2>3
  <2>5. QED
    BY <1>2, <1>3, <1>8, <2>1, <2>4 DEF Current
<1>9. QED
  BY <1>7, <1>8

(* A batch moves from the queue to the writer and on to the client.        *)
LEMMA CurrentTake ==
  ASSUME TypeOK, Structure, NEW c \in Conns, TakeBatch(c), NEW x \in Cells, Current(c, x)
  PROVE  Current(c, x)'
<1>1. /\ pc[c] = "checked" /\ pc'[c] = "writing"
      /\ subs'[c].queue = <<>> /\ batch'[c].frames = subs[c].queue
  BY DEF TakeBatch, Goto, TypeOK, Structure, Registered
<1>2. batch[c].frames = <<>>
  BY <1>1 DEF Structure, NoBatch
<1>3. UNCHANGED <<fold, mirror, view>>
  BY DEF TakeBatch, engineVars
<1>4. Expected(x)' = Expected(x)
  BY <1>3 DEF Expected, Folding
<1>5. Newest(x, subs[c].queue, view[c][x]) = Expected(x)
  BY <1>1, <1>2, NewestOfNone DEF Current, Unread
<1>6. QED
  BY <1>1, <1>3, <1>4, <1>5, NewestOfNone DEF Current, Unread

LEMMA CurrentWrite ==
  ASSUME TypeOK, Structure, NEW c \in Conns, WriteBatch(c), NEW x \in Cells, Current(c, x)
  PROVE  Current(c, x)'
<1>1. /\ pc[c] = "writing" /\ pc'[c] = "loop" /\ batch'[c].frames = <<>>
      /\ view'[c][x] = Newest(x, batch[c].frames, view[c][x])
  BY DEF WriteBatch, Goto, TypeOK, NoBatch, Seen
<1>2. UNCHANGED <<fold, mirror, subs>>
  BY DEF WriteBatch, engineVars
<1>3. Expected(x)' = Expected(x)
  BY <1>2 DEF Expected, Folding
<1>4. Newest(x, subs[c].queue, view'[c][x]) = Expected(x)
  BY <1>1 DEF Current, Unread
<1>5. QED
  BY <1>1, <1>2, <1>3, <1>4, NewestOfNone DEF Current, Unread

(* The steps of a connection that keep its own Current.                    *)
LEMMA SyncedOwn ==
  ASSUME TypeOK, Structure, Synced, NEW c \in Conns,
         \/ StoreCount(c) \/ Subscribe(c) \/ ReadMirror(c) \/ WriteSnapshot(c) \/ CheckShutdown(c)
         \/ TakeBatch(c) \/ Wait(c) \/ WriteBatch(c) \/ TimeOut(c),
         pc'[c] \in Registered \ {"leaving"}, ~Lagging(c)',
         NEW x \in Cells \ overtaken'[c]
  PROVE  Current(c, x)'
<1>1. ASSUME x \notin overtaken[c], pc[c] \in Registered \ {"leaving"}, ~Lagging(c) PROVE Current(c, x)
  BY <1>1 DEF Synced
<1>2. CASE Subscribe(c)
  <2>1. /\ pc[c] = "subscribe" /\ pc'[c] = "counting" /\ subs'[c].queue = <<>>
        /\ overtaken'[c] = IF fold = NONE THEN {} ELSE {fold.frame.cell} \cap Cells
        /\ fold' = fold
    BY <1>2 DEF Subscribe, Goto, TypeOK, engineVars
  <2>2. ~Folding(x)'
    BY <2>1 DEF Folding
  <2>3. x \in Unread(c)'
    BY <2>1 DEF Unread
  <2>4. QED
    BY <2>1, <2>2, <2>3, NewestOfNone DEF Current
<1>3. CASE ReadMirror(c)
  <2>1. x \notin overtaken[c] /\ pc[c] \in Registered \ {"leaving"} /\ ~Lagging(c)
    BY <1>3 DEF ReadMirror, Lagging
  <2>2. QED
    BY <1>1, <1>3, <2>1, CurrentRead
<1>4. CASE TakeBatch(c)
  <2>1. x \notin overtaken[c] /\ pc[c] = "checked"
    BY <1>4 DEF TakeBatch, Goto
  <2>2. batch[c] = NoBatch /\ batch'[c].lagged = subs[c].lagged /\ told' = told
    BY <1>4, <2>1 DEF TakeBatch, Structure, TypeOK
  <2>3. ~Lagging(c)
    BY <2>2 DEF Lagging, NoBatch
  <2>4. QED
    BY <1>1, <1>4, <2>1, <2>3, CurrentTake DEF Registered
<1>5. CASE WriteBatch(c)
  <2>1. x \notin overtaken[c] /\ pc[c] = "writing" /\ subs' = subs
    BY <1>5 DEF WriteBatch, Goto
  <2>2. ~Lagging(c)
    BY <1>5, <2>1 DEF Lagging, WriteBatch
  <2>3. QED
    BY <1>1, <1>5, <2>1, <2>2, CurrentWrite DEF Registered
<1>6. CASE StoreCount(c) \/ WriteSnapshot(c)
  <2>1. /\ UNCHANGED <<fold, mirror, subs, batch, view, told, overtaken>>
        /\ pc[c] \in {"counting", "snapshot"}
    BY <1>6 DEF StoreCount, WriteSnapshot, Goto, TypeOK, engineVars, Registered
  <2>2. Unread(c)' = Unread(c)
    BY <1>6, <2>1 DEF StoreCount, WriteSnapshot, Goto, TypeOK, Unread, Registered
  <2>3. Current(c, x)
    BY <1>1, <2>1 DEF Lagging, Registered
  <2>4. QED
    BY <2>1, <2>2, <2>3, ExpectedKept, CurrentKept
<1>7. CASE CheckShutdown(c) \/ Wait(c) \/ TimeOut(c)
  <2>1. /\ UNCHANGED <<fold, mirror, subs, view, told, overtaken>>
        /\ pc[c] \in {"loop", "checked", "waiting"}
        /\ pc'[c] \notin {"counting", "snapshot"}
    BY <1>7 DEF CheckShutdown, Wait, TimeOut, Goto, TypeOK, engineVars
  <2>2. batch[c] = NoBatch /\ batch'[c] = NoBatch
    BY <1>7, <2>1 DEF CheckShutdown, Wait, TimeOut, Structure, TypeOK
  <2>3. Current(c, x)
    BY <1>1, <2>1, <2>2 DEF Lagging, Registered
  <2>4. Unread(c) = {} /\ Unread(c)' = {}
    BY <2>1 DEF Unread
  <2>5. QED
    BY <2>1, <2>2, <2>3, <2>4, ExpectedKept, CurrentKept
<1>8. QED
  BY <1>2, <1>3, <1>4, <1>5, <1>6, <1>7

LEMMA SyncedStep ==
  ASSUME TypeOK, Structure, Synced, [Next]_vars PROVE Synced'
<1> SUFFICES ASSUME NEW c \in Conns, pc'[c] \in Registered \ {"leaving"}, ~Lagging(c)',
                    NEW x \in Cells \ overtaken'[c]
             PROVE  Current(c, x)'
  BY DEF Synced
<1>1. ASSUME NEW frame \in Frame, Broadcast(frame) PROVE Current(c, x)'
  <2>1. /\ pc[c] \in Registered \ {"leaving"}
        /\ c \notin told /\ ~batch[c].lagged /\ ~subs'[c].lagged
    BY <1>1 DEF Broadcast, connVars, Lagging
  <2>2. subs'[c] = Push(subs[c], frame)
    BY <1>1, <2>1 DEF Broadcast, Structure
  <2>3. ~subs[c].lagged
    BY <2>1, <2>2 DEF Push, TypeOK, Structure, Mailbox
  <2>4. x = frame.cell \/ Current(c, x)
    BY <1>1, <2>1, <2>3 DEF Broadcast, Synced, Lagging, TypeOK
  <2>5. QED
    BY <1>1, <2>1, <2>4, CurrentBroadcast
<1>2. CASE Notify
  <2>1. Undisturbed(c)
    BY <1>2 DEF Notify, Notified, Undisturbed, TypeOK, Registered
  <2>2. QED
    BY <1>2, <2>1, ExpectedNotify, SyncedUndisturbed
<1>3. CASE FoldMirror
  <2>1. Undisturbed(c)
    BY <1>3 DEF FoldMirror, connVars, Undisturbed
  <2>2. QED
    BY <1>3, <2>1, ExpectedFold, SyncedUndisturbed
<1>4. CASE Stop
  <2>1. /\ pc' = pc \/ pc' = Notified
        /\ UNCHANGED <<engineVars, subs, count, live, len, toRead, batch, view, told, overtaken, accepts>>
    BY <1>4, Zenon DEF Stop
  <2>2. Undisturbed(c)
    BY <2>1 DEF Notified, Undisturbed, TypeOK, Registered
  <2>3. QED
    BY <2>1, <2>2, ExpectedKept, SyncedUndisturbed DEF engineVars
<1>5. ASSUME NEW d \in Conns, d # c, Accept(d) \/ Progress(d) \/ TimeOut(d) \/ WriteFails(d)
      PROVE  Current(c, x)'
  <2>1. fold' = fold /\ mirror' = mirror
    BY <1>5 DEF Accept, Progress, TimeOut, WriteFails, ServeRequest, BeginStream, Subscribe, StoreCount,
                ReadMirror, WriteSnapshot, CheckShutdown, TakeBatch, Wait, WriteBatch, Unsubscribe, Close,
                engineVars
  <2>2. pc'[c] = pc[c]
    BY <1>5 DEF Accept, Progress, TimeOut, WriteFails, ServeRequest, BeginStream, Subscribe, StoreCount,
                ReadMirror, WriteSnapshot, CheckShutdown, TakeBatch, Wait, WriteBatch, Unsubscribe, Close,
                Goto, TypeOK
  <2>3. pc[c] \in Registered
    BY <2>2
  <2>4. subs'[c] = subs[c]
    BY <1>5, <2>3 DEF Accept, Progress, TimeOut, WriteFails, ServeRequest, BeginStream, Subscribe,
                StoreCount, ReadMirror, WriteSnapshot, CheckShutdown, TakeBatch, Wait, WriteBatch,
                Unsubscribe, Close, Structure
  <2>5. toRead'[c] = toRead[c] /\ batch'[c] = batch[c]
    BY <1>5 DEF Accept, Progress, TimeOut, WriteFails, ServeRequest, BeginStream, Subscribe, StoreCount,
                ReadMirror, WriteSnapshot, CheckShutdown, TakeBatch, Wait, WriteBatch, Unsubscribe, Close,
                TypeOK
  <2>6. view'[c] = view[c]
    BY <1>5 DEF Accept, Progress, TimeOut, WriteFails, ServeRequest, BeginStream, Subscribe, StoreCount,
                ReadMirror, WriteSnapshot, CheckShutdown, TakeBatch, Wait, WriteBatch, Unsubscribe, Close,
                TypeOK
  <2>7. overtaken'[c] = overtaken[c] /\ (c \in told' <=> c \in told)
    BY <1>5 DEF Accept, Progress, TimeOut, WriteFails, ServeRequest, BeginStream, Subscribe, StoreCount,
                ReadMirror, WriteSnapshot, CheckShutdown, TakeBatch, Wait, WriteBatch, Unsubscribe, Close,
                TypeOK
  <2>8. QED
    BY <2>1, <2>2, <2>4, <2>5, <2>6, <2>7, ExpectedKept, SyncedUndisturbed DEF Undisturbed
<1>6. ASSUME Accept(c) \/ ServeRequest(c) \/ BeginStream(c) \/ Unsubscribe(c) \/ Close(c) \/ WriteFails(c)
      PROVE  FALSE
  BY <1>6 DEF Accept, ServeRequest, BeginStream, Unsubscribe, Close, WriteFails, Goto, TypeOK, Registered
<1>7. CASE UNCHANGED vars
  <2>1. Undisturbed(c)
    BY <1>7 DEF vars, connVars, Undisturbed
  <2>2. QED
    BY <1>7, <2>1, ExpectedKept, SyncedUndisturbed DEF vars, engineVars
<1>8. QED
  BY <1>1, <1>2, <1>3, <1>4, <1>5, <1>6, <1>7, SyncedOwn DEF Next, Engine, Progress, Refuse

-----------------------------------------------------------------------------
(* Theorems *)

IInv == TypeOK /\ Structure /\ Slots /\ NoSleepOnFrames /\ Synced /\ NewestKept

(* A push keeps a queue within its bound, and fills it when it overflows.  *)
Sized(sub) == Len(sub.queue) =< QueueCapacity /\ (sub.lagged => Len(sub.queue) = QueueCapacity)

LEMMA PushSized ==
  ASSUME NEW sub \in Mailbox, NEW frame \in Frame, Sized(sub) PROVE Sized(Push(sub, frame))
<1>1. sub.queue \in Seq(Frame) /\ Len(sub.queue) \in Nat
  BY DEF Mailbox
<1>2. CASE Len(sub.queue) >= QueueCapacity
  <2>1. Len(sub.queue) = QueueCapacity /\ sub.queue # <<>>
    BY <1>1, <1>2, StreamAssumption, EmptySeq DEF Sized
  <2>2. Tail(sub.queue) \in Seq(Frame) /\ Len(Tail(sub.queue)) = Len(sub.queue) - 1
    BY <1>1, <2>1, HeadTailProperties
  <2>3. Len(Append(Tail(sub.queue), frame)) = QueueCapacity
    BY <1>1, <2>1, <2>2, AppendProperties, StreamAssumption
  <2>4. Push(sub, frame).queue = Append(Tail(sub.queue), frame)
    BY <1>2 DEF Push
  <2>5. QED
    BY <2>3, <2>4, StreamAssumption DEF Sized
<1>3. CASE ~(Len(sub.queue) >= QueueCapacity)
  <2>1. /\ Push(sub, frame).queue = Append(sub.queue, frame)
        /\ Push(sub, frame).lagged = sub.lagged
    BY <1>3 DEF Push, Mailbox
  <2>2. Len(Append(sub.queue, frame)) = Len(sub.queue) + 1
    BY <1>1, AppendProperties
  <2>3. Len(sub.queue) + 1 =< QueueCapacity /\ ~sub.lagged
    BY <1>1, <1>3, StreamAssumption DEF Sized
  <2>4. QED
    BY <2>1, <2>2, <2>3 DEF Sized
<1>4. QED
  BY <1>2, <1>3

LEMMA SizedStep ==
  ASSUME TypeOK, Structure, \A c \in DOMAIN subs : Sized(subs[c]), [Next]_vars
  PROVE  \A c \in DOMAIN subs' : Sized(subs'[c])
<1> USE DEF connVars, engineVars
<1>1. ASSUME NEW frame \in Frame, Broadcast(frame) PROVE \A c \in DOMAIN subs' : Sized(subs'[c])
  BY <1>1, PushSized DEF Broadcast, TypeOK
<1>2. Sized([queue |-> <<>>, lagged |-> FALSE])
  BY StreamAssumption DEF Sized
<1>3. ASSUME NEW d \in Conns, Subscribe(d) \/ TakeBatch(d) \/ Unsubscribe(d)
      PROVE  \A c \in DOMAIN subs' : Sized(subs'[c])
  <2>1. CASE Subscribe(d)
    BY <1>2, <2>1 DEF Subscribe
  <2>2. CASE TakeBatch(d)
    BY <1>2, <2>2 DEF TakeBatch
  <2>3. CASE Unsubscribe(d)
    BY <2>3 DEF Unsubscribe
  <2>4. QED
    BY <1>3, <2>1, <2>2, <2>3
<1>4. CASE UNCHANGED subs
  BY <1>4
<1>5. CASE Stop
  <2>1. UNCHANGED subs
    BY <1>5, Zenon DEF Stop
  <2>2. QED
    BY <2>1
<1>6. QED
  BY <1>1, <1>3, <1>4, <1>5
     DEF Next, vars, Engine, Notify, FoldMirror, Accept, Progress, TimeOut, WriteFails, ServeRequest,
         BeginStream, StoreCount, ReadMirror, WriteSnapshot, CheckShutdown, Wait, WriteBatch, Close, Refuse

LEMMA NewestKeptStep ==
  ASSUME TypeOK, Structure, NewestKept, [Next]_vars PROVE NewestKept'
<1>a. \A c \in DOMAIN subs' : Sized(subs'[c])
  BY SizedStep DEF NewestKept, Sized
<1> SUFFICES ASSUME NEW c \in DOMAIN subs', fold' # NONE, fold'.step = "notify", subs'[c].queue # <<>>
             PROVE  subs'[c].queue[Len(subs'[c].queue)] = fold'.frame
  BY <1>a DEF NewestKept, Sized
<1> USE DEF connVars, engineVars
<1>1. ASSUME NEW frame \in Frame, Broadcast(frame)
      PROVE  subs'[c].queue[Len(subs'[c].queue)] = fold'.frame
  <2>1. c \in DOMAIN subs /\ subs'[c] = Push(subs[c], frame) /\ fold'.frame = frame
    BY <1>1 DEF Broadcast
  <2>2. subs[c] \in Mailbox
    BY <2>1 DEF TypeOK
  <2>3. \E queue \in Seq(Frame) : subs'[c].queue = Append(queue, frame)
    <3>1. subs[c].queue \in Seq(Frame)
      BY <2>2 DEF Mailbox
    <3>2. CASE Len(subs[c].queue) >= QueueCapacity
      <4>1. subs[c].queue # <<>>
        BY <3>1, <3>2, StreamAssumption, EmptySeq
      <4>2. Tail(subs[c].queue) \in Seq(Frame)
        BY <3>1, <4>1, HeadTailProperties
      <4>3. subs'[c].queue = Append(Tail(subs[c].queue), frame)
        BY <2>1, <3>2 DEF Push
      <4>4. QED
        BY <4>2, <4>3
    <3>3. CASE ~(Len(subs[c].queue) >= QueueCapacity)
      <4>1. subs'[c].queue = Append(subs[c].queue, frame)
        BY <2>1, <2>2, <3>3 DEF Push, Mailbox
      <4>2. QED
        BY <3>1, <4>1
    <3>4. QED
      BY <3>2, <3>3
  <2>4. QED
    BY <2>1, <2>3, AppendProperties
<1>2. CASE Notify \/ FoldMirror
  BY <1>2 DEF Notify, FoldMirror, AfterFrame
<1>3. CASE Stop
  <2>1. UNCHANGED <<engineVars, subs>>
    BY <1>3, Zenon DEF Stop
  <2>2. QED
    BY <2>1 DEF NewestKept
<1>4. ASSUME NEW d \in Conns, Subscribe(d) \/ TakeBatch(d) \/ Unsubscribe(d)
      PROVE  subs'[c].queue[Len(subs'[c].queue)] = fold'.frame
  <2>1. fold' = fold
    BY <1>4 DEF Subscribe, TakeBatch, Unsubscribe
  <2>2. c \in DOMAIN subs /\ subs'[c] = subs[c]
    BY <1>4 DEF Subscribe, TakeBatch, Unsubscribe
  <2>3. QED
    BY <2>1, <2>2 DEF NewestKept
<1>5. CASE UNCHANGED <<fold, subs>>
  BY <1>5 DEF NewestKept
<1>6. QED
  BY <1>1, <1>2, <1>3, <1>4, <1>5
     DEF Next, vars, Engine, Accept, Progress, TimeOut, WriteFails, ServeRequest, BeginStream, StoreCount,
         ReadMirror, WriteSnapshot, CheckShutdown, Wait, WriteBatch, Close, Refuse

LEMMA InvInit == Init => IInv
<1> SUFFICES ASSUME Init PROVE IInv
  OBVIOUS
<1>1. TypeOK
  BY TypesInit
<1>2. Structure
  BY DEF Init, Structure, Registered
<1>3. Open = {}
  BY DEF Init, Open
<1>4. Slots
  BY <1>3, FS_EmptySet DEF Init, Slots
<1>5. NoSleepOnFrames /\ Synced /\ NewestKept
  BY DEF Init, NoSleepOnFrames, Synced, Registered, NewestKept
<1>6. QED
  BY <1>1, <1>2, <1>4, <1>5 DEF IInv

LEMMA InvStep == IInv /\ [Next]_vars => IInv'
BY TypesStep, StructureStep, SlotsStep, AwakeStep, SyncedStep, NewestKeptStep DEF IInv

THEOREM Inductive == Spec => []IInv
BY InvInit, InvStep, PTL DEF Spec

(* Every message, queue and counter has its type; in particular there are  *)
(* never more connections than MAX_CONNECTIONS and never fewer than none.  *)
THEOREM TypesCorrect == Spec => []TypeOK
<1>1. IInv => TypeOK
  BY DEF IInv
<1>2. QED
  BY <1>1, Inductive, PTL

(* Whichever way a connection ends, its slot and its registration are      *)
(* given back; and a stream keeps its slot as long as it lasts.            *)
THEOREM SlotsCorrect == Spec => []SlotsExact
<1>1. ASSUME IInv PROVE SlotsExact
  <2>1. live = Cardinality(Open) /\ live \in 0..MaxConnections
    BY <1>1 DEF IInv, Slots, TypeOK
  <2>2. Registered = Streaming \ {"subscribe", "discounting"}
    BY DEF Registered, Streaming
  <2>3. QED
    BY <1>1, <2>1, <2>2, StreamAssumption DEF IInv, SlotsExact, Structure
<1>2. QED
  BY <1>1, Inductive, PTL

(* Nobody sleeps on a frame.                                               *)
THEOREM AwakeCorrect == Spec => []NoSleepOnFrames
<1>1. IInv => NoSleepOnFrames
  BY DEF IInv
<1>2. QED
  BY <1>1, Inductive, PTL

(* A queue is bounded, flagged only once it overflowed and still is full,  *)
(* and has the frame just broadcast as its last.                           *)
THEOREM NewestCorrect == Spec => []NewestKept
<1>1. IInv => NewestKept
  BY DEF IInv
<1>2. QED
  BY <1>1, Inductive, PTL

(* A client that was not told it lags, and has read what it was sent,      *)
(* believes what the mirror says of every capability, but for those whose  *)
(* frame it had just missed when it subscribed.                            *)
THEOREM ClientsCorrect == Spec => []OnlyOvertakenLost
<1>1. ASSUME IInv PROVE OnlyOvertakenLost
  <2> SUFFICES ASSUME NEW c \in Conns, Settled(c), c \notin told, NEW x \in Cells \ overtaken[c]
               PROVE  view[c][x] = mirror[x]
    BY DEF OnlyOvertakenLost
  <2>1. /\ pc[c] \in {"loop", "checked", "waiting"} /\ fold = NONE
        /\ subs[c].queue = <<>> /\ ~subs[c].lagged
    BY DEF Settled
  <2>2. batch[c] = NoBatch
    BY <1>1, <2>1 DEF IInv, Structure
  <2>3. ~Lagging(c)
    BY <2>1, <2>2 DEF Lagging, NoBatch
  <2>4. Current(c, x) /\ x \notin Unread(c)
    BY <1>1, <2>1, <2>3 DEF IInv, Synced, Registered, Unread
  <2>5. batch[c].frames = <<>>
    BY <2>2 DEF NoBatch
  <2>6. Expected(x) = mirror[x]
    BY <2>1 DEF Expected, Folding
  <2>7. QED
    BY <2>1, <2>4, <2>5, <2>6, NewestOfNone DEF Current
<1>2. QED
  BY <1>1, Inductive, PTL
=============================================================================
