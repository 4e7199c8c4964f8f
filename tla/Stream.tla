------------------------------- MODULE Stream -------------------------------
(***************************************************************************)
(* The HTTP server of the REST API and its server-sent events: http.rs     *)
(* (accept, serve, serve_stream), stream.rs (Broadcaster, Subscription)    *)
(* and the state mirror of rest_api/mod.rs.                                *)
(*                                                                         *)
(* The threads are the engine, which folds reports and fans them out, the  *)
(* accept loop, one thread per connection, and the signal handler.  They   *)
(* meet in the registry of subscribers (a mutex and a condition variable), *)
(* the mirror (a mutex) and three atomics.  An action is what one thread   *)
(* does between two points where another can observe it: one critical      *)
(* section, or one operation on an atomic.  The registry's mutex is held   *)
(* from one step to the next only by a writer that has found no shutdown   *)
(* and is about to look at its queue (pc "checked").                       *)
(***************************************************************************)
EXTENDS Integers, Sequences, FiniteSets

CONSTANTS
  NONE,
  Cells, Values,    \* what the engine reports about
  Conns,            \* connection threads
  QueueCapacity,    \* QUEUE_CAPACITY
  MaxStreams,       \* MAX_STREAMS
  MaxConnections,   \* MAX_CONNECTIONS
  MaxFrames,        \* bound: frames the engine broadcasts
  MaxAccepts        \* bound: connections accepted

(* What a frame carries: a capability's new state, or (NONE) anything else *)
(* that is streamed: rule outcomes, actions, failed commands.              *)
Frame == [cell : Cells, value : Values] \cup [cell : {NONE}]

(* A frame that is out, and what the callback does with it next.           *)
Fold == [frame : Frame, step : {"notify", "mirror"}]

ASSUME StreamAssumption ==
  /\ NONE \notin Cells \cup Values \cup Fold
  /\ IsFiniteSet(Conns)
  /\ QueueCapacity \in Nat \ {0} /\ MaxStreams \in Nat /\ MaxConnections \in Nat
  /\ MaxFrames \in Nat /\ MaxAccepts \in Nat

VARIABLES
  fold,       \* the engine's callback under way: [frame, step], or NONE
  mirror,     \* Mirror.states: cell -> value or NONE
  subs,       \* Registry.subscribers: connection -> [queue, lagged]
  count,      \* BroadcasterInner.count
  live,       \* live_connections
  signal,     \* "running" | "stopping" | "flagged" | "notified"
  pc,         \* connection -> where its thread is
  len,        \* connection -> the subscriber count it computed under the lock
  toRead,     \* connection -> cells its snapshot still lacks
  batch,      \* connection -> the batch it is writing: [frames, lagged]
  view,       \* connection -> what its client believes: cell -> value or NONE
  told,       \* history: the clients that were told they lag
  overtaken,  \* history: connection -> cells whose frame it just missed
  frames, accepts   \* bounds

engineVars == <<fold, mirror, frames>>
connVars   == <<pc, len, toRead, batch, view>>
vars == <<engineVars, subs, count, live, signal, connVars, told, overtaken, accepts>>

Open == {c \in Conns : pc[c] # "closed"}
Streaming == {"subscribe", "counting", "snapshot", "loop", "checked", "waiting", "writing",
              "leaving", "discounting"}
LockFree == \A c \in Conns : pc[c] # "checked"

NoBatch == [frames |-> <<>>, lagged |-> FALSE]
NoView  == [x \in Cells |-> NONE]

Init ==
  /\ fold = NONE /\ mirror = NoView /\ frames = 0
  /\ subs = [c \in {} |-> NONE] /\ count = 0 /\ live = 0
  /\ signal = "running"
  /\ pc = [c \in Conns |-> "closed"] /\ len = [c \in Conns |-> 0]
  /\ toRead = [c \in Conns |-> {}]
  /\ batch = [c \in Conns |-> NoBatch]
  /\ view = [c \in Conns |-> NoView]
  /\ told = {} /\ overtaken = [c \in Conns |-> {}]
  /\ accepts = 0

-----------------------------------------------------------------------------
(* The engine thread.  An Observer callback broadcasts a frame: push to    *)
(* every subscriber under the lock, then notify.  A fold goes on to the    *)
(* northbound list, where RestApiAdapter updates the mirror.               *)

(* Fault: an overflow is not flagged ...                                   *)
FaultSilentDrop(sub, frame) ==
  [sub EXCEPT !.queue = Append(IF Len(@) >= QueueCapacity THEN Tail(@) ELSE @, frame)]

(* ... or drops the new frame.                                             *)
FaultDropNewest(sub, frame) ==
  IF Len(sub.queue) >= QueueCapacity
  THEN [sub EXCEPT !.lagged = TRUE]
  ELSE [sub EXCEPT !.queue = Append(@, frame)]

Push(sub, frame) ==
  IF Len(sub.queue) >= QueueCapacity
  THEN [queue |-> Append(Tail(sub.queue), frame), lagged |-> TRUE]
  ELSE [sub EXCEPT !.queue = Append(@, frame)]

(* A report is mirrored once its frame is out.                             *)
AfterFrame(frame) == IF frame.cell = NONE THEN NONE ELSE [frame |-> frame, step |-> "mirror"]

Broadcast(frame) ==
  /\ fold = NONE /\ frames < MaxFrames /\ LockFree
  /\ frames' = frames + 1
  /\ subs' = [c \in DOMAIN subs |-> Push(subs[c], frame)]
  /\ overtaken' = [c \in Conns |-> overtaken[c] \ {frame.cell}]
  /\ fold' = IF DOMAIN subs = {} THEN AfterFrame(frame) ELSE [frame |-> frame, step |-> "notify"]
  /\ UNCHANGED <<mirror, count, live, signal, connVars, told, accepts>>

(* Fault: notify_one where every subscriber was pushed to.                 *)
FaultNotifyOne ==
  LET waiting == {c \in Conns : pc[c] = "waiting"}
  IN  [c \in Conns |-> IF waiting # {} /\ c = CHOOSE w \in waiting : TRUE THEN "loop" ELSE pc[c]]

Notified == [c \in Conns |-> IF pc[c] = "waiting" THEN "loop" ELSE pc[c]]

Notify ==
  /\ fold # NONE /\ fold.step = "notify"
  /\ pc' = Notified
  /\ fold' = AfterFrame(fold.frame)
  /\ UNCHANGED <<mirror, frames, subs, count, live, signal, len, toRead, batch, view, told,
                 overtaken, accepts>>

FoldMirror ==
  /\ fold # NONE /\ fold.step = "mirror"
  /\ fold' = NONE
  /\ mirror' = [mirror EXCEPT ![fold.frame.cell] = fold.frame.value]
  /\ UNCHANGED <<frames, subs, count, live, signal, connVars, told, overtaken, accepts>>

-----------------------------------------------------------------------------
(* The accept loop *)

Accept(c) ==
  /\ signal = "running" /\ accepts < MaxAccepts
  /\ pc[c] = "closed"
  /\ live < MaxConnections
  /\ live' = live + 1 /\ accepts' = accepts + 1
  /\ pc' = [pc EXCEPT ![c] = "reading"]
  /\ UNCHANGED <<engineVars, subs, count, signal, len, toRead, batch, view, told, overtaken>>

(* 503 too_many_connections, answered on the accept thread.                *)
Refuse ==
  /\ signal = "running" /\ live >= MaxConnections
  /\ UNCHANGED vars

-----------------------------------------------------------------------------
(* A connection thread: serve and serve_stream *)

Goto(c, from, to) == pc[c] = from /\ pc' = [pc EXCEPT ![c] = to]

(* One request, one response: what it reads and queues is not modelled.    *)
(* An unreadable or unauthorised request ends here too.                    *)
ServeRequest(c) ==
  /\ Goto(c, "reading", "closing")
  /\ UNCHANGED <<engineVars, subs, count, live, signal, len, toRead, batch, view, told,
                 overtaken, accepts>>

(* GET /stream: the budget is checked against the atomic count ...         *)
BeginStream(c) ==
  /\ Goto(c, "reading", IF count >= MaxStreams THEN "closing" ELSE "subscribe")
  /\ UNCHANGED <<engineVars, subs, count, live, signal, len, toRead, batch, view, told,
                 overtaken, accepts>>

(* ... then the subscriber is registered, before its snapshot is built.    *)
Subscribe(c) ==
  /\ Goto(c, "subscribe", "counting") /\ LockFree
  /\ subs' = [d \in DOMAIN subs \cup {c} |->
                IF d = c THEN [queue |-> <<>>, lagged |-> FALSE] ELSE subs[d]]
  /\ len' = [len EXCEPT ![c] = Cardinality(DOMAIN subs \cup {c})]
  /\ overtaken' = [overtaken EXCEPT ![c] = IF fold = NONE THEN {} ELSE {fold.frame.cell} \cap Cells]
  /\ UNCHANGED <<engineVars, count, live, signal, toRead, batch, view, told, accepts>>

(* The count is stored after the lock is released.                         *)
StoreCount(c) ==
  /\ \/ Goto(c, "counting", "snapshot") /\ toRead' = [toRead EXCEPT ![c] = Cells]
     \/ Goto(c, "discounting", "closing") /\ UNCHANGED toRead
  /\ count' = len[c] /\ len' = [len EXCEPT ![c] = 0]
  /\ UNCHANGED <<engineVars, subs, live, signal, batch, view, told, overtaken, accepts>>

(* devices_value locks the mirror once for every capability.               *)
ReadMirror(c) ==
  /\ pc[c] = "snapshot"
  /\ \E x \in toRead[c] :
       /\ view' = [view EXCEPT ![c][x] = mirror[x]]
       /\ toRead' = [toRead EXCEPT ![c] = @ \ {x}]
  /\ UNCHANGED <<engineVars, subs, count, live, signal, pc, len, batch, told, overtaken, accepts>>

(* The head and the snapshot are on the wire.                              *)
WriteSnapshot(c) ==
  /\ toRead[c] = {}
  /\ Goto(c, "snapshot", "loop")
  /\ UNCHANGED <<engineVars, subs, count, live, signal, len, toRead, batch, view, told,
                 overtaken, accepts>>

(* Fault: shutdown is not looked for.                                      *)
FaultNoShutdownCheck(c) ==
  /\ LockFree
  /\ Goto(c, "loop", "checked")
  /\ UNCHANGED <<engineVars, subs, count, live, signal, len, toRead, batch, view, told,
                 overtaken, accepts>>

(* next_batch takes the lock and looks for shutdown ...                    *)
CheckShutdown(c) ==
  /\ LockFree
  /\ Goto(c, "loop", IF signal \in {"flagged", "notified"} THEN "leaving" ELSE "checked")
  /\ UNCHANGED <<engineVars, subs, count, live, signal, len, toRead, batch, view, told,
                 overtaken, accepts>>

(* ... then takes all that is pending ...                                  *)
TakeBatch(c) ==
  /\ Goto(c, "checked", "writing")
  /\ subs[c].queue # <<>> \/ subs[c].lagged
  /\ batch' = [batch EXCEPT ![c] = [frames |-> subs[c].queue, lagged |-> subs[c].lagged]]
  /\ subs' = [subs EXCEPT ![c] = [queue |-> <<>>, lagged |-> FALSE]]
  /\ UNCHANGED <<engineVars, count, live, signal, len, toRead, view, told, overtaken, accepts>>

(* ... or waits, which releases the lock.                                  *)
Wait(c) ==
  /\ Goto(c, "checked", "waiting")
  /\ subs[c].queue = <<>> /\ ~subs[c].lagged
  /\ UNCHANGED <<engineVars, subs, count, live, signal, len, toRead, batch, view, told,
                 overtaken, accepts>>

(* Batch::Idle: a keepalive comment is to be written.                      *)
TimeOut(c) ==
  /\ Goto(c, "waiting", "writing")
  /\ batch' = [batch EXCEPT ![c] = NoBatch]
  /\ UNCHANGED <<engineVars, subs, count, live, signal, len, toRead, view, told, overtaken, accepts>>

(* What a client that believes v makes of the frames it reads: of those    *)
(* about one capability, the last stands.                                  *)
LastAbout(x, queue) ==
  {i \in 1..Len(queue) : queue[i].cell = x /\ \A j \in i+1..Len(queue) : queue[j].cell # x}

Newest(x, queue, v) ==
  IF LastAbout(x, queue) = {} THEN v ELSE queue[CHOOSE i \in LastAbout(x, queue) : TRUE].value

Seen(v, queue) == [x \in Cells |-> Newest(x, queue, v[x])]

(* Fault: a writer waits for a push before it looks at its queue again.    *)
FaultWaitFirst(c) ==
  /\ Goto(c, "writing", "waiting")
  /\ view' = [view EXCEPT ![c] = Seen(@, batch[c].frames)]
  /\ told' = IF batch[c].lagged THEN told \cup {c} ELSE told
  /\ batch' = [batch EXCEPT ![c] = NoBatch]
  /\ UNCHANGED <<engineVars, subs, count, live, signal, len, toRead, overtaken, accepts>>

WriteBatch(c) ==
  /\ Goto(c, "writing", "loop")
  /\ view' = [view EXCEPT ![c] = Seen(@, batch[c].frames)]
  /\ told' = IF batch[c].lagged THEN told \cup {c} ELSE told
  /\ batch' = [batch EXCEPT ![c] = NoBatch]
  /\ UNCHANGED <<engineVars, subs, count, live, signal, len, toRead, overtaken, accepts>>

(* Fault: a failed write does not drop the subscription.                   *)
FaultSubscriptionLeaked(c) ==
  /\ \E from \in {"snapshot", "writing"} : Goto(c, from, "closing")
  /\ toRead' = [toRead EXCEPT ![c] = {}]
  /\ batch' = [batch EXCEPT ![c] = NoBatch]
  /\ UNCHANGED <<engineVars, subs, count, live, signal, len, view, told, overtaken, accepts>>

(* A write that fails, because the client is gone or stuck, ends serve.    *)
WriteFails(c) ==
  /\ \E from \in {"snapshot", "writing"} : Goto(c, from, "leaving")
  /\ toRead' = [toRead EXCEPT ![c] = {}]
  /\ batch' = [batch EXCEPT ![c] = NoBatch]
  /\ UNCHANGED <<engineVars, subs, count, live, signal, len, view, told, overtaken, accepts>>

(* Drop for Subscription.  The client is gone.                             *)
Unsubscribe(c) ==
  /\ Goto(c, "leaving", "discounting") /\ LockFree
  /\ subs' = [d \in DOMAIN subs \ {c} |-> subs[d]]
  /\ len' = [len EXCEPT ![c] = Cardinality(DOMAIN subs \ {c})]
  /\ view' = [view EXCEPT ![c] = NoView] /\ told' = told \ {c}
  /\ overtaken' = [overtaken EXCEPT ![c] = {}]
  /\ UNCHANGED <<engineVars, count, live, signal, toRead, batch, accepts>>

(* Fault: the slot is released by hand and by the guard.                   *)
FaultReleasedTwice(c) ==
  /\ Goto(c, "closing", "closed")
  /\ live' = live - 2
  /\ UNCHANGED <<engineVars, subs, count, signal, len, toRead, batch, view, told, overtaken, accepts>>

(* Drop for ConnectionGuard.                                               *)
Close(c) ==
  /\ Goto(c, "closing", "closed")
  /\ live' = live - 1
  /\ UNCHANGED <<engineVars, subs, count, signal, len, toRead, batch, view, told, overtaken, accepts>>

-----------------------------------------------------------------------------
(* The signal thread: the host's flag, the broadcaster's flag, notify_all. *)

Stop ==
  /\ signal # "notified"
  /\ signal' = CASE signal = "running" -> "stopping" [] signal = "stopping" -> "flagged"
                 [] signal = "flagged" -> "notified"
  /\ pc' = IF signal = "flagged" THEN Notified ELSE pc
  /\ UNCHANGED <<engineVars, subs, count, live, len, toRead, batch, view, told, overtaken, accepts>>

-----------------------------------------------------------------------------
Engine == (\E frame \in Frame : Broadcast(frame)) \/ Notify \/ FoldMirror

Progress(c) ==
  \/ ServeRequest(c) \/ BeginStream(c) \/ Subscribe(c) \/ StoreCount(c) \/ ReadMirror(c)
  \/ WriteSnapshot(c) \/ CheckShutdown(c) \/ TakeBatch(c) \/ Wait(c) \/ WriteBatch(c)
  \/ Unsubscribe(c) \/ Close(c)

Next ==
  \/ Engine \/ Stop \/ Refuse
  \/ \E c \in Conns : Accept(c) \/ Progress(c) \/ TimeOut(c) \/ WriteFails(c)

Spec == Init /\ [][Next]_vars

(* Threads run, whoever wants the registry's lock gets it in the end, a    *)
(* wait ends at the latest with its timeout, and the signal handler, once  *)
(* it began, finishes.                                                     *)
Fairness ==
  /\ WF_vars(Notify \/ FoldMirror)
  /\ WF_vars(signal # "running" /\ Stop)
  /\ \A c \in Conns : SF_vars(Progress(c)) /\ WF_vars(TimeOut(c))
FairSpec == Spec /\ Fairness
=============================================================================
