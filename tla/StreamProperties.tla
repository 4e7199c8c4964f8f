-------------------------- MODULE StreamProperties --------------------------
(***************************************************************************)
(* What the stream and its server promise.                                 *)
(***************************************************************************)
EXTENDS Stream

Mailbox == [queue : Seq(Frame), lagged : BOOLEAN]

TypeOK ==
  /\ fold \in Fold \cup {NONE}
  /\ mirror \in [Cells -> Values \cup {NONE}]
  /\ DOMAIN subs \subseteq Conns /\ \A c \in DOMAIN subs : subs[c] \in Mailbox
  /\ count \in 0..Cardinality(Conns) /\ live \in 0..MaxConnections
  /\ signal \in {"running", "stopping", "flagged", "notified"}
  /\ pc \in [Conns -> Streaming \cup {"closed", "reading", "closing"}]
  /\ len \in [Conns -> 0..Cardinality(Conns)]
  /\ toRead \in [Conns -> SUBSET Cells]
  /\ batch \in [Conns -> [frames : Seq(Frame), lagged : BOOLEAN]]
  /\ view \in [Conns -> [Cells -> Values \cup {NONE}]]
  /\ told \subseteq Conns /\ overtaken \in [Conns -> SUBSET Cells]

(* The connection has written all it was sent, and nothing is in between.  *)
Settled(c) == /\ fold = NONE
              /\ pc[c] \in {"loop", "checked", "waiting"}
              /\ subs[c].queue = <<>> /\ ~subs[c].lagged

(* A client's picture (snapshot plus deltas) agrees with what GET /devices *)
(* says once its stream is drained, unless it was told that it lags.       *)
InSync == \A c \in Conns : Settled(c) /\ c \notin told => view[c] = mirror

(* ... with one exception: a capability whose frame had been broadcast but *)
(* not yet mirrored when the client subscribed.  However folds, snapshots, *)
(* overflows and writes interleave, nothing else is lost silently.         *)
OnlyOvertakenLost ==
  \A c \in Conns : Settled(c) /\ c \notin told =>
    \A x \in Cells : view[c][x] = mirror[x] \/ x \in overtaken[c]

(* No writer sleeps on a frame: whoever waits with something in its queue  *)
(* is about to be notified.                                                *)
NoSleepOnFrames ==
  \A c \in Conns : pc[c] = "waiting" /\ subs[c].queue # <<>> => fold # NONE /\ fold.step = "notify"

(* A queue is bounded; it is flagged only when it has overflowed, so that  *)
(* it is still full when its writer comes for it; and whoever has pending  *)
(* frames when a broadcast is announced has the new frame, as the last:    *)
(* an overflow costs the oldest (stream.rs, push).                         *)
NewestKept ==
  \A c \in DOMAIN subs :
    LET queue == subs[c].queue
    IN  /\ Len(queue) =< QueueCapacity
        /\ subs[c].lagged => Len(queue) = QueueCapacity
        /\ fold # NONE /\ fold.step = "notify" /\ queue # <<>> => queue[Len(queue)] = fold.frame

(* Whichever way a connection ends (a refused stream, a failed write, the  *)
(* shutdown) it gives back what it held: it has one slot of                *)
(* MAX_CONNECTIONS for as long as its thread serves it, also while it      *)
(* streams (see StreamsBudgetedApart), and it is registered exactly        *)
(* between the two steps that enter its subscription and take it out.      *)
SlotsExact ==
  /\ live = Cardinality(Open) /\ live =< MaxConnections
  /\ DOMAIN subs = {c \in Conns : pc[c] \in Streaming \ {"subscribe", "discounting"}}

(* Streams do not take the connections of plain requests: they are "not    *)
(* counted here" and "budgeted separately" (http.rs:55-63), so that 503    *)
(* too_many_connections is for when that many requests are being served.   *)
(* The code does not have this property: a stream keeps the slot it was    *)
(* accepted under.                                                         *)
StreamsBudgetedApart ==
  signal = "running" /\ live >= MaxConnections =>
    Cardinality({c \in Open : pc[c] \notin Streaming}) >= MaxConnections

(* What is queued for a client is written, or the connection ends.         *)
FramesDelivered ==
  \A c \in Conns : (c \in DOMAIN subs /\ subs[c].queue # <<>>)
                     ~> (c \notin DOMAIN subs \/ subs[c].queue = <<>>)

(* After shutdown every stream ends, also that of a writer which was about *)
(* to wait and slept through the notification: its keepalive wakes it.     *)
StreamsEnd == signal = "flagged" ~> DOMAIN subs = {}
=============================================================================
