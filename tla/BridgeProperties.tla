-------------------------- MODULE BridgeProperties --------------------------
(***************************************************************************)
(* What the websocket transports promise the engine across reconnects.     *)
(***************************************************************************)
EXTENDS Bridge

Seen == [Attrs -> Nat \cup {NONE}]

TypeOK ==
  /\ thread \in {"connect", "handshake", "pump", "sleep"}
  /\ outbound \in Seq(1 .. issued) /\ inbound \in Seq(Update) /\ parsed \in Seq(Update)
  /\ seen \in Seen /\ (store = NONE \/ store \in [Attrs -> Nat])
  /\ wire \in {"none", "up", "broken"} /\ listening \in BOOLEAN
  /\ toServer \in Seq(0 .. issued) /\ fromServer \in Seq(Seq(Update))
  /\ device \in [Attrs -> Nat] /\ scene \in Nat
  /\ executed \in Seq(1 .. issued) /\ acted \in Seq(1 .. scene)
  /\ lost \subseteq 1 .. issued
  /\ issued \in Nat /\ changes \in Nat /\ breaks \in Nat

Increasing(s) == \A i, j \in DOMAIN s : i < j => s[i] < s[j]

(* However often the connection breaks, a device never executes a command  *)
(* twice, nor an older one after a newer one (run_connection hands each    *)
(* queued frame to one connection only, in order).                         *)
CommandsInOrder == Increasing(executed)

Held(s) == {s[i] : i \in DOMAIN s} \ {Listen}

(* A command that dispatch accepted is still queued, on its way or         *)
(* executed, unless it was handed to a connection that broke: those queued *)
(* during an outage survive it (zwavejs.rs, matter.rs: "queued commands    *)
(* flush once it's reachable").                                            *)
CommandsAccounted ==
  /\ 1 .. issued = Held(outbound) \cup Held(toServer) \cup Held(executed) \cup lost
  /\ breaks = 0 => lost = {}

(* A command is under way in the queue and on the socket.                  *)
Underway == Held(outbound) \cup Held(toServer)

Commands == INSTANCE Delivery WITH
  Repeats <- FALSE, down <- wire = "broken", sent <- 1 .. issued,
  underway <- Underway, fresh <- Underway, delivered <- executed

(* The link keeps what it promises the engine, and never repeats: of the   *)
(* commands under way the oldest executes next, whether it is queued or on *)
(* the socket, and only an outage loses any (run_connection).              *)
DeliversOnce == Commands!Spec

(* A press is acted on at most once, in order: the snapshot that follows a *)
(* reconnect repeats the last one, and must not fire it again (zwavejs.rs, *)
(* ValueUpdate.notification).                                              *)
PressesOnce == Increasing(acted)

(* What the adapter believes of an attribute never goes back to an older   *)
(* value: the updates of an old connection are folded before the snapshot  *)
(* of the new one (the one inbound queue; Adapter::tick).                  *)
NeverRegresses ==
  [][\A a \in Attrs : seen[a] # NONE => seen'[a] # NONE /\ seen'[a] >= seen[a]]_vars

(* When connections stop breaking, every queued command leaves and the     *)
(* engine comes to know the device as it is, whatever happened unheard     *)
(* during the outage (start_listening on every connection).                *)
Settles == <>[](outbound = <<>> /\ store = device)
=============================================================================
