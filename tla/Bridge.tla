------------------------------- MODULE Bridge -------------------------------
(***************************************************************************)
(* The Z-Wave JS and Matter adapters (zwavejs.rs, matter.rs) and their     *)
(* websocket transports, which have one structure: a thread that connects, *)
(* asks for a snapshot and for updates (start_listening), pumps the socket *)
(* both ways until it breaks, and starts over; an unbounded queue of       *)
(* commands towards it and one of updates from it.                         *)
(*                                                                         *)
(* One device is followed.  Its attributes make up one capability, as hue  *)
(* and saturation make up a colour; every change gives an attribute a new  *)
(* number, so a value says when it was current.  Presses of its button are *)
(* numbered too.  The server and the socket are external: the server       *)
(* executes and reports in order, a socket delivers in order until it      *)
(* breaks, and what it then holds may be lost.                             *)
(***************************************************************************)
EXTENDS Integers, Sequences, FiniteSets

CONSTANTS
  NONE,
  Attrs,         \* the attributes of the capability
  MaxCommands,   \* bound: commands dispatched
  MaxChanges,    \* bound: changes the device makes of itself
  MaxPresses,    \* bound: presses of its button
  MaxBreaks      \* bound: failed connects and broken connections

ASSUME BridgeAssumption ==
  /\ Attrs # {} /\ IsFiniteSet(Attrs) /\ "scene" \notin Attrs
  /\ NONE \notin Nat
  /\ MaxCommands \in Nat /\ MaxChanges \in Nat /\ MaxPresses \in Nat /\ MaxBreaks \in Nat

(* ValueUpdate and AttrReport.  A press is the value of "scene"; only a    *)
(* notification says that it has just happened.                            *)
Update == [attr : Attrs \cup {"scene"}, value : Nat, notification : BOOLEAN]

Listen == 0   \* a frame to the server: start_listening, or the number of a command

VARIABLES
  thread,      \* "connect" | "handshake" | "pump" | "sleep"
  outbound,    \* commands queued for the transport
  parsed,      \* the updates of the frame being queued
  inbound,     \* updates queued for the next tick
  seen,        \* the adapter's hue_sat: attribute -> value or NONE
  store,       \* what the engine was last told: seen, once it is complete; or NONE
  acted,       \* history: the presses reported to the engine as actions
  wire,        \* the socket: "none" | "up" | "broken"
  toServer, fromServer,   \* frames on it
  listening,   \* the server reports changes on this connection
  device,      \* attribute -> value
  scene,       \* the last press
  executed,    \* history: the commands the device executed, in order
  lost,        \* history: the commands that were handed to a broken connection
  issued, changes, breaks   \* bounds

adapterVars == <<seen, store, acted>>
wireVars    == <<wire, toServer, fromServer, listening>>
deviceVars  == <<device, scene, executed, changes>>
vars == <<thread, outbound, parsed, inbound, adapterVars, wireVars, deviceVars, lost, issued, breaks>>

Init ==
  /\ thread = "connect" /\ outbound = <<>> /\ parsed = <<>> /\ inbound = <<>>
  /\ seen = [a \in Attrs |-> NONE] /\ store = NONE /\ acted = <<>>
  /\ wire = "none" /\ toServer = <<>> /\ fromServer = <<>> /\ listening = FALSE
  /\ device = [a \in Attrs |-> 0] /\ scene = 0 /\ executed = <<>> /\ changes = 0
  /\ lost = {} /\ issued = 0 /\ breaks = 0

-----------------------------------------------------------------------------
(* The adapter, on the engine's thread *)

(* dispatch: the command is queued, and the outcome is Ok.                 *)
Dispatch ==
  /\ issued < MaxCommands
  /\ issued' = issued + 1
  /\ outbound' = Append(outbound, issued')
  /\ UNCHANGED <<thread, parsed, inbound, adapterVars, wireVars, deviceVars, lost, breaks>>

FaultAnyScene(u) == u.attr = "scene"
IsPress(u) == u.attr = "scene" /\ u.notification

(* The presses among the updates of one tick, in the order of the updates. *)
Presses(updates) ==
  LET places == {i \in DOMAIN updates : IsPress(updates[i])}
      Nth(k) == CHOOSE i \in places : Cardinality({j \in places : j <= i}) = k
  IN  [k \in 1 .. Cardinality(places) |-> updates[Nth(k)].value]

(* fold_hue_sat, over the updates of one tick: of those of an attribute,   *)
(* the last stands.  Each gives an event of its own; only what the last of *)
(* them leaves in the store is kept here.                                  *)
LastOf(a, updates) ==
  {i \in DOMAIN updates : updates[i].attr = a /\ \A j \in DOMAIN updates : j > i => updates[j].attr # a}

Folded(from, updates) ==
  [a \in Attrs |-> IF LastOf(a, updates) = {} THEN from[a]
                   ELSE updates[CHOOSE i \in LastOf(a, updates) : TRUE].value]

FaultEither(s) == \E a \in Attrs : s[a] # NONE
Complete(s) == \A a \in Attrs : s[a] # NONE

Tick ==
  /\ inbound # <<>>
  /\ seen' = Folded(seen, inbound)
  /\ store' = IF Complete(seen') THEN seen' ELSE store
  /\ acted' = acted \o Presses(inbound)
  /\ inbound' = <<>>
  /\ UNCHANGED <<thread, outbound, parsed, wireVars, deviceVars, lost, issued, breaks>>

-----------------------------------------------------------------------------
(* run_connection *)

Connected ==
  /\ thread = "connect"
  /\ thread' = "handshake"
  /\ wire' = "up" /\ toServer' = <<>> /\ fromServer' = <<>> /\ listening' = FALSE
  /\ UNCHANGED <<outbound, parsed, inbound, adapterVars, deviceVars, lost, issued, breaks>>

ConnectFailed ==
  /\ thread = "connect"
  /\ breaks < MaxBreaks
  /\ breaks' = breaks + 1
  /\ thread' = "sleep"
  /\ UNCHANGED <<outbound, parsed, inbound, adapterVars, wireVars, deviceVars, lost, issued>>

FaultListenOnce ==
  /\ thread = "handshake"
  /\ thread' = "pump"
  /\ toServer' = IF wire = "up" /\ ~Complete(seen) THEN Append(toServer, Listen) ELSE toServer
  /\ UNCHANGED <<outbound, parsed, inbound, adapterVars, wire, fromServer, listening, deviceVars,
                 lost, issued, breaks>>

(* start_listening is the first frame of every connection.  The write may  *)
(* seem to succeed although the connection is already broken.              *)
Handshake ==
  /\ thread = "handshake"
  /\ \/ /\ thread' = "pump"
        /\ toServer' = IF wire = "up" THEN Append(toServer, Listen) ELSE toServer
     \/ /\ wire = "broken"
        /\ thread' = "sleep"
        /\ UNCHANGED toServer
  /\ UNCHANGED <<outbound, parsed, inbound, adapterVars, wire, fromServer, listening, deviceVars,
                 lost, issued, breaks>>

Pumping == thread = "pump" /\ parsed = <<>>

FaultFramesOverlap ==
  /\ thread = "pump"
  /\ fromServer # <<>>
  /\ parsed' = Head(fromServer) \o parsed
  /\ fromServer' = Tail(fromServer)
  /\ UNCHANGED <<thread, outbound, inbound, adapterVars, wire, toServer, listening, deviceVars,
                 lost, issued, breaks>>

ReadFrame ==
  /\ Pumping
  /\ fromServer # <<>>
  /\ parsed' = Head(fromServer)
  /\ fromServer' = Tail(fromServer)
  /\ UNCHANGED <<thread, outbound, inbound, adapterVars, wire, toServer, listening, deviceVars,
                 lost, issued, breaks>>

(* The updates of a frame are queued one by one; a tick may come between.  *)
QueueUpdate ==
  /\ parsed # <<>>
  /\ inbound' = Append(inbound, Head(parsed))
  /\ parsed' = Tail(parsed)
  /\ UNCHANGED <<thread, outbound, adapterVars, wireVars, deviceVars, lost, issued, breaks>>

ReadEnds ==
  /\ Pumping
  /\ wire = "broken" /\ fromServer = <<>>
  /\ thread' = "sleep"
  /\ UNCHANGED <<outbound, parsed, inbound, adapterVars, wireVars, deviceVars, lost, issued, breaks>>

FaultRequeued ==
  /\ Pumping
  /\ outbound # <<>>
  /\ outbound' = IF wire = "up" THEN Tail(outbound) ELSE Append(Tail(outbound), Head(outbound))
  /\ toServer' = IF wire = "up" THEN Append(toServer, Head(outbound)) ELSE toServer
  /\ thread' = IF wire = "up" THEN "pump" ELSE "sleep"
  /\ UNCHANGED <<parsed, inbound, adapterVars, wire, fromServer, listening, deviceVars, lost, issued, breaks>>

(* A frame that is written to a broken connection is lost, whether the     *)
(* write notices or not.                                                   *)
WriteFrame ==
  /\ Pumping
  /\ outbound # <<>>
  /\ outbound' = Tail(outbound)
  /\ IF wire = "up"
     THEN /\ toServer' = Append(toServer, Head(outbound))
          /\ UNCHANGED <<thread, lost>>
     ELSE /\ lost' = lost \cup {Head(outbound)}
          /\ thread' \in {"pump", "sleep"}
          /\ UNCHANGED toServer
  /\ UNCHANGED <<parsed, inbound, adapterVars, wire, fromServer, listening, deviceVars, issued, breaks>>

FaultFlushed ==
  /\ thread = "sleep"
  /\ thread' = "connect"
  /\ wire' = "none" /\ fromServer' = <<>>
  /\ outbound' = <<>>
  /\ UNCHANGED <<parsed, inbound, adapterVars, toServer, listening, deviceVars, lost, issued, breaks>>

(* RECONNECT_DELAY; the socket is dropped with what was not read from it.  *)
Retry ==
  /\ thread = "sleep"
  /\ thread' = "connect"
  /\ wire' = "none" /\ fromServer' = <<>>
  /\ UNCHANGED <<outbound, parsed, inbound, adapterVars, toServer, listening, deviceVars, lost, issued, breaks>>

-----------------------------------------------------------------------------
(* The socket, the server and the device *)

(* Frames towards the server are lost; so are the last of those from it.   *)
Break ==
  /\ wire = "up"
  /\ breaks < MaxBreaks
  /\ breaks' = breaks + 1
  /\ wire' = "broken"
  /\ listening' = FALSE
  /\ toServer' = <<>>
  /\ lost' = lost \cup ({toServer[i] : i \in DOMAIN toServer} \ {Listen})
  /\ \E n \in 0 .. Len(fromServer) : fromServer' = SubSeq(fromServer, 1, n)
  /\ UNCHANGED <<thread, outbound, parsed, inbound, adapterVars, deviceVars, issued>>

Value(a, v) == [attr |-> a, value |-> v, notification |-> FALSE]

Reports(updates) == IF listening THEN fromServer \o updates ELSE fromServer

(* In which order the server lists attributes is its own affair: it has one. *)
Listed(attrs) ==
  CHOOSE s \in [1 .. Cardinality(attrs) -> attrs] : \A a \in attrs : \E i \in DOMAIN s : s[i] = a

(* The device's attributes change, and each is reported in its own frame.  *)
Becomes(attrs, new) ==
  /\ device' = [a \in Attrs |-> IF a \in attrs THEN new ELSE device[a]]
  /\ LET names == Listed(attrs)
     IN  fromServer' = Reports([i \in DOMAIN names |-> << Value(names[i], new) >>])

(* The snapshot, in one frame, repeats the last press.                     *)
Snapshot ==
  LET names == Listed(Attrs)
  IN  [i \in DOMAIN names |-> Value(names[i], device[names[i]])]
        \o (IF scene = 0 THEN <<>> ELSE << Value("scene", scene) >>)

ServerListens ==
  /\ wire = "up" /\ toServer # <<>> /\ Head(toServer) = Listen
  /\ toServer' = Tail(toServer)
  /\ listening' = TRUE
  /\ fromServer' = Append(fromServer, Snapshot)
  /\ UNCHANGED <<thread, outbound, parsed, inbound, adapterVars, wire, deviceVars, lost, issued, breaks>>

ServerExecutes ==
  /\ wire = "up" /\ toServer # <<>> /\ Head(toServer) # Listen
  /\ toServer' = Tail(toServer)
  /\ executed' = Append(executed, Head(toServer))
  /\ Becomes(Attrs, Len(executed') + changes)
  /\ UNCHANGED <<thread, outbound, parsed, inbound, adapterVars, wire, listening, scene, changes,
                 lost, issued, breaks>>

Change(a) ==
  /\ changes < MaxChanges
  /\ changes' = changes + 1
  /\ Becomes({a}, Len(executed) + changes')
  /\ UNCHANGED <<thread, outbound, parsed, inbound, adapterVars, wire, toServer, listening, scene,
                 executed, lost, issued, breaks>>

Press ==
  /\ scene < MaxPresses
  /\ scene' = scene + 1
  /\ fromServer' = Reports(<< << [attr |-> "scene", value |-> scene', notification |-> TRUE] >> >>)
  /\ UNCHANGED <<thread, outbound, parsed, inbound, adapterVars, wire, toServer, listening, device,
                 executed, changes, lost, issued, breaks>>

Transport == \/ Connected \/ Handshake \/ ReadFrame \/ QueueUpdate \/ ReadEnds \/ WriteFrame \/ Retry

Next ==
  \/ Dispatch \/ Tick
  \/ Transport \/ ConnectFailed
  \/ Break \/ ServerListens \/ ServerExecutes \/ Press
  \/ \E a \in Attrs : Change(a)

Spec == Init /\ [][Next]_vars

(* The transport's task runs on, and select! does not starve a branch that *)
(* stays ready; the server, once reachable, answers; the host ticks.       *)
Fairness ==
  /\ WF_vars(Connected) /\ WF_vars(Handshake) /\ WF_vars(ReadFrame) /\ WF_vars(QueueUpdate)
  /\ WF_vars(ReadEnds) /\ WF_vars(WriteFrame) /\ WF_vars(Retry)
  /\ WF_vars(ServerListens \/ ServerExecutes)
  /\ WF_vars(Tick)

FairSpec == Spec /\ Fairness
=============================================================================
