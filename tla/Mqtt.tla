-------------------------------- MODULE Mqtt --------------------------------
(***************************************************************************)
(* The zigbee2mqtt adapter (zigbee2mqtt.rs) between the engine and a       *)
(* broker.  Plugin::build subscribes on the engine's thread, through the   *)
(* client library's bounded request channel; only then does the thread     *)
(* start that empties it.  The first tick asks every device for its state. *)
(*                                                                         *)
(* A value is the field of the device it belongs to and a number that is   *)
(* new at every change, so it says whose it is and when it was current.    *)
(*                                                                         *)
(* External: the client library resends, after a break, what it had not    *)
(* seen acknowledged and what was waiting, or forgets it, and does not     *)
(* subscribe again; the broker forgets a session with its connection and   *)
(* keeps no report; zigbee2mqtt reports the whole state of a device.       *)
(***************************************************************************)
EXTENDS Integers, Sequences, FiniteSets


CONSTANTS
  NONE,
  Devices,
  Name,          \* device -> its friendly name, shared by the loads of one node
  Channel,       \* device -> its load, or NONE for the whole node
  Capabilities,  \* device -> the capabilities declared for it
  Capacity,      \* of the request channel
  MaxValues,     \* bound: commands the adapter accepts and changes the devices make
  MaxBreaks      \* bound: failed connects and broken connections

Names == {Name[d] : d \in Devices}

ASSUME MqttAssumption ==
  /\ IsFiniteSet(Devices)
  /\ DOMAIN Name = Devices /\ DOMAIN Channel = Devices /\ DOMAIN Capabilities = Devices
  /\ Capacity \in Nat \ {0}
  /\ MaxValues \in Nat /\ MaxBreaks \in Nat

RootOnly == {"Brightness", "Color", "ColorTemperature", "Occupancy", "Battery", "Temperature",
             "Humidity", "Illuminance", "Power", "Contact", "WaterLeak", "Smoke"}

(* The JSON key of a capability: state, state_l1, brightness, ...          *)
Field(cap, channel) == IF cap = "Switch" THEN <<"state", channel>> ELSE <<cap, NONE>>

(* read_attr *)
Readable(cap, channel) ==
  \/ cap = "Switch"
  \/ channel = NONE /\ cap \in {"Brightness", "Color", "ColorTemperature", "Power"}

(* command_to_publish has a payload.                                       *)
Settable(cap, channel) ==
  \/ cap = "Switch"
  \/ channel = NONE /\ cap \in {"Brightness", "Color", "ColorTemperature"}

FaultReports(d, payload) ==
  LET states == {f \in DOMAIN payload : f[1] = "state"}
  IN  [cap \in {c \in {"Switch"} : states # {}} |-> payload[CHOOSE f \in states : TRUE]]

(* json_to_device_events: what a device reads in the payload of its node,   *)
(* declared or not.                                                        *)
Reports(d, payload) ==
  LET caps == {cap \in {"Switch"} \cup RootOnly :
                 /\ cap = "Switch" \/ Channel[d] = NONE
                 /\ Field(cap, Channel[d]) \in DOMAIN payload}
  IN  [cap \in caps |-> payload[Field(cap, Channel[d])]]

(* The fields of a node: those of the devices that are configured on it.   *)
Fields(n) == UNION {{Field(cap, Channel[d]) : cap \in Capabilities[d]} : d \in {e \in Devices : Name[e] = n}}

Attrs(n) ==
  UNION {{Field(cap, Channel[d]) : cap \in {c \in Capabilities[d] : Readable(c, Channel[d])}}
           : d \in {e \in Devices : Name[e] = n}}

Get(n, attrs) == [kind |-> "get", name |-> n, attrs |-> attrs]

FaultPrimeRequests == UNION {{Get(n, {a}) : a \in Attrs(n)} : n \in Names}

(* new: one merged /get for each name that has something to read.          *)
PrimeRequests == {Get(n, Attrs(n)) : n \in {m \in Names : Attrs(m) # {}}}

VARIABLES
  toSubscribe, toPrime,   \* what connect, and the first tick, still have to do
  requests,    \* the client library's channel
  pending,     \* what the library sends first: left over from a broken connection
  unacked,     \* publishes sent and not acknowledged
  thread,      \* "none" | "connect" | "pump" | "sleep" | "ended"
  inbound,     \* reports queued for the next tick
  store,       \* device -> capability, once reported to the engine -> value
  dropped,     \* history: the prime requests that found the channel full
  accepted,    \* history: the commands answered with Ok
  forgotten,   \* history: the commands the library forgot with a session
  subscribed,  \* names, in the session
  toBroker, toClient,     \* the connection, in both directions
  world,       \* name -> field -> value
  executed,    \* history: the commands the devices executed, in order
  stamp, breaks  \* bounds, and the source of new values

engineVars == <<toSubscribe, toPrime, store, dropped, accepted>>
clientVars == <<requests, pending, unacked, thread, inbound, forgotten>>
brokerVars == <<subscribed, toBroker, toClient>>
deviceVars == <<world, executed>>
vars == <<engineVars, clientVars, brokerVars, deviceVars, stamp, breaks>>

Value(n, f, i) == [of |-> <<n, f>>, number |-> i]

Init ==
  /\ toSubscribe = Names /\ toPrime = PrimeRequests
  /\ requests = <<>> /\ pending = <<>> /\ unacked = <<>> /\ inbound = <<>>
  /\ thread = IF Names = {} THEN "connect" ELSE "none"
  /\ store = [d \in Devices |-> <<>>]
  /\ dropped = {} /\ accepted = {} /\ forgotten = {}
  /\ subscribed = {} /\ toBroker = <<>> /\ toClient = <<>>
  /\ world = [n \in Names |-> [f \in Fields(n) |-> Value(n, f, 0)]]
  /\ executed = <<>> /\ stamp = 0 /\ breaks = 0

-----------------------------------------------------------------------------
(* The adapter, on the engine's thread *)

Full == Len(requests) >= Capacity

FaultSubscribe(n) ==
  /\ n \in toSubscribe
  /\ ~Full
  /\ LET devices == {d \in Devices : Name[d] = n}
     IN  requests' = requests \o [i \in 1 .. 2 * Cardinality(devices) |->
                       IF i % 2 = 1 THEN [kind |-> "subscribe", name |-> n] ELSE Get(n, Attrs(n))]
  /\ toSubscribe' = toSubscribe \ {n}
  /\ thread' = IF toSubscribe' = {} THEN "connect" ELSE thread
  /\ UNCHANGED <<toPrime, store, dropped, accepted, pending, unacked, inbound, forgotten,
                 brokerVars, deviceVars, stamp, breaks>>

(* connect: subscribe blocks while the channel is full; the thread is       *)
(* spawned after the last.  The topics come out of a hash set.             *)
Subscribe(n) ==
  /\ n \in toSubscribe
  /\ ~Full
  /\ requests' = Append(requests, [kind |-> "subscribe", name |-> n])
  /\ toSubscribe' = toSubscribe \ {n}
  /\ thread' = IF toSubscribe' = {} THEN "connect" ELSE thread
  /\ UNCHANGED <<toPrime, store, dropped, accepted, pending, unacked, inbound, forgotten,
                 brokerVars, deviceVars, stamp, breaks>>

(* The loop over prime_requests in the first tick, in any order; its       *)
(* try_publish fails when the channel is full, and the result is ignored.  *)
Prime(r) ==
  /\ toSubscribe = {}
  /\ r \in toPrime
  /\ toPrime' = toPrime \ {r}
  /\ requests' = IF Full THEN requests ELSE Append(requests, r)
  /\ dropped' = IF Full THEN dropped \cup {r} ELSE dropped
  /\ UNCHANGED <<toSubscribe, store, accepted, pending, unacked, thread, inbound, forgotten,
                 brokerVars, deviceVars, stamp, breaks>>

Running == toSubscribe = {} /\ toPrime = {}

(* The messages about a device: each is read by all that share its name.   *)
About(d, messages) == {i \in DOMAIN messages : messages[i].name = Name[d]}

LastRead(d, cap, messages) ==
  CHOOSE i \in About(d, messages) :
    /\ cap \in DOMAIN Reports(d, messages[i].state)
    /\ \A j \in About(d, messages) : cap \in DOMAIN Reports(d, messages[j].state) => j <= i

(* What the events of a device leave in the engine's store.                *)
Learned(d, messages) ==
  LET news == UNION {DOMAIN Reports(d, messages[i].state) : i \in About(d, messages)}
  IN  [cap \in news \cup DOMAIN store[d] |->
        IF cap \in news THEN Reports(d, messages[LastRead(d, cap, messages)].state)[cap]
                        ELSE store[d][cap]]

FaultFolded(messages) ==
  [d \in Devices |-> IF d = CHOOSE e \in Devices : Name[e] = Name[d] THEN Learned(d, messages) ELSE store[d]]

Folded(messages) == [d \in Devices |-> Learned(d, messages)]

(* tick, with poll *)
Tick ==
  /\ Running
  /\ inbound # <<>>
  /\ inbound' = <<>>
  /\ store' = Folded(inbound)
  /\ UNCHANGED <<toSubscribe, toPrime, dropped, accepted, requests, pending, unacked, thread,
                 forgotten, brokerVars, deviceVars, stamp, breaks>>

FaultDispatch(d, cap) ==
  /\ Running /\ stamp < MaxValues /\ cap \in Capabilities[d]
  /\ Settable(cap, Channel[d])
  /\ stamp' = stamp + 1
  /\ LET set == [kind |-> "set", name |-> Name[d], value |-> Value(Name[d], Field(cap, Channel[d]), stamp')]
     IN  /\ accepted' = accepted \cup {[value |-> set.value, breaks |-> breaks]}
         /\ requests' = IF Full THEN requests ELSE Append(requests, set)
  /\ UNCHANGED <<toSubscribe, toPrime, store, dropped, pending, unacked, thread, inbound,
                 forgotten, brokerVars, deviceVars, breaks>>

(* dispatch, when it answers Ok; it answers Transient while the channel is *)
(* full and Permanent if there is no payload, and changes nothing.         *)
Dispatch(d, cap) ==
  /\ Running /\ stamp < MaxValues /\ cap \in Capabilities[d]
  /\ Settable(cap, Channel[d])
  /\ ~Full
  /\ stamp' = stamp + 1
  /\ LET set == [kind |-> "set", name |-> Name[d], value |-> Value(Name[d], Field(cap, Channel[d]), stamp')]
     IN  /\ accepted' = accepted \cup {[value |-> set.value, breaks |-> breaks]}
         /\ requests' = Append(requests, set)
  /\ UNCHANGED <<toSubscribe, toPrime, store, dropped, pending, unacked, thread, inbound,
                 forgotten, brokerVars, deviceVars, breaks>>

-----------------------------------------------------------------------------
(* The thread of connect, around the client library's event loop *)

SetValues(s) == {s[i].value : i \in {j \in DOMAIN s : s[j].kind = "set"}}

(* A new session, and perhaps the end of what the last one left.           *)
Connected ==
  /\ thread = "connect"
  /\ thread' = "pump"
  /\ \/ UNCHANGED <<pending, forgotten>>
     \/ /\ pending # <<>>
        /\ pending' = <<>>
        /\ forgotten' = forgotten \cup SetValues(pending)
  /\ UNCHANGED <<engineVars, requests, unacked, inbound, brokerVars, deviceVars, stamp, breaks>>

ConnectFailed ==
  /\ thread = "connect"
  /\ breaks < MaxBreaks
  /\ breaks' = breaks + 1
  /\ thread' = "sleep"
  /\ UNCHANGED <<engineVars, requests, pending, unacked, inbound, forgotten, brokerVars, deviceVars, stamp>>

(* What is left of this connection and what waits for it is put aside, in  *)
(* an order that is the library's; what is still on the wire is lost.      *)
Broken ==
  /\ thread = "pump"
  /\ breaks < MaxBreaks
  /\ breaks' = breaks + 1
  /\ thread' = "sleep"
  /\ pending' \in {unacked \o pending \o requests, pending \o unacked \o requests}
  /\ unacked' = <<>> /\ requests' = <<>> /\ toBroker' = <<>> /\ toClient' = <<>>
  /\ subscribed' = {}
  /\ UNCHANGED <<engineVars, inbound, forgotten, deviceVars, stamp>>

FaultRecover ==
  /\ thread = "sleep"
  /\ thread' = "ended"
  /\ UNCHANGED <<engineVars, requests, pending, unacked, inbound, forgotten, brokerVars, deviceVars,
                 stamp, breaks>>

(* The error arm sleeps for RECONNECT_DELAY; iter() then connects again.   *)
Recover ==
  /\ thread = "sleep"
  /\ thread' = "connect"
  /\ UNCHANGED <<engineVars, requests, pending, unacked, inbound, forgotten, brokerVars, deviceVars,
                 stamp, breaks>>

Send ==
  /\ thread = "pump"
  /\ LET request == IF pending # <<>> THEN Head(pending) ELSE Head(requests)
     IN  /\ pending # <<>> \/ requests # <<>>
         /\ toBroker' = Append(toBroker, request)
         /\ unacked' = IF request.kind = "subscribe" THEN unacked ELSE Append(unacked, request)
  /\ IF pending # <<>> THEN pending' = Tail(pending) /\ UNCHANGED requests
                       ELSE requests' = Tail(requests) /\ UNCHANGED pending
  /\ UNCHANGED <<engineVars, thread, inbound, forgotten, subscribed, toClient, deviceVars, stamp, breaks>>

(* An incoming publish is queued for the next tick; anything else changes  *)
(* nothing here.                                                           *)
Receive ==
  /\ thread = "pump"
  /\ toClient # <<>>
  /\ toClient' = Tail(toClient)
  /\ IF Head(toClient).kind = "publish"
     THEN inbound' = Append(inbound, Head(toClient)) /\ UNCHANGED unacked
     ELSE unacked' = Tail(unacked) /\ UNCHANGED inbound
  /\ UNCHANGED <<engineVars, requests, pending, thread, forgotten, subscribed, toBroker, deviceVars,
                 stamp, breaks>>

-----------------------------------------------------------------------------
(* Broker, zigbee2mqtt and devices: external *)

Publish(n, state) == [kind |-> "publish", name |-> n, state |-> state]
Ack == [kind |-> "ack"]

(* A device reports after a read and after a change.                       *)
Serve ==
  /\ toBroker # <<>>
  /\ toBroker' = Tail(toBroker)
  /\ LET request == Head(toBroker)
         n       == request.name
         report  == IF n \in subscribed THEN <<Publish(n, world'[n])>> ELSE <<>>
     IN  \/ /\ request.kind = "subscribe"
            /\ subscribed' = subscribed \cup {n}
            /\ UNCHANGED <<world, executed, toClient>>
         \/ /\ request.kind = "get"
            /\ UNCHANGED <<world, executed, subscribed>>
            /\ toClient' = toClient \o <<Ack>> \o report
         \/ /\ request.kind = "set"
            /\ world' = [world EXCEPT ![n][request.value.of[2]] = request.value]
            /\ executed' = Append(executed, request.value)
            /\ UNCHANGED subscribed
            /\ toClient' = toClient \o <<Ack>> \o report
  /\ UNCHANGED <<engineVars, clientVars, stamp, breaks>>

(* Somebody uses the switch on the wall.                                   *)
Change(n, f) ==
  /\ stamp < MaxValues
  /\ stamp' = stamp + 1
  /\ world' = [world EXCEPT ![n][f] = Value(n, f, stamp')]
  /\ toClient' = IF n \in subscribed THEN Append(toClient, Publish(n, world'[n])) ELSE toClient
  /\ UNCHANGED <<engineVars, clientVars, subscribed, toBroker, executed, breaks>>

-----------------------------------------------------------------------------

Engine ==
  \/ \E n \in Names : Subscribe(n)
  \/ \E r \in PrimeRequests : Prime(r)
  \/ Tick

Library == Connected \/ Recover \/ Send \/ Receive

Next ==
  \/ Engine
  \/ \E d \in Devices : \E cap \in Capabilities[d] : Dispatch(d, cap)
  \/ Library \/ ConnectFailed \/ Broken
  \/ Serve
  \/ \E n \in Names : \E f \in Fields(n) : Change(n, f)

Spec == Init /\ [][Next]_vars

(* The engine's thread, the transport's and the broker run on.             *)
FairSpec == Spec /\ WF_vars(Engine) /\ WF_vars(Library) /\ WF_vars(Serve)
=============================================================================
