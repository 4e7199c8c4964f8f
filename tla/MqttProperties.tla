--------------------------- MODULE MqttProperties ---------------------------
(***************************************************************************)
(* What the zigbee2mqtt adapter promises the engine.                       *)
(***************************************************************************)
EXTENDS Mqtt

Values == [of : UNION {{n} \X Fields(n) : n \in Names}, number : Nat]
Subscriptions == {[kind |-> "subscribe", name |-> n] : n \in Names}

(* A command goes to the node whose field its value belongs to.            *)
Sets == {r \in [kind : {"set"}, name : Names, value : Values] : r.value.of[1] = r.name}
Requests == Subscriptions \cup PrimeRequests \cup Sets

(* What zigbee2mqtt says of a node: each of its fields has a value of its. *)
States(n) == {s \in [Fields(n) -> Values] : \A f \in Fields(n) : s[f].of = <<n, f>>}
IsReport(m) == m.name \in Names /\ m.state \in States(m.name) /\ m = Publish(m.name, m.state)

TypeOK ==
  /\ toSubscribe \subseteq Names /\ toPrime \subseteq PrimeRequests /\ dropped \subseteq PrimeRequests
  /\ requests \in Seq(Requests) /\ pending \in Seq(Requests) /\ toBroker \in Seq(Requests)
  /\ unacked \in Seq(Requests)
  /\ thread \in {"none", "connect", "pump", "sleep"}
  /\ forgotten \subseteq Values /\ executed \in Seq(Values)
  /\ \A a \in accepted : a.value \in Values /\ a.breaks \in 0 .. breaks
  /\ subscribed \subseteq Names
  /\ DOMAIN store = Devices
  /\ \A d \in Devices : DOMAIN store[d] \subseteq {"Switch"} \cup RootOnly
  /\ DOMAIN world = Names /\ \A n \in Names : world[n] \in States(n)
  /\ \A i \in DOMAIN inbound : IsReport(inbound[i])
  /\ \A i \in DOMAIN toClient : toClient[i] = Ack \/ IsReport(toClient[i])
  /\ stamp \in Nat /\ breaks \in Nat

(* Building the adapter never waits, as long as the channel has room for a  *)
(* subscription of every name: nobody empties it yet (connect subscribes    *)
(* before it spawns the thread, zigbee2mqtt.rs:542-548).                   *)
SubscribeNeverBlocks ==
  Cardinality(Names) <= Capacity => (toSubscribe # {} => ~Full)

(* Of the requests that prime the devices, at least as many get through as *)
(* the subscriptions leave room for; the others are dropped unseen (tick,  *)
(* zigbee2mqtt.rs:229-234), although nothing is wrong with the broker.     *)
PrimesGetThrough ==
  dropped # {} =>
    Cardinality(dropped) + Capacity <= Cardinality(Names) + Cardinality({n \in Names : Attrs(n) # {}})

(* What the engine believes of a load is a value which that very load had:  *)
(* the loads of one node report under one name (json_to_device_events).    *)
BelievesOwnLoad ==
  \A d \in Devices : \A cap \in DOMAIN store[d] :
    store[d][cap].of = <<Name[d], Field(cap, Channel[d])>>

Executed == {executed[i] : i \in DOMAIN executed}

(* A command that dispatch answered with Ok is on its way, executed, or was *)
(* forgotten with a session, and without a break it is executed at most    *)
(* once (try_publish with QoS 1).                                          *)
CommandsKept ==
  /\ \A a \in accepted :
       a.value \in Executed \cup forgotten
         \cup SetValues(requests) \cup SetValues(pending) \cup SetValues(unacked)
  /\ breaks = 0 => forgotten = {} /\ Len(executed) = Cardinality(Executed)

(* A command is its number: what was accepted, what the library or the wire *)
(* will still bring to the broker, and what the devices executed.          *)
SetNumbers(s) == {v.number : v \in SetValues(s)}

Down == breaks > 0 /\ thread # "pump"
Sent == {a.value.number : a \in accepted}
Delivered == [i \in DOMAIN executed |-> executed[i].number]
Recent == {a.value.number : a \in {b \in accepted : b.breaks = breaks}}
Underway == SetNumbers(toBroker) \cup SetNumbers(pending) \cup SetNumbers(requests)

Commands == INSTANCE Delivery WITH
  Repeats <- TRUE, down <- Down, sent <- Sent, underway <- Underway, fresh <- Recent \cap Underway,
  delivered <- Delivered

(* The link keeps what it promises the engine: between two breaks a command *)
(* that was accepted since the first is executed once, after all accepted   *)
(* before it and before all accepted after it; a break repeats only what    *)
(* was under way or executed, and only a session that failed forgets (the   *)
(* one request channel, QoS 1).                                            *)
Delivers == Commands!Spec

Agrees(d, cap) == store[d][cap] = world[Name[d]][Field(cap, Channel[d])]

(* Until a connection breaks, the engine comes to know every device: at    *)
(* the latest from the answer to the first tick's request, and any later   *)
(* change from its report.                                                 *)
LearnsUntilBreak ==
  <>[](breaks = 0 =>
        \A d \in Devices : \A cap \in Capabilities[d] :
          IF cap \in DOMAIN store[d] THEN Agrees(d, cap)
          ELSE Readable(cap, Channel[d]) => \E r \in dropped : r.name = Name[d])

ExecutedOn(of) == SelectSeq(executed, LAMBDA v : v.of = of)

(* However often the connection breaks, of the commands to one load the     *)
(* last is executed last, if it was accepted after the last break: what is *)
(* repeated goes before what is new (the one request channel).             *)
LastCommandWins ==
  <>[](\A a \in accepted :
         LET same == {b \in accepted : b.value.of = a.value.of}
             mine == ExecutedOn(a.value.of)
         IN  a.breaks = breaks /\ (\A b \in same : b.value.number <= a.value.number)
               => mine # <<>> /\ mine[Len(mine)] = a.value)

(* Claimed: a broker that goes away "isn't fatal -- the engine runs on while *)
(* it retries" (ARCHITECTURE.md:440), so that once connections hold, the    *)
(* engine knows again what the devices do.                                 *)
OutagesHeal ==
  <>[](\A d \in Devices : \A cap \in Capabilities[d] \cap DOMAIN store[d] : Agrees(d, cap))
=============================================================================
