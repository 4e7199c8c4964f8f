----------------------------- MODULE MqttProofs -----------------------------
(***************************************************************************)
(* The zigbee2mqtt adapter, for any devices and any capacity of the        *)
(* request channel: its start; what the engine believes of each load; and  *)
(* what becomes of each command, through the channel, the wire and breaks. *)
(***************************************************************************)
EXTENDS MqttProperties, SequenceTheorems, FiniteSetTheorems, WellFoundedInduction, TLAPS

(* The names that have something to read: one prime request for each.      *)
Primed == {n \in Names : Attrs(n) # {}}

LEMMA NamesFinite == IsFiniteSet(Names) /\ Cardinality(Names) \in Nat
<1> DEFINE f == [d \in Devices |-> Name[d]]
<1>1. f \in Surjection(Devices, Names)
  BY DEF Names, Surjection
<1>2. HIDE DEF f
<1>3. IsFiniteSet(Devices)
  BY MqttAssumption
<1>4. IsFiniteSet(Names)
  BY <1>1, <1>3, FS_Surjection
<1>5. QED
  BY <1>4, FS_CardinalityType

LEMMA PrimesFinite ==
  /\ IsFiniteSet(PrimeRequests) /\ Cardinality(PrimeRequests) \in Nat
  /\ Cardinality(Primed) \in Nat
  /\ Cardinality(PrimeRequests) <= Cardinality(Primed)
<1>1. IsFiniteSet(Primed) /\ Cardinality(Primed) \in Nat
  BY NamesFinite, FS_Subset, FS_CardinalityType DEF Primed
<1> DEFINE f == [n \in Primed |-> Get(n, Attrs(n))]
<1>2. f \in Surjection(Primed, PrimeRequests)
  BY DEF Surjection, Primed, PrimeRequests
<1>3. QED
  BY <1>1, <1>2, FS_Surjection, FS_CardinalityType

-----------------------------------------------------------------------------

(* While connect subscribes, the channel holds the subscriptions made so   *)
(* far and nothing takes from it.                                          *)
SubscribingInv ==
  /\ toSubscribe \subseteq Names
  /\ requests \in Seq(Requests)
  /\ toSubscribe # {} =>
       /\ thread = "none"
       /\ toPrime = PrimeRequests
       /\ Len(requests) + Cardinality(toSubscribe) = Cardinality(Names)
       /\ Len(requests) <= Capacity

startVars == <<toSubscribe, requests, thread, toPrime>>

LEMMA SubscribingInit == Init => SubscribingInv
BY NamesFinite, MqttAssumption DEF Init, SubscribingInv

(* Every subscription takes a name from the set and a place in the channel. *)
LEMMA SubscribingSubscribe ==
  ASSUME SubscribingInv, NEW n \in Names, Subscribe(n) PROVE SubscribingInv'
<1>1. /\ n \in toSubscribe /\ toSubscribe' = toSubscribe \ {n}
      /\ requests' = Append(requests, [kind |-> "subscribe", name |-> n])
      /\ Len(requests) < Capacity
      /\ thread' = IF toSubscribe' = {} THEN "connect" ELSE thread
      /\ toPrime' = toPrime
  BY MqttAssumption DEF Subscribe, Full, SubscribingInv
<1>2. Cardinality(toSubscribe') = Cardinality(toSubscribe) - 1
      /\ Cardinality(toSubscribe) \in Nat
  BY <1>1, NamesFinite, FS_Subset, FS_RemoveElement, FS_CardinalityType DEF SubscribingInv
<1>3. requests' \in Seq(Requests) /\ Len(requests') = Len(requests) + 1
  BY <1>1 DEF SubscribingInv, Requests, Subscriptions
<1>4. QED
  BY <1>1, <1>2, <1>3, NamesFinite, MqttAssumption DEF SubscribingInv

(* The values of a node's fields, and the commands to it.                  *)
Own(n) == [of : {n} \X Fields(n), number : Nat]

LEMMA OwnValues == \A n \in Names : Own(n) \subseteq Values
BY DEF Own, Values

LEMMA OwnSets ==
  ASSUME NEW n \in Names, NEW v \in Own(n) PROVE [kind |-> "set", name |-> n, value |-> v] \in Requests
<1>1. v \in Values /\ v.of[1] = n
  BY OwnValues DEF Own
<1>2. [kind |-> "set", name |-> n, value |-> v] \in Sets
  BY <1>1 DEF Sets
<1>3. QED
  BY <1>2 DEF Requests

LEMMA SetsOwn == ASSUME NEW r \in Sets PROVE r.kind = "set" /\ r.name \in Names /\ r.value \in Own(r.name)
<1>1. r.kind = "set" /\ r.name \in Names /\ r.value \in Values /\ r.value.of[1] = r.name
  BY DEF Sets
<1>2. PICK v : v = r.value
  OBVIOUS
<1>3. PICK n \in Names : v = [of |-> v.of, number |-> v.number] /\ v.of \in {n} \X Fields(n) /\ v.number \in Nat
  BY <1>1, <1>2 DEF Values
<1>4. v.of[1] = n
  BY <1>3
<1>5. n = r.name
  BY <1>1, <1>2, <1>4
<1>6. [of |-> v.of, number |-> v.number] \in Own(n)
  BY <1>3 DEF Own
<1>7. QED
  BY <1>1, <1>2, <1>3, <1>5, <1>6

(* A command is a request like any other.                                  *)
LEMMA DispatchRequests ==
  ASSUME requests \in Seq(Requests), stamp \in Nat,
         NEW d \in Devices, NEW cap \in Capabilities[d], Dispatch(d, cap)
  PROVE  requests' \in Seq(Requests) /\ stamp' \in Nat
<1> DEFINE n == Name[d]
           field == Field(cap, Channel[d])
           set == [kind |-> "set", name |-> n, value |-> Value(n, field, stamp')]
<1>1. requests' = Append(requests, set) /\ stamp' = stamp + 1
  BY DEF Dispatch
<1>2. n \in Names /\ field \in Fields(n)
  BY DEF Names, Fields
<1>3. Value(n, field, stamp') \in Own(n)
  BY <1>1, <1>2 DEF Value, Own
<1>4. set \in Requests
  BY <1>2, <1>3, OwnSets
<1>5. QED
  BY <1>1, <1>4

StartInv == SubscribingInv /\ stamp \in Nat

(* The actions of the library, the broker and the devices, as far as the    *)
(* start is concerned: they take from the channel, and only once the thread *)
(* runs.                                                                   *)
LEMMA SubscribingOthers ==
  ASSUME StartInv, Library \/ ConnectFailed \/ Broken \/ Serve \/ Tick \/ UNCHANGED vars
  PROVE  StartInv'
<1>1. /\ UNCHANGED <<toSubscribe, toPrime, stamp>>
      /\ \/ UNCHANGED <<requests, thread>>
         \/ thread # "none" /\ requests' \in {requests, <<>>}
         \/ thread # "none" /\ requests # <<>> /\ requests' = Tail(requests)
  BY DEF Library, Connected, Recover, Send, Receive, ConnectFailed, Broken, Serve, Tick, vars,
         engineVars, clientVars, deviceVars
<1>2. <<>> \in Seq(Requests) /\ \A s \in Seq(Requests) : s # <<>> => Tail(s) \in Seq(Requests)
  OBVIOUS
<1>3. requests' \in Seq(Requests)
  BY <1>1, <1>2 DEF StartInv, SubscribingInv
<1>4. QED
  BY <1>1, <1>3 DEF StartInv, SubscribingInv

LEMMA SubscribingNext == StartInv /\ [Next]_vars => StartInv'
<1>1. SUFFICES ASSUME StartInv, [Next]_vars PROVE StartInv'
  OBVIOUS
<1>2. ASSUME NEW n \in Names, Subscribe(n) PROVE StartInv'
  <2>1. SubscribingInv'
    BY <1>1, <1>2, SubscribingSubscribe DEF StartInv
  <2>2. QED
    BY <1>1, <1>2, <2>1 DEF StartInv, Subscribe
<1>3. ASSUME NEW r \in PrimeRequests, Prime(r) PROVE StartInv'
  <2>1. requests' \in Seq(Requests)
    BY <1>1, <1>3 DEF Prime, StartInv, SubscribingInv, Requests
  <2>2. QED
    BY <1>1, <1>3, <2>1 DEF Prime, StartInv, SubscribingInv
<1>4. ASSUME NEW d \in Devices, NEW cap \in Capabilities[d], Dispatch(d, cap) PROVE StartInv'
  <2>1. requests' \in Seq(Requests) /\ stamp' \in Nat
    BY <1>1, <1>4, DispatchRequests DEF StartInv, SubscribingInv
  <2>2. toSubscribe = {} /\ toSubscribe' = {}
    BY <1>4 DEF Dispatch, Running
  <2>3. QED
    BY <2>1, <2>2 DEF StartInv, SubscribingInv
<1>5. ASSUME NEW n \in Names, NEW f \in Fields(n), Change(n, f) PROVE StartInv'
  BY <1>1, <1>5 DEF Change, StartInv, SubscribingInv, engineVars, clientVars
<1>6. CASE Library \/ ConnectFailed \/ Broken \/ Serve \/ Tick \/ UNCHANGED vars
  BY <1>1, <1>6, SubscribingOthers
<1>7. QED
  BY <1>1, <1>2, <1>3, <1>4, <1>5, <1>6 DEF Next, Engine

LEMMA StartAlways == Spec => []StartInv
<1>1. Init => StartInv
  BY SubscribingInit DEF Init, StartInv
<1>2. QED
  BY <1>1, SubscribingNext, PTL DEF Spec

(* If the channel has room for a subscription of every friendly name, the   *)
(* engine's thread never waits while it builds the adapter.                *)
THEOREM StartCorrect == Spec => []SubscribeNeverBlocks
<1>1. StartInv => SubscribeNeverBlocks
  <2>1. SUFFICES ASSUME StartInv, Cardinality(Names) <= Capacity, toSubscribe # {} PROVE ~Full
    BY DEF SubscribeNeverBlocks
  <2>2. Cardinality(toSubscribe) \in Nat /\ Cardinality(toSubscribe) # 0
    BY <2>1, NamesFinite, FS_Subset, FS_CardinalityType, FS_EmptySet DEF StartInv, SubscribingInv
  <2>3. QED
    BY <2>1, <2>2, NamesFinite, MqttAssumption DEF Full, StartInv, SubscribingInv
<1>2. QED
  BY <1>1, StartAlways, PTL

(* If it has not, the transport's thread is never spawned: the call that    *)
(* builds the adapter waits for it for ever.                               *)
THEOREM NeverStarts == Cardinality(Names) > Capacity => (Spec => [](thread = "none"))
<1>1. SUFFICES ASSUME Cardinality(Names) > Capacity PROVE Spec => [](thread = "none")
  OBVIOUS
<1> DEFINE Waiting == toSubscribe # {} /\ thread = "none"
<1>2. Init => Waiting
  BY <1>1, NamesFinite, FS_EmptySet, MqttAssumption DEF Init
<1>3. StartInv /\ Waiting /\ [Next]_vars => Waiting'
  <2>1. SUFFICES ASSUME StartInv, Waiting, [Next]_vars PROVE Waiting'
    OBVIOUS
  <2>2. ASSUME NEW n \in Names, Subscribe(n) PROVE Waiting'
    <3>1. toSubscribe' # {}
      <4>1. SUFFICES ASSUME toSubscribe = {n} PROVE FALSE
        BY <2>2 DEF Subscribe
      <4>2. Cardinality(toSubscribe) = 1
        BY <4>1, FS_Singleton
      <4>3. QED
        BY <1>1, <2>1, <2>2, <4>2, NamesFinite, MqttAssumption
        DEF Subscribe, Full, StartInv, SubscribingInv
    <3>2. QED
      BY <2>1, <2>2, <3>1 DEF Subscribe
  <2>3. QED
    BY <2>1, <2>2 DEF Next, Engine, Library, Prime, Running, Tick, Dispatch, Connected, Recover, Send,
       Receive, ConnectFailed, Broken, Serve, Change, vars, engineVars, clientVars
<1>4. QED
  BY <1>2, <1>3, StartAlways, PTL DEF Spec

-----------------------------------------------------------------------------

(* In the first tick the channel holds at most the subscriptions and the   *)
(* prime requests made so far; one is dropped only when it is full.        *)
PrimingInv ==
  /\ toPrime \subseteq PrimeRequests /\ dropped \subseteq PrimeRequests
  /\ toSubscribe # {} => dropped = {}
  /\ toSubscribe = {} /\ toPrime # {} =>
       Len(requests) + Cardinality(toPrime) + Cardinality(dropped)
         <= Cardinality(Names) + Cardinality(PrimeRequests)
  /\ dropped # {} =>
       Capacity + Cardinality(toPrime) + Cardinality(dropped)
         <= Cardinality(Names) + Cardinality(PrimeRequests)

LEMMA PrimingSubscribe ==
  ASSUME StartInv, StartInv', PrimingInv, NEW n \in Names, Subscribe(n) PROVE PrimingInv'
<1>1. dropped = {} /\ dropped' = {} /\ toPrime = PrimeRequests /\ toPrime' = PrimeRequests
  BY DEF Subscribe, PrimingInv, StartInv, SubscribingInv
<1>2. Len(requests') + Cardinality(toSubscribe') = Cardinality(Names)
  <2>1. /\ requests' = Append(requests, [kind |-> "subscribe", name |-> n])
        /\ toSubscribe' = toSubscribe \ {n} /\ n \in toSubscribe
    BY DEF Subscribe
  <2>2. Len(requests') = Len(requests) + 1 /\ Len(requests) \in Nat
    BY <2>1 DEF StartInv, SubscribingInv, Requests, Subscriptions
  <2>3. /\ Cardinality(toSubscribe') = Cardinality(toSubscribe) - 1
        /\ Cardinality(toSubscribe) \in Nat
    BY <2>1, NamesFinite, FS_Subset, FS_RemoveElement, FS_CardinalityType DEF StartInv, SubscribingInv
  <2>4. QED
    BY <2>1, <2>2, <2>3, NamesFinite DEF StartInv, SubscribingInv
<1>3. toSubscribe' = {} => Len(requests') = Cardinality(Names)
  BY <1>2, FS_EmptySet, NamesFinite DEF StartInv, SubscribingInv
<1>4. QED
  BY <1>1, <1>3, NamesFinite, PrimesFinite, FS_EmptySet DEF PrimingInv

(* What one request less to send leaves room for.                          *)
LEMMA PrimingSum ==
  ASSUME NEW l \in Nat, NEW p \in Nat, NEW d \in Nat, NEW x \in Nat, NEW k \in Nat, NEW e \in Nat,
         l + p + d <= x, k + e <= l + d + 1
  PROVE  k + (p - 1) + e <= x
OBVIOUS

LEMMA PrimingPrime ==
  ASSUME StartInv, PrimingInv, NEW r \in PrimeRequests, Prime(r) PROVE PrimingInv'
<1>1. /\ toSubscribe = {} /\ toSubscribe' = {} /\ r \in toPrime /\ toPrime' = toPrime \ {r}
      /\ Full => requests' = requests /\ dropped' = dropped \cup {r}
      /\ ~Full => requests' = Append(requests, r) /\ dropped' = dropped
  BY DEF Prime
<1>2. IsFiniteSet(toPrime) /\ IsFiniteSet(dropped)
  BY PrimesFinite, FS_Subset DEF PrimingInv
<1>3. /\ Cardinality(toPrime) \in Nat /\ Cardinality(toPrime') = Cardinality(toPrime) - 1
      /\ Cardinality(dropped) \in Nat /\ Cardinality(dropped') \in Nat
      /\ Cardinality(dropped') <= Cardinality(dropped) + 1
      /\ ~Full => Cardinality(dropped') = Cardinality(dropped)
  <2>1. Cardinality(toPrime) \in Nat /\ Cardinality(toPrime') = Cardinality(toPrime) - 1
    BY <1>1, <1>2, FS_RemoveElement, FS_CardinalityType
  <2>2. Cardinality(dropped) \in Nat
    BY <1>2, FS_CardinalityType
  <2>3. /\ Cardinality(dropped \cup {r}) \in Nat
        /\ Cardinality(dropped \cup {r}) <= Cardinality(dropped) + 1
    <3>1. Cardinality(dropped \cup {r})
            = IF r \in dropped THEN Cardinality(dropped) ELSE Cardinality(dropped) + 1
      BY <1>2, FS_AddElement, Zenon
    <3>2. QED
      BY <2>2, <3>1
  <2>4. dropped' = dropped \cup {r} \/ dropped' = dropped
    BY <1>1
  <2>5. Cardinality(dropped') \in Nat /\ Cardinality(dropped') <= Cardinality(dropped) + 1
    BY <2>2, <2>3, <2>4
  <2>6. ~Full => Cardinality(dropped') = Cardinality(dropped)
    BY <1>1
  <2>7. QED
    BY <2>1, <2>2, <2>5, <2>6
<1>4. /\ Len(requests) \in Nat
      /\ Full => Len(requests) >= Capacity /\ Len(requests') = Len(requests)
      /\ ~Full => Len(requests') = Len(requests) + 1
  BY <1>1, MqttAssumption DEF Full, StartInv, SubscribingInv, Requests
<1>5. /\ toPrime' \subseteq PrimeRequests /\ dropped' \subseteq PrimeRequests
  BY <1>1 DEF PrimingInv
<1>6. Len(requests) + Cardinality(toPrime) + Cardinality(dropped)
        <= Cardinality(Names) + Cardinality(PrimeRequests)
  BY <1>1 DEF PrimingInv
<1>b. Cardinality(Names) + Cardinality(PrimeRequests) \in Nat /\ Capacity \in Nat
  BY NamesFinite, PrimesFinite, MqttAssumption
<1>c. PICK x \in Nat : x = Cardinality(Names) + Cardinality(PrimeRequests)
  BY <1>b
<1>7. Len(requests') + Cardinality(toPrime') + Cardinality(dropped')
        <= Cardinality(Names) + Cardinality(PrimeRequests)
  <2>1. Len(requests') \in Nat /\ Len(requests') + Cardinality(dropped') <= Len(requests) + Cardinality(dropped) + 1
    <3>1. CASE Full
      BY <1>3, <1>4, <3>1
    <3>2. CASE ~Full
      BY <1>3, <1>4, <3>2
    <3>3. QED
      BY <3>1, <3>2
  <2>2. QED
    BY <1>3, <1>4, <1>6, <1>c, <2>1, PrimingSum
<1>8. dropped' # {} => Capacity + Cardinality(toPrime') + Cardinality(dropped')
                         <= Cardinality(Names) + Cardinality(PrimeRequests)
  <2>1. CASE Full
    <3>1. Capacity + Cardinality(dropped') <= Len(requests) + Cardinality(dropped) + 1
      BY <1>3, <1>4, <1>b, <2>1
    <3>2. QED
      BY <1>3, <1>4, <1>6, <1>b, <1>c, <3>1, PrimingSum
  <2>2. CASE ~Full
    <3>1. dropped' # {} => Capacity + Cardinality(toPrime) + Cardinality(dropped)
                             <= Cardinality(Names) + Cardinality(PrimeRequests)
      BY <1>1, <2>2 DEF PrimingInv
    <3>2. QED
      BY <1>3, <2>2, <3>1, NamesFinite, PrimesFinite, MqttAssumption
  <2>3. QED
    BY <2>1, <2>2
<1>9. QED
  BY <1>1, <1>5, <1>7, <1>8 DEF PrimingInv

(* Elsewhere the channel only gets emptier, or the first tick is over.      *)
LEMMA PrimingOthers ==
  ASSUME StartInv, PrimingInv, UNCHANGED <<toSubscribe, toPrime, dropped>>,
         toPrime # {} => Len(requests') <= Len(requests) /\ Len(requests') \in Nat
  PROVE  PrimingInv'
<1>1. /\ Len(requests) \in Nat
      /\ Cardinality(toPrime) \in Nat /\ Cardinality(dropped) \in Nat
  BY PrimesFinite, FS_Subset, FS_CardinalityType DEF StartInv, SubscribingInv, PrimingInv
<1>2. Cardinality(Names) + Cardinality(PrimeRequests) \in Nat /\ Capacity \in Nat
  BY NamesFinite, PrimesFinite, MqttAssumption
<1>3. toSubscribe = {} /\ toPrime # {} =>
        Len(requests') + Cardinality(toPrime) + Cardinality(dropped)
          <= Cardinality(Names) + Cardinality(PrimeRequests)
  BY <1>1, <1>2 DEF PrimingInv
<1>4. QED
  BY <1>3 DEF PrimingInv

LEMMA PrimingNext == StartInv /\ StartInv' /\ PrimingInv /\ [Next]_vars => PrimingInv'
<1>1. SUFFICES ASSUME StartInv, StartInv', PrimingInv, [Next]_vars PROVE PrimingInv'
  OBVIOUS
<1>2. ASSUME NEW n \in Names, Subscribe(n) PROVE PrimingInv'
  BY <1>1, <1>2, PrimingSubscribe
<1>3. ASSUME NEW r \in PrimeRequests, Prime(r) PROVE PrimingInv'
  BY <1>1, <1>3, PrimingPrime
<1>4. ASSUME NEW d \in Devices, NEW cap \in Capabilities[d], Dispatch(d, cap) PROVE PrimingInv'
  <2>1. toPrime = {} /\ UNCHANGED <<toSubscribe, toPrime, dropped>>
    BY <1>4 DEF Dispatch, Running
  <2>2. QED
    BY <1>1, <2>1, PrimingOthers
<1>5. ASSUME NEW n \in Names, NEW f \in Fields(n), Change(n, f) PROVE PrimingInv'
  <2>1. UNCHANGED <<toSubscribe, toPrime, dropped, requests>>
    BY <1>5 DEF Change, engineVars, clientVars
  <2>2. Len(requests') <= Len(requests) /\ Len(requests') \in Nat
    BY <1>1, <2>1 DEF StartInv, SubscribingInv
  <2>3. QED
    BY <1>1, <2>1, <2>2, PrimingOthers
<1>6. CASE Library \/ ConnectFailed \/ Broken \/ Serve \/ Tick \/ UNCHANGED vars
  <2>1. /\ UNCHANGED <<toSubscribe, toPrime, dropped>>
        /\ \/ requests' \in {requests, <<>>}
           \/ requests # <<>> /\ requests' = Tail(requests)
    BY <1>6 DEF Library, Connected, Recover, Send, Receive, ConnectFailed, Broken, Serve, Tick, vars,
         engineVars, clientVars
  <2>2. Len(requests') <= Len(requests) /\ Len(requests') \in Nat
    BY <1>1, <2>1 DEF StartInv, SubscribingInv
  <2>3. QED
    BY <1>1, <2>1, <2>2, PrimingOthers
<1>7. QED
  BY <1>1, <1>2, <1>3, <1>4, <1>5, <1>6 DEF Next, Engine

(* Of the requests that prime the devices, only those are lost for which    *)
(* the channel has no room beside the subscriptions.                       *)
THEOREM PrimesCorrect == Spec => []PrimesGetThrough
<1>1. Init => PrimingInv
  BY NamesFinite, PrimesFinite, FS_EmptySet DEF Init, PrimingInv
<1>2. PrimingInv => PrimesGetThrough
  <2>1. SUFFICES ASSUME PrimingInv, dropped # {}
                 PROVE  Cardinality(dropped) + Capacity <= Cardinality(Names) + Cardinality(Primed)
    BY DEF PrimesGetThrough, Primed
  <2>2. Cardinality(toPrime) \in Nat /\ Cardinality(dropped) \in Nat
    BY <2>1, PrimesFinite, FS_Subset, FS_CardinalityType DEF PrimingInv
  <2>3. QED
    BY <2>1, <2>2, NamesFinite, PrimesFinite, MqttAssumption DEF PrimingInv
<1>3. QED
  BY <1>1, <1>2, PrimingNext, StartAlways, PTL DEF Spec

-----------------------------------------------------------------------------
(* To whom requests are addressed, and about whom reports are *)

Reporting == UNION {{Publish(n, s) : s \in States(n)} : n \in Names}

RequestTypes ==
  /\ requests \in Seq(Requests) /\ pending \in Seq(Requests)
  /\ toBroker \in Seq(Requests) /\ unacked \in Seq(Requests)

HistoryTypes ==
  /\ forgotten \subseteq Values /\ executed \in Seq(Values)
  /\ \A a \in accepted : a.value \in Values /\ a.breaks \in 0 .. breaks
  /\ stamp \in Nat /\ breaks \in Nat

ReportTypes ==
  /\ DOMAIN world = Names /\ \A n \in Names : world[n] \in States(n)
  /\ inbound \in Seq(Reporting) /\ toClient \in Seq(Reporting \cup {Ack})

StoreTypes ==
  /\ DOMAIN store = Devices
  /\ \A d \in Devices : \A cap \in DOMAIN store[d] :
       /\ cap \in {"Switch"} \cup RootOnly
       /\ store[d][cap].of = <<Name[d], Field(cap, Channel[d])>>

SetTypes ==
  /\ toSubscribe \subseteq Names /\ toPrime \subseteq PrimeRequests /\ dropped \subseteq PrimeRequests
  /\ subscribed \subseteq Names
  /\ thread \in {"none", "connect", "pump", "sleep"}

Typed == RequestTypes /\ HistoryTypes /\ ReportTypes /\ StoreTypes /\ SetTypes

IsSet(r) == r.kind = "set"

LEMMA AddressedSets ==
  ASSUME NEW r \in Requests
  PROVE  /\ r.kind \in {"subscribe", "get", "set"} /\ r.name \in Names
         /\ IsSet(r) => /\ r.value \in Own(r.name) /\ r.value \in Values /\ r.value.number \in Nat
                        /\ r.value = [of |-> <<r.name, r.value.of[2]>>, number |-> r.value.number]
                        /\ r.value.of[2] \in Fields(r.name)
<1>1. CASE r \in Subscriptions \cup PrimeRequests
  BY <1>1 DEF Subscriptions, PrimeRequests, Get, IsSet
<1>2. ASSUME NEW n \in Names, NEW v \in Own(n)
      PROVE  v \in Values /\ v.number \in Nat /\ v = [of |-> <<n, v.of[2]>>, number |-> v.number] /\ v.of[2] \in Fields(n)
  BY <1>2, OwnValues DEF Own
<1>3. CASE r \in Sets
  <2>1. PICK n \in Names : r.kind = "set" /\ r.name = n /\ r.value \in Own(n)
    BY <1>3, SetsOwn
  <2>2. QED
    BY <1>2, <2>1
<1>4. QED
  BY <1>1, <1>2, <1>3 DEF Requests, IsSet

LEMMA ReportShape ==
  ASSUME NEW m \in Reporting \cup {Ack}
  PROVE  /\ m.kind \in {"publish", "ack"}
         /\ m.kind = "publish" => m \in Reporting /\ m.name \in Names /\ m.state \in States(m.name) /\ IsReport(m)
         /\ m.kind = "ack" => m = Ack
<1>1. Ack.kind = "ack"
  BY DEF Ack
<1>2. ASSUME NEW n \in Names, NEW s \in States(n), m = Publish(n, s)
      PROVE  m.kind = "publish" /\ m.name = n /\ m.state = s /\ s \in States(n)
  BY <1>2 DEF Publish, States
<1>3. QED
  BY <1>1, <1>2 DEF Reporting, IsReport

(* The types imply what the runs check.                                    *)
LEMMA TypedIsTypeOK == Typed => TypeOK /\ BelievesOwnLoad
<1>1. SUFFICES ASSUME Typed PROVE TypeOK /\ BelievesOwnLoad
  OBVIOUS
<1>2. /\ requests \in Seq(Requests) /\ pending \in Seq(Requests)
      /\ toBroker \in Seq(Requests) /\ unacked \in Seq(Requests)
  BY <1>1 DEF Typed, RequestTypes
<1>3. /\ \A i \in DOMAIN inbound : inbound[i] \in Reporting
      /\ \A i \in DOMAIN toClient : toClient[i] \in Reporting \cup {Ack}
  BY <1>1, LenProperties, ElementOfSeq DEF Typed, ReportTypes
<1>4. /\ \A m \in Reporting : IsReport(m)
      /\ \A m \in Reporting \cup {Ack} : m = Ack \/ IsReport(m)
  BY ReportShape DEF Reporting, Publish
<1>5. \A n \in Names : world[n] \in States(n)
  BY <1>1 DEF Typed, ReportTypes
<1>6. QED
  BY <1>1, <1>2, <1>3, <1>4, <1>5
  DEF Typed, HistoryTypes, ReportTypes, StoreTypes, SetTypes, TypeOK, BelievesOwnLoad

-----------------------------------------------------------------------------
(* Queues: a request or message is appended, or the first is taken *)

LEMMA GrowQueue ==
  ASSUME NEW S, NEW s \in Seq(S), NEW x \in S
  PROVE  /\ Append(s, x) \in Seq(S) /\ Len(s) \in Nat /\ Len(Append(s, x)) = Len(s) + 1
         /\ DOMAIN s = 1 .. Len(s) /\ DOMAIN Append(s, x) = 1 .. Len(s) + 1
         /\ \A i \in 1 .. Len(s) : Append(s, x)[i] = s[i]
         /\ Append(s, x)[Len(s) + 1] = x
<1>1. Append(s, x) \in Seq(S)
  BY AppendProperties
<1>2. QED
  BY <1>1, AppendProperties, LenProperties

LEMMA ShiftQueue ==
  ASSUME NEW S, NEW s \in Seq(S), s # <<>>
  PROVE  /\ Tail(s) \in Seq(S) /\ Len(s) \in Nat \ {0} /\ Len(Tail(s)) = Len(s) - 1
         /\ Head(s) = s[1] /\ Head(s) \in S
         /\ DOMAIN s = 1 .. Len(s) /\ DOMAIN Tail(s) = 1 .. Len(s) - 1
         /\ \A i \in 1 .. Len(s) - 1 : Tail(s)[i] = s[i + 1]
<1>1. Tail(s) \in Seq(S) /\ Len(s) \in Nat \ {0} /\ Len(Tail(s)) = Len(s) - 1 /\ Head(s) \in S
  BY HeadTailProperties, EmptySeq
<1>2. DOMAIN s = 1 .. Len(s) /\ DOMAIN Tail(s) = 1 .. Len(s) - 1
  BY <1>1, LenProperties
<1>3. QED
  BY <1>1, <1>2, HeadTailProperties

(* The same with the length that is left as a number.                      *)
LEMMA ShiftLengths ==
  ASSUME NEW S, NEW s \in Seq(S), s # <<>>
  PROVE  \E n \in Nat : /\ Len(s) = n + 1 /\ Len(Tail(s)) = n /\ Head(s) = s[1]
                       /\ \A i \in 1 .. n : Tail(s)[i] = s[i + 1]
<1>1. /\ Len(s) \in Nat \ {0} /\ Len(Tail(s)) = Len(s) - 1 /\ Head(s) = s[1]
      /\ \A i \in 1 .. Len(s) - 1 : Tail(s)[i] = s[i + 1]
  BY ShiftQueue
<1>2. PICK n : n = Len(s) - 1
  OBVIOUS
<1>3. /\ n \in Nat /\ Len(s) = n + 1 /\ Len(Tail(s)) = n /\ Head(s) = s[1]
      /\ \A i \in 1 .. n : Tail(s)[i] = s[i + 1]
  BY <1>1, <1>2
<1>4. QED
  BY <1>3

-----------------------------------------------------------------------------
(* Every step keeps to the types *)

LEMMA TypedInit == Init => Typed
<1>1. SUFFICES ASSUME Init PROVE Typed
  OBVIOUS
<1>2. ASSUME NEW n \in Names PROVE world[n] \in States(n)
  <2>1. /\ world[n] = [f \in Fields(n) |-> Value(n, f, 0)]
        /\ \A f \in Fields(n) : Value(n, f, 0) \in Own(n) /\ Value(n, f, 0).of = <<n, f>>
    BY <1>1 DEF Init, Value, Own
  <2>2. \A f \in Fields(n) : Value(n, f, 0) \in Values
    BY <2>1, OwnValues
  <2>3. QED
    BY <2>1, <2>2 DEF States
<1>3. /\ RequestTypes /\ HistoryTypes /\ StoreTypes /\ SetTypes
      /\ DOMAIN world = Names /\ inbound = <<>> /\ toClient = <<>>
  BY <1>1 DEF Init, RequestTypes, HistoryTypes, StoreTypes, SetTypes
<1>4. QED
  BY <1>2, <1>3 DEF Typed, ReportTypes

(* A command as dispatch puts it into the channel.                         *)
LEMMA CommandAddressed ==
  ASSUME NEW d \in Devices, NEW cap \in Capabilities[d], NEW k \in Nat
  PROVE  /\ Value(Name[d], Field(cap, Channel[d]), k) \in Values
         /\ [kind |-> "set", name |-> Name[d], value |-> Value(Name[d], Field(cap, Channel[d]), k)] \in Requests
<1> DEFINE n == Name[d]
           v == Value(n, Field(cap, Channel[d]), k)
<1>1. n \in Names /\ Field(cap, Channel[d]) \in Fields(n)
  BY DEF Names, Fields
<1>2. v \in Own(n)
  BY <1>1 DEF Value, Own
<1>3. [kind |-> "set", name |-> n, value |-> v] \in Requests
  BY <1>1, <1>2, OwnSets
<1>4. QED
  BY <1>1, <1>2, <1>3, OwnValues

LEMMA RequestTypesStep == Typed /\ [Next]_vars => RequestTypes'
<1>1. SUFFICES ASSUME Typed, [Next]_vars PROVE RequestTypes'
  OBVIOUS
<1>2. /\ requests \in Seq(Requests) /\ pending \in Seq(Requests)
      /\ toBroker \in Seq(Requests) /\ unacked \in Seq(Requests) /\ stamp \in Nat
  BY <1>1 DEF Typed, RequestTypes, HistoryTypes
<1>3. <<>> \in Seq(Requests)
  BY EmptySeq
<1>4. ASSUME NEW n \in Names, Subscribe(n) PROVE RequestTypes'
  <2>1. [kind |-> "subscribe", name |-> n] \in Requests
    BY DEF Requests, Subscriptions
  <2>2. QED
    BY <1>2, <1>4, <2>1, AppendProperties DEF Subscribe, RequestTypes, brokerVars
<1>5. ASSUME NEW r \in PrimeRequests, Prime(r) PROVE RequestTypes'
  <2>1. r \in Requests
    BY DEF Requests
  <2>2. requests' = requests \/ requests' = Append(requests, r)
    BY <1>5 DEF Prime
  <2>3. requests' \in Seq(Requests)
    <3>1. Append(requests, r) \in Seq(Requests)
      BY <1>2, <2>1, AppendProperties
    <3>2. QED
      BY <1>2, <2>2, <3>1
  <2>4. QED
    BY <1>2, <1>5, <2>3 DEF Prime, RequestTypes, brokerVars
<1>6. ASSUME NEW d \in Devices, NEW cap \in Capabilities[d], Dispatch(d, cap) PROVE RequestTypes'
  <2>1. /\ requests' = Append(requests, [kind |-> "set", name |-> Name[d],
                                         value |-> Value(Name[d], Field(cap, Channel[d]), stamp + 1)])
        /\ UNCHANGED <<pending, toBroker, unacked>>
    BY <1>6 DEF Dispatch, brokerVars
  <2>2. stamp + 1 \in Nat
    BY <1>2
  <2>3. requests' \in Seq(Requests)
    BY <1>2, <2>1, <2>2, CommandAddressed, AppendProperties
  <2>4. QED
    BY <1>2, <2>1, <2>3 DEF RequestTypes
<1>7. CASE Tick \/ Connected \/ ConnectFailed \/ Recover \/ UNCHANGED vars
  <2>1. UNCHANGED <<requests, toBroker, unacked>> /\ pending' \in {pending, <<>>}
    BY <1>7 DEF Tick, Connected, ConnectFailed, Recover, vars, clientVars, brokerVars
  <2>2. QED
    BY <1>2, <1>3, <2>1 DEF RequestTypes
<1>8. CASE Broken
  <2>1. /\ requests' = <<>> /\ toBroker' = <<>> /\ unacked' = <<>>
        /\ pending' \in {unacked \o pending \o requests, pending \o unacked \o requests}
    BY <1>8 DEF Broken
  <2>2. unacked \o pending \in Seq(Requests) /\ pending \o unacked \in Seq(Requests)
    BY <1>2, ConcatProperties
  <2>3. /\ (unacked \o pending) \o requests \in Seq(Requests)
        /\ (pending \o unacked) \o requests \in Seq(Requests)
    BY <1>2, <2>2, ConcatProperties
  <2>4. QED
    BY <1>3, <2>1, <2>3 DEF RequestTypes
<1>9. CASE Send
  <2>1. PICK r : r = IF pending # <<>> THEN Head(pending) ELSE Head(requests)
    OBVIOUS
  <2>2. /\ pending # <<>> \/ requests # <<>>
        /\ toBroker' = Append(toBroker, r)
        /\ unacked' = unacked \/ unacked' = Append(unacked, r)
        /\ pending # <<>> => pending' = Tail(pending) /\ requests' = requests
        /\ pending = <<>> => requests' = Tail(requests) /\ pending' = pending
    BY <1>9, <2>1 DEF Send
  <2>3. r \in Requests /\ requests' \in Seq(Requests) /\ pending' \in Seq(Requests)
    <3>1. CASE pending # <<>>
      BY <1>2, <2>1, <2>2, <3>1, HeadTailProperties
    <3>2. CASE pending = <<>>
      BY <1>2, <2>1, <2>2, <3>2, HeadTailProperties
    <3>3. QED
      BY <3>1, <3>2
  <2>4. Append(toBroker, r) \in Seq(Requests) /\ Append(unacked, r) \in Seq(Requests)
    BY <1>2, <2>3, AppendProperties
  <2>5. QED
    BY <1>2, <2>2, <2>3, <2>4 DEF RequestTypes
<1>10. CASE Receive
  <2>1. /\ UNCHANGED <<requests, pending, toBroker>>
        /\ unacked' = unacked \/ (unacked' = Tail(unacked) /\ toClient # <<>> /\ Head(toClient).kind # "publish")
    BY <1>10 DEF Receive
  <2>2. unacked # <<>> => Tail(unacked) \in Seq(Requests)
    BY <1>2, HeadTailProperties
  <2>3. unacked = <<>> => Tail(unacked) = <<>>
    BY SMT
  <2>4. QED
    BY <1>2, <1>3, <2>1, <2>2, <2>3 DEF RequestTypes
<1>11. CASE Serve
  <2>1. toBroker # <<>> /\ toBroker' = Tail(toBroker) /\ UNCHANGED <<requests, pending, unacked>>
    BY <1>11 DEF Serve, clientVars
  <2>2. QED
    BY <1>2, <2>1, HeadTailProperties DEF RequestTypes
<1>12. ASSUME NEW n \in Names, NEW f \in Fields(n), Change(n, f) PROVE RequestTypes'
  BY <1>2, <1>12 DEF Change, clientVars, RequestTypes
<1>13. QED
  BY <1>1, <1>4, <1>5, <1>6, <1>7, <1>8, <1>9, <1>10, <1>11, <1>12 DEF Next, Engine, Library

(* An execution and an operation by hand leave every other field as it is. *)
LEMMA OwnWorld ==
  ASSUME ReportTypes, NEW n \in Names, NEW f \in Fields(n), NEW k \in Nat,
         world' = [world EXCEPT ![n][f] = Value(n, f, k)]
  PROVE  /\ DOMAIN world' = Names /\ \A m \in Names : world'[m] \in States(m)
         /\ Publish(n, world'[n]) \in Reporting
<1>1. DOMAIN world = Names /\ \A m \in Names : world[m] \in States(m)
  BY DEF ReportTypes
<1>2. Value(n, f, k) \in Values /\ Value(n, f, k).of = <<n, f>>
  BY OwnValues DEF Value, Own
<1>3. DOMAIN world' = Names /\ \A m \in Names : m # n => world'[m] = world[m]
  BY <1>1
<1>4. world[n] \in [Fields(n) -> Values] /\ world'[n] = [world[n] EXCEPT ![f] = Value(n, f, k)]
  BY <1>1 DEF States
<1>5. world'[n] \in [Fields(n) -> Values]
  BY <1>2, <1>4
<1>6. \A g \in Fields(n) : world'[n][g].of = <<n, g>>
  BY <1>1, <1>2, <1>4 DEF States
<1>7. world'[n] \in States(n)
  BY <1>5, <1>6 DEF States
<1>8. \A m \in Names : world'[m] \in States(m)
  BY <1>1, <1>3, <1>7
<1>9. Publish(n, world'[n]) \in Reporting
  BY <1>7 DEF Reporting
<1>10. QED
  BY <1>3, <1>8, <1>9

(* What the broker does with the first request.                            *)
LEMMA ServeParts ==
  ASSUME Typed, Serve
  PROVE  /\ toBroker # <<>> /\ toBroker' = Tail(toBroker) /\ Head(toBroker) \in Requests
         /\ UNCHANGED <<engineVars, clientVars, stamp, breaks>>
         /\ subscribed' \subseteq Names
         /\ \/ /\ Head(toBroker).kind = "subscribe" /\ UNCHANGED <<world, executed, toClient>>
            \/ /\ Head(toBroker).kind \in {"get", "set"}
               /\ \E report \in {<<>>, <<Publish(Head(toBroker).name, world'[Head(toBroker).name])>>} :
                    toClient' = toClient \o <<Ack>> \o report
               /\ Head(toBroker).kind = "get" => UNCHANGED <<world, executed>>
               /\ IsSet(Head(toBroker)) =>
                    /\ executed' = Append(executed, Head(toBroker).value)
                    /\ world' = [world EXCEPT ![Head(toBroker).name][Head(toBroker).value.of[2]]
                                   = Head(toBroker).value]
<1>1. toBroker # <<>> /\ toBroker \in Seq(Requests) /\ subscribed \subseteq Names
  BY DEF Serve, Typed, RequestTypes, SetTypes
<1>2. Head(toBroker) \in Requests
  BY <1>1, HeadTailProperties
<1>3. Head(toBroker).name \in Names
  BY <1>2, AddressedSets
<1>4. CASE Head(toBroker).kind = "subscribe"
  BY <1>1, <1>2, <1>3, <1>4 DEF Serve
<1>5. CASE Head(toBroker).kind = "get"
  BY <1>1, <1>2, <1>3, <1>5 DEF Serve, IsSet
<1>6. CASE Head(toBroker).kind = "set"
  BY <1>1, <1>2, <1>3, <1>6 DEF Serve, IsSet
<1>7. QED
  BY <1>2, <1>4, <1>5, <1>6, AddressedSets

LEMMA ReportTypesServe == ASSUME Typed, Serve PROVE ReportTypes'
<1> DEFINE r == Head(toBroker)
<1>1. /\ r \in Requests /\ r.name \in Names /\ inbound' = inbound
      /\ DOMAIN world = Names /\ \A n \in Names : world[n] \in States(n)
      /\ inbound \in Seq(Reporting) /\ toClient \in Seq(Reporting \cup {Ack})
  BY ServeParts, AddressedSets DEF Typed, ReportTypes, clientVars
<1>2. DOMAIN world' = Names /\ \A n \in Names : world'[n] \in States(n)
  <2>1. CASE IsSet(r)
    <3>1. /\ r.value.of[2] \in Fields(r.name) /\ r.value.number \in Nat
          /\ r.value = Value(r.name, r.value.of[2], r.value.number)
      BY <1>1, <2>1, AddressedSets DEF Value
    <3>2. world' = [world EXCEPT ![r.name][r.value.of[2]] = Value(r.name, r.value.of[2], r.value.number)]
      <4>1. world' = [world EXCEPT ![r.name][r.value.of[2]] = r.value]
        BY <2>1, ServeParts DEF IsSet
      <4>2. QED
        BY <3>1, <4>1
    <3>3. QED
      BY <1>1, <3>1, <3>2, OwnWorld DEF Typed
  <2>2. CASE ~IsSet(r)
    BY <1>1, <2>2, ServeParts DEF IsSet
  <2>3. QED
    BY <2>1, <2>2
<1>3. Publish(r.name, world'[r.name]) \in Reporting
  BY <1>1, <1>2 DEF Reporting
<1>4. toClient' \in Seq(Reporting \cup {Ack})
  <2>1. /\ <<Ack>> \in Seq(Reporting \cup {Ack}) /\ <<>> \in Seq(Reporting \cup {Ack})
        /\ <<Publish(r.name, world'[r.name])>> \in Seq(Reporting \cup {Ack})
    BY <1>3
  <2>2. toClient \o <<Ack>> \in Seq(Reporting \cup {Ack})
    BY <1>1, <2>1, ConcatProperties
  <2>3. \A report \in {<<>>, <<Publish(r.name, world'[r.name])>>} :
          (toClient \o <<Ack>>) \o report \in Seq(Reporting \cup {Ack})
    BY <2>1, <2>2, ConcatProperties
  <2>4. QED
    BY <1>1, <2>3, ServeParts
<1>5. QED
  BY <1>1, <1>2, <1>4 DEF ReportTypes

LEMMA ReportTypesStep == Typed /\ [Next]_vars => ReportTypes'
<1>1. SUFFICES ASSUME Typed, [Next]_vars PROVE ReportTypes'
  OBVIOUS
<1>2. /\ DOMAIN world = Names /\ \A n \in Names : world[n] \in States(n)
      /\ inbound \in Seq(Reporting) /\ toClient \in Seq(Reporting \cup {Ack})
      /\ <<>> \in Seq(Reporting) /\ <<>> \in Seq(Reporting \cup {Ack}) /\ stamp \in Nat
  BY <1>1, EmptySeq DEF Typed, ReportTypes, HistoryTypes
<1>3. CASE Serve
  BY <1>1, <1>3, ReportTypesServe
<1>4. ASSUME NEW n \in Names, NEW f \in Fields(n), Change(n, f) PROVE ReportTypes'
  <2>1. /\ world' = [world EXCEPT ![n][f] = Value(n, f, stamp + 1)] /\ inbound' = inbound
        /\ toClient' \in {toClient, Append(toClient, Publish(n, world'[n]))}
    BY <1>4 DEF Change, clientVars
  <2>2. stamp + 1 \in Nat /\ ReportTypes
    BY <1>1, <1>2 DEF Typed
  <2>3. /\ DOMAIN world' = Names /\ \A m \in Names : world'[m] \in States(m)
        /\ Publish(n, world'[n]) \in Reporting \cup {Ack}
    BY <2>1, <2>2, OwnWorld
  <2>4. Append(toClient, Publish(n, world'[n])) \in Seq(Reporting \cup {Ack})
    BY <1>2, <2>3, AppendProperties
  <2>5. QED
    BY <1>2, <2>1, <2>3, <2>4 DEF ReportTypes
<1>5. CASE Receive
  <2>1. /\ toClient # <<>> /\ toClient' = Tail(toClient) /\ world' = world
        /\ \/ Head(toClient).kind = "publish" /\ inbound' = Append(inbound, Head(toClient))
           \/ inbound' = inbound
    BY <1>5 DEF Receive, deviceVars
  <2>2. toClient' \in Seq(Reporting \cup {Ack}) /\ Head(toClient) \in Reporting \cup {Ack}
    BY <1>2, <2>1, HeadTailProperties
  <2>3. Head(toClient).kind = "publish" => Append(inbound, Head(toClient)) \in Seq(Reporting)
    BY <1>2, <2>2, ReportShape, AppendProperties
  <2>4. QED
    BY <1>2, <2>1, <2>2, <2>3 DEF ReportTypes
<1>6. CASE ConnectFailed \/ Broken \/ Tick \/ Send \/ Connected \/ Recover \/ UNCHANGED vars
  <2>1. world' = world /\ inbound' \in {inbound, <<>>} /\ toClient' \in {toClient, <<>>}
    BY <1>6 DEF ConnectFailed, Broken, Tick, Send, Connected, Recover, vars, clientVars, brokerVars, deviceVars
  <2>2. QED
    BY <1>2, <2>1 DEF ReportTypes
<1>7. ASSUME \/ \E n \in Names : Subscribe(n)
             \/ \E r \in PrimeRequests : Prime(r)
             \/ \E d \in Devices : \E cap \in Capabilities[d] : Dispatch(d, cap)
      PROVE  ReportTypes'
  <2>1. UNCHANGED <<world, inbound, toClient>>
    BY <1>7 DEF Subscribe, Prime, Dispatch, brokerVars, deviceVars
  <2>2. QED
    BY <1>2, <2>1 DEF ReportTypes
<1>8. QED
  BY <1>1, <1>3, <1>4, <1>5, <1>6, <1>7 DEF Next, Engine, Library

(* A set of places in a sequence has a last one.                           *)
LEMMA LastExists ==
  ASSUME NEW n \in Nat, NEW R, R \subseteq 1 .. n, R # {}
  PROVE  \E i \in R : \A j \in R : j <= i
<1> DEFINE T == {n - i : i \in R}
<1>1. T \subseteq Nat /\ T # {}
  <2>1. \A i \in R : n - i \in Nat
    OBVIOUS
  <2>2. QED
    BY <2>1
<1>2. PICK t \in T : \A u \in T : <<u, t>> \notin OpToRel(<, Nat)
  BY <1>1, NatLessThanWellFounded, WFMin
<1>3. \A u \in T : ~(u < t)
  BY <1>1, <1>2 DEF OpToRel
<1>4. PICK i \in R : t = n - i
  BY <1>2
<1>5. ASSUME NEW j \in R PROVE j <= i
  <2>1. n - j \in T /\ n - i \in T /\ i \in Nat /\ j \in Nat
    BY <1>4
  <2>2. ~(n - j < n - i)
    BY <1>3, <1>4, <2>1
  <2>3. QED
    BY <2>1, <2>2
<1>6. QED
  BY <1>5

(* What a device learns are values of its own fields.                      *)
LEMMA LearnedOwn ==
  ASSUME StoreTypes, inbound \in Seq(Reporting), NEW d \in Devices
  PROVE  \A cap \in DOMAIN Learned(d, inbound) :
           /\ cap \in {"Switch"} \cup RootOnly
           /\ Learned(d, inbound)[cap].of = <<Name[d], Field(cap, Channel[d])>>
<1> DEFINE read(i) == Reports(d, inbound[i].state)
           news == UNION {DOMAIN read(i) : i \in About(d, inbound)}
<1>1. \A i \in DOMAIN inbound : inbound[i] \in Reporting
  BY LenProperties, ElementOfSeq
<1>2. ASSUME NEW i \in About(d, inbound), NEW cap \in DOMAIN read(i)
      PROVE  /\ cap \in {"Switch"} \cup RootOnly
             /\ read(i)[cap].of = <<Name[d], Field(cap, Channel[d])>>
  <2>1. inbound[i].name = Name[d] /\ Name[d] \in Names /\ inbound[i].state \in States(Name[d])
    <3>1. i \in DOMAIN inbound /\ inbound[i].name = Name[d] /\ inbound[i] \in Reporting
      BY <1>1 DEF About
    <3>2. inbound[i].kind = "publish"
      BY <3>1 DEF Reporting, Publish
    <3>3. QED
      BY <3>1, <3>2, ReportShape DEF Names
  <2>2. /\ cap \in {"Switch"} \cup RootOnly /\ Field(cap, Channel[d]) \in DOMAIN inbound[i].state
        /\ read(i)[cap] = inbound[i].state[Field(cap, Channel[d])]
    BY DEF Reports
  <2>3. DOMAIN inbound[i].state = Fields(Name[d])
    BY <2>1 DEF States
  <2>4. QED
    BY <2>1, <2>2, <2>3 DEF States
<1>3. ASSUME NEW cap \in news
      PROVE  LastRead(d, cap, inbound) \in About(d, inbound) /\ cap \in DOMAIN read(LastRead(d, cap, inbound))
  <2> DEFINE R == {i \in About(d, inbound) : cap \in DOMAIN read(i)}
  <2>1. R # {} /\ R \subseteq 1 .. Len(inbound) /\ Len(inbound) \in Nat
    BY LenProperties DEF About
  <2>2. \E i \in R : \A j \in R : j <= i
    BY <2>1, LastExists
  <2>3. \E i \in About(d, inbound) :
          /\ cap \in DOMAIN read(i)
          /\ \A j \in About(d, inbound) : cap \in DOMAIN read(j) => j <= i
    BY <2>2
  <2>4. QED
    BY <2>3 DEF LastRead
<1>4. ASSUME NEW cap \in DOMAIN Learned(d, inbound)
      PROVE  \/ cap \in news /\ Learned(d, inbound)[cap] = read(LastRead(d, cap, inbound))[cap]
             \/ cap \in DOMAIN store[d] /\ Learned(d, inbound)[cap] = store[d][cap]
  BY DEF Learned
<1> HIDE DEF read, news
<1>5. QED
  BY <1>2, <1>3, <1>4 DEF StoreTypes

LEMMA StoreTypesStep == Typed /\ [Next]_vars => StoreTypes'
<1>1. SUFFICES ASSUME Typed, [Next]_vars PROVE StoreTypes'
  OBVIOUS
<1>2. StoreTypes /\ inbound \in Seq(Reporting)
  BY <1>1 DEF Typed, ReportTypes
<1>3. CASE Tick
  <2>1. store' = [d \in Devices |-> Learned(d, inbound)]
    BY <1>3 DEF Tick, Folded
  <2>2. \A d \in Devices : store'[d] = Learned(d, inbound)
    BY <2>1
  <2>3. QED
    BY <1>2, <2>1, <2>2, LearnedOwn DEF StoreTypes
<1>4. CASE store' = store
  BY <1>2, <1>4 DEF StoreTypes
<1>5. QED
  BY <1>1, <1>3, <1>4
  DEF Next, Engine, Library, Subscribe, Prime, Dispatch, Connected, Recover, Send, Receive,
      ConnectFailed, Broken, Serve, Change, vars, engineVars

LEMMA SetTypesStep == Typed /\ [Next]_vars => SetTypes'
<1>1. SUFFICES ASSUME Typed, [Next]_vars PROVE SetTypes'
  OBVIOUS
<1>2. SetTypes
  BY <1>1 DEF Typed
<1>3. ASSUME NEW n \in Names, Subscribe(n) PROVE SetTypes'
  BY <1>2, <1>3 DEF Subscribe, SetTypes, brokerVars
<1>4. ASSUME NEW r \in PrimeRequests, Prime(r) PROVE SetTypes'
  BY <1>2, <1>4 DEF Prime, SetTypes, brokerVars
<1>5. ASSUME \/ \E d \in Devices : \E cap \in Capabilities[d] : Dispatch(d, cap)
             \/ \E n \in Names : \E f \in Fields(n) : Change(n, f)
      PROVE  SetTypes'
  <2>1. UNCHANGED <<toSubscribe, toPrime, dropped, subscribed, thread>>
    BY <1>5 DEF Dispatch, Change, brokerVars, engineVars, clientVars
  <2>2. QED
    BY <1>2, <2>1 DEF SetTypes
<1>6. CASE Serve
  <2>1. UNCHANGED <<toSubscribe, toPrime, dropped, thread>> /\ subscribed' \subseteq Names
    BY <1>1, <1>6, ServeParts DEF engineVars, clientVars
  <2>2. QED
    BY <1>2, <2>1 DEF SetTypes
<1>7. CASE Tick \/ Library \/ ConnectFailed \/ Broken \/ UNCHANGED vars
  <2>1. /\ UNCHANGED <<toSubscribe, toPrime, dropped>> /\ subscribed' \in {subscribed, {}}
        /\ thread' \in {thread, "pump", "sleep", "connect"}
    BY <1>7 DEF Tick, Library, Connected, Recover, Send, Receive, ConnectFailed, Broken, vars,
         engineVars, clientVars, brokerVars
  <2>2. QED
    BY <1>2, <2>1 DEF SetTypes
<1>8. QED
  BY <1>1, <1>3, <1>4, <1>5, <1>6, <1>7 DEF Next, Engine

LEMMA HistoryTypesStep == Typed /\ [Next]_vars => HistoryTypes'
<1>1. SUFFICES ASSUME Typed, [Next]_vars PROVE HistoryTypes'
  OBVIOUS
<1>2. /\ forgotten \subseteq Values /\ executed \in Seq(Values)
      /\ \A a \in accepted : a.value \in Values /\ a.breaks \in 0 .. breaks
      /\ stamp \in Nat /\ breaks \in Nat
      /\ pending \in Seq(Requests)
  BY <1>1 DEF Typed, HistoryTypes, RequestTypes
<1>3. ASSUME NEW d \in Devices, NEW cap \in Capabilities[d], Dispatch(d, cap) PROVE HistoryTypes'
  <2>1. PICK v : v = Value(Name[d], Field(cap, Channel[d]), stamp + 1)
    OBVIOUS
  <2>2. /\ accepted' = accepted \cup {[value |-> v, breaks |-> breaks]} /\ stamp' = stamp + 1
        /\ UNCHANGED <<forgotten, executed, breaks>>
    BY <1>3, <2>1 DEF Dispatch, deviceVars
  <2>3. stamp' \in Nat /\ v \in Values
    <3>1. stamp + 1 \in Nat
      BY <1>2
    <3>2. Value(Name[d], Field(cap, Channel[d]), stamp + 1) \in Values
      BY <3>1, CommandAddressed
    <3>3. QED
      BY <2>1, <2>2, <3>1, <3>2
  <2>4. \A a \in accepted' : a.value \in Values /\ a.breaks \in 0 .. breaks
    BY <1>2, <2>2, <2>3
  <2>5. QED
    BY <1>2, <2>2, <2>3, <2>4 DEF HistoryTypes
<1>4. CASE Serve
  <2>1. executed' = executed \/ (IsSet(Head(toBroker)) /\ executed' = Append(executed, Head(toBroker).value))
    BY <1>1, <1>4, ServeParts DEF IsSet
  <2>2. Head(toBroker) \in Requests /\ UNCHANGED <<accepted, forgotten, stamp, breaks>>
    BY <1>1, <1>4, ServeParts DEF engineVars, clientVars
  <2>3. IsSet(Head(toBroker)) => Append(executed, Head(toBroker).value) \in Seq(Values)
    BY <1>2, <2>2, AddressedSets, AppendProperties
  <2>4. QED
    BY <1>2, <2>1, <2>2, <2>3 DEF HistoryTypes
<1>5. CASE Connected
  <2>1. /\ forgotten' \in {forgotten, forgotten \cup SetValues(pending)}
        /\ UNCHANGED <<executed, accepted, stamp, breaks>>
    BY <1>5 DEF Connected, engineVars, deviceVars
  <2>2. SetValues(pending) \subseteq Values
    BY <1>2, LenProperties, ElementOfSeq, AddressedSets DEF SetValues, IsSet
  <2>3. QED
    BY <1>2, <2>1, <2>2 DEF HistoryTypes
<1>6. CASE ConnectFailed \/ Broken
  <2>1. breaks' = breaks + 1 /\ UNCHANGED <<forgotten, executed, accepted, stamp>>
    BY <1>6 DEF ConnectFailed, Broken, engineVars, deviceVars
  <2>2. \A k \in 0 .. breaks : k \in 0 .. breaks + 1
    BY <1>2
  <2>3. QED
    BY <1>2, <2>1, <2>2 DEF HistoryTypes
<1>7. ASSUME NEW n \in Names, NEW f \in Fields(n), Change(n, f) PROVE HistoryTypes'
  <2>1. /\ stamp' = stamp + 1
        /\ UNCHANGED <<forgotten, executed, accepted, breaks>>
    BY <1>7 DEF Change, engineVars, clientVars
  <2>2. QED
    BY <1>2, <2>1 DEF HistoryTypes
<1>8. ASSUME \/ \E n \in Names : Subscribe(n)
             \/ \E r \in PrimeRequests : Prime(r)
             \/ Tick \/ Recover \/ Send \/ Receive \/ UNCHANGED vars
      PROVE  HistoryTypes'
  <2>1. UNCHANGED <<forgotten, executed, accepted, stamp, breaks>>
    BY <1>8 DEF Subscribe, Prime, Tick, Recover, Send, Receive, vars, engineVars, clientVars, deviceVars
  <2>2. QED
    BY <1>2, <2>1 DEF HistoryTypes
<1>9. QED
  BY <1>1, <1>3, <1>4, <1>5, <1>6, <1>7, <1>8 DEF Next, Engine, Library

LEMMA TypedStep == Typed /\ [Next]_vars => Typed'
BY RequestTypesStep, HistoryTypesStep, ReportTypesStep, StoreTypesStep, SetTypesStep DEF Typed

-----------------------------------------------------------------------------
(* What the library waits for *)

(* Every request but a subscription takes a place among the unacknowledged *)
(* ones, which its acknowledgement gives back.                             *)
Places(m) == IF m.kind \in {"get", "set", "ack"} THEN 1 ELSE 0

(* c[i] is how many of the places up to m the first i members of s account *)
(* for, when those before s account for the first m.                       *)
Counts(c, m, s) ==
  /\ c \in [0 .. Len(s) -> Nat] /\ c[0] = m
  /\ \A i \in 1 .. Len(s) : c[i] = c[i - 1] + Places(s[i])
  /\ \A i, j \in 0 .. Len(s) : i <= j => c[i] <= c[j]

LEMMA CountsNone == ASSUME NEW m \in Nat PROVE Counts([i \in {0} |-> m], m, <<>>)
<1>1. Len(<<>>) = 0 /\ 0 .. 0 = {0} /\ \A i \in 1 .. 0 : FALSE
  OBVIOUS
<1>2. QED
  BY <1>1 DEF Counts

LEMMA PlacesNat == \A m : Places(m) \in {0, 1}
BY DEF Places

LEMMA CountsGrow ==
  ASSUME NEW S, NEW s \in Seq(S), NEW x \in S, NEW c, NEW m \in Nat, Counts(c, m, s)
  PROVE  \E e : /\ Counts(e, m, Append(s, x))
                /\ \A i \in 0 .. Len(s) : e[i] = c[i]
                /\ e[Len(s) + 1] = c[Len(s)] + Places(x)
<1>1. PICK n \in Nat : n = Len(s)
  BY GrowQueue
<1>2. /\ Len(Append(s, x)) = n + 1
      /\ \A i \in 1 .. n : Append(s, x)[i] = s[i]
      /\ Append(s, x)[n + 1] = x
  BY <1>1, GrowQueue
<1>3. PICK p \in {0, 1} : p = Places(x)
  BY PlacesNat
<1>4. /\ c \in [0 .. n -> Nat] /\ c[0] = m
      /\ \A i \in 1 .. n : c[i] = c[i - 1] + Places(s[i])
      /\ \A i, j \in 0 .. n : i <= j => c[i] <= c[j]
  BY <1>1 DEF Counts
<1>5. PICK e : e = [i \in 0 .. n + 1 |-> IF i = n + 1 THEN c[n] + p ELSE c[i]]
  OBVIOUS
<1>6. n \in 0 .. n /\ \A i \in 0 .. n : i \in 0 .. n + 1 /\ i # n + 1 /\ i <= n /\ c[i] \in Nat
  BY <1>4
<1>7. /\ \A i \in 0 .. n : e[i] = c[i]
      /\ e[n + 1] = c[n] + p
      /\ \A i \in 0 .. n + 1 : i \in 0 .. n \/ i = n + 1
  BY <1>5, <1>6
<1>8. e \in [0 .. n + 1 -> Nat]
  BY <1>5, <1>6, <1>7
<1>9. \A i \in 1 .. n + 1 : e[i] = e[i - 1] + Places(Append(s, x)[i])
  <2>1. \A i \in 1 .. n : i \in 0 .. n /\ i - 1 \in 0 .. n
    BY <1>1
  <2>2. \A i \in 1 .. n : e[i] = e[i - 1] + Places(Append(s, x)[i])
    BY <1>2, <1>4, <1>7, <2>1
  <2>3. \A i \in 1 .. n + 1 : i \in 1 .. n \/ i = n + 1
    BY <1>1
  <2>4. ASSUME NEW i \in 1 .. n + 1 PROVE e[i] = e[i - 1] + Places(Append(s, x)[i])
    <3>1. CASE i \in 1 .. n
      BY <2>2, <3>1
    <3>2. CASE i = n + 1
      <4>1. e[i] = c[n] + p /\ Append(s, x)[i] = x
        BY <1>2, <1>7, <3>2
      <4>2. i - 1 = n /\ e[n] = c[n]
        BY <1>6, <1>7, <3>2
      <4>3. QED
        BY <1>3, <4>1, <4>2
    <3>3. QED
      BY <2>3, <3>1, <3>2
  <2>5. QED
    BY <2>4
<1>10. \A i, j \in 0 .. n + 1 : i <= j => e[i] <= e[j]
  <2>1. \A i \in 0 .. n : e[i] <= e[n + 1]
    <3>1. ASSUME NEW i \in 0 .. n PROVE c[i] <= c[n] + p
      BY <1>3, <1>4, <1>6, <3>1
    <3>2. QED
      BY <1>7, <3>1
  <2>2. \A i, j \in 0 .. n : i <= j => e[i] <= e[j]
    BY <1>4, <1>7
  <2>3. e[n + 1] <= e[n + 1]
    BY <1>8
  <2>4. \A i, j \in 0 .. n + 1 : i <= j /\ i = n + 1 => j = n + 1
    BY <1>1
  <2>5. QED
    BY <1>7, <2>1, <2>2, <2>3, <2>4
<1>11. e[0] = m
  BY <1>4, <1>6, <1>7
<1>12. Counts(e, m, Append(s, x))
  BY <1>2, <1>8, <1>9, <1>10, <1>11 DEF Counts
<1>13. QED
  BY <1>1, <1>3, <1>7, <1>12

(* Without its first member a sequence accounts for the rest.              *)
LEMMA CountsShift ==
  ASSUME NEW S, NEW s \in Seq(S), s # <<>>, NEW c, NEW m \in Nat, Counts(c, m, s)
  PROVE  \E e : /\ Counts(e, m + Places(Head(s)), Tail(s))
                /\ \A i \in 0 .. Len(s) - 1 : e[i] = c[i + 1]
<1>1. PICK n \in Nat : n + 1 = Len(s)
  BY ShiftQueue
<1>2. /\ Len(Tail(s)) = n /\ Head(s) = s[1]
      /\ \A i \in 1 .. n : Tail(s)[i] = s[i + 1]
  BY <1>1, ShiftQueue
<1>3. /\ c \in [0 .. n + 1 -> Nat] /\ c[0] = m
      /\ \A i \in 1 .. n + 1 : c[i] = c[i - 1] + Places(s[i])
      /\ \A i, j \in 0 .. n + 1 : i <= j => c[i] <= c[j]
  BY <1>1 DEF Counts
<1>4. PICK e : e = [i \in 0 .. n |-> c[i + 1]]
  OBVIOUS
<1>5. \A i \in 0 .. n : e[i] = c[i + 1] /\ i + 1 \in 0 .. n + 1
  BY <1>4
<1>6. e \in [0 .. n -> Nat]
  BY <1>3, <1>4, <1>5
<1>7. e[0] = m + Places(Head(s))
  <2>1. 1 \in 1 .. n + 1 /\ 0 \in 0 .. n /\ 1 - 1 = 0 /\ 0 + 1 = 1
    BY <1>1
  <2>2. QED
    BY <1>2, <1>3, <1>5, <2>1
<1>8. \A i \in 1 .. n : e[i] = e[i - 1] + Places(Tail(s)[i])
  <2>1. ASSUME NEW i \in 1 .. n PROVE e[i] = e[i - 1] + Places(Tail(s)[i])
    <3>1. i \in 0 .. n /\ i - 1 \in 0 .. n /\ i + 1 \in 1 .. n + 1 /\ i - 1 + 1 = i /\ i + 1 - 1 = i
      BY <1>1
    <3>2. c[i + 1] = c[i] + Places(s[i + 1])
      BY <1>3, <3>1
    <3>3. QED
      BY <1>2, <1>5, <3>1, <3>2
  <2>2. QED
    BY <2>1
<1>9. \A i, j \in 0 .. n : i <= j => e[i] <= e[j]
  <2>1. \A i, j \in 0 .. n : i <= j => i + 1 <= j + 1
    BY <1>1
  <2>2. QED
    BY <1>3, <1>5, <2>1
<1>10. Counts(e, m + Places(Head(s)), Tail(s))
  BY <1>2, <1>6, <1>7, <1>8, <1>9 DEF Counts
<1>11. n = Len(s) - 1
  BY <1>1
<1>12. QED
  BY <1>5, <1>10, <1>11

(* When the first place is given back, all others move up.                 *)
LEMMA CountsDown ==
  ASSUME NEW S, NEW s \in Seq(S), NEW c, NEW m \in Nat, NEW k, k = m + 1, Counts(c, k, s)
  PROVE  \E e : Counts(e, m, s) /\ \A i \in 0 .. Len(s) : e[i] = c[i] - 1
<1>1. PICK n \in Nat : n = Len(s)
  BY LenProperties
<1>2. /\ c \in [0 .. n -> Nat] /\ c[0] = m + 1
      /\ \A i \in 1 .. n : c[i] = c[i - 1] + Places(s[i])
      /\ \A i, j \in 0 .. n : i <= j => c[i] <= c[j]
  BY <1>1 DEF Counts
<1>3. PICK e : e = [i \in 0 .. n |-> c[i] - 1]
  OBVIOUS
<1>4. \A i \in 0 .. n : e[i] = c[i] - 1 /\ c[i] \in Nat /\ e[i] \in Nat
  <2>1. 0 \in 0 .. n /\ \A i \in 0 .. n : 0 <= i
    BY <1>1
  <2>2. \A i \in 0 .. n : c[i] \in Nat /\ m + 1 <= c[i]
    BY <1>2, <2>1
  <2>3. QED
    BY <1>3, <2>2
<1>5. e \in [0 .. n -> Nat] /\ e[0] = m
  BY <1>1, <1>2, <1>3, <1>4
<1>6. \A i \in 1 .. n : e[i] = e[i - 1] + Places(s[i])
  <2>1. ASSUME NEW i \in 1 .. n PROVE e[i] = e[i - 1] + Places(s[i])
    <3>1. i \in 0 .. n /\ i - 1 \in 0 .. n /\ Places(s[i]) \in {0, 1}
      BY PlacesNat
    <3>2. c[i] = c[i - 1] + Places(s[i])
      BY <1>2
    <3>3. QED
      BY <1>4, <3>1, <3>2
  <2>2. QED
    BY <2>1
<1>7. \A i, j \in 0 .. n : i <= j => e[i] <= e[j]
  BY <1>2, <1>4
<1>8. QED
  BY <1>1, <1>4, <1>5, <1>6, <1>7 DEF Counts

(* The library waits for the requests whose acknowledgements come down,    *)
(* which have been executed, and then for those that go up, in this order. *)
MatchedBy(c, b, down, up, waiting, done) ==
  /\ Counts(c, 0, down) /\ Counts(b, c[Len(down)], up)
  /\ b[Len(up)] = Len(waiting)
  /\ \A j \in 1 .. Len(up) : Places(up[j]) = 1 => waiting[b[j]] = up[j]
  /\ \A k \in 1 .. c[Len(down)] : IsSet(waiting[k]) => waiting[k].value \in done

Matched(down, up, waiting, done) == \E c, b : MatchedBy(c, b, down, up, waiting, done)

LEMMA MatchedBounds ==
  ASSUME NEW D, NEW down \in Seq(D), NEW U, NEW up \in Seq(U), NEW waiting \in Seq(U), NEW done,
         NEW c, NEW b, MatchedBy(c, b, down, up, waiting, done)
  PROVE  /\ Len(down) \in Nat /\ Len(up) \in Nat /\ Len(waiting) \in Nat
         /\ c[Len(down)] \in Nat /\ c[Len(down)] <= Len(waiting)
         /\ \A j \in 0 .. Len(up) : b[j] \in Nat /\ c[Len(down)] <= b[j] /\ b[j] <= Len(waiting)
         /\ \A j \in 1 .. Len(up) : Places(up[j]) = 1 => c[Len(down)] + 1 <= b[j]
<1>1. PICK n \in Nat, m \in Nat, k \in Nat : n = Len(down) /\ m = Len(up) /\ k = Len(waiting)
  BY LenProperties
<1>2. /\ c \in [0 .. n -> Nat] /\ b \in [0 .. m -> Nat] /\ b[0] = c[n] /\ b[m] = k
      /\ \A i \in 1 .. m : b[i] = b[i - 1] + Places(up[i])
      /\ \A i, j \in 0 .. m : i <= j => b[i] <= b[j]
  BY <1>1 DEF MatchedBy, Counts
<1>3. n \in 0 .. n /\ m \in 0 .. m /\ 0 \in 0 .. m /\ \A j \in 0 .. m : 0 <= j /\ j <= m
  BY <1>1
<1>4. c[n] \in Nat /\ \A j \in 0 .. m : b[j] \in Nat /\ c[n] <= b[j] /\ b[j] <= k
  BY <1>2, <1>3
<1>5. \A j \in 1 .. m : Places(up[j]) = 1 => c[n] + 1 <= b[j]
  <2>1. ASSUME NEW j \in 1 .. m, Places(up[j]) = 1 PROVE c[n] + 1 <= b[j]
    <3>1. j - 1 \in 0 .. m /\ b[j] = b[j - 1] + 1
      BY <1>2, <2>1
    <3>2. QED
      BY <1>4, <3>1
  <2>2. QED
    BY <2>1
<1>6. c[n] <= k
  BY <1>3, <1>4
<1>7. QED
  BY <1>1, <1>4, <1>5, <1>6

LEMMA MatchedNone == ASSUME NEW done PROVE Matched(<<>>, <<>>, <<>>, done)
<1>1. PICK c : c = [i \in {0} |-> 0]
  OBVIOUS
<1>2. Counts(c, 0, <<>>) /\ c[0] = 0 /\ Len(<<>>) = 0 /\ \A i \in 1 .. 0 : FALSE
  BY <1>1, CountsNone
<1>3. MatchedBy(c, c, <<>>, <<>>, <<>>, done)
  BY <1>2 DEF MatchedBy
<1>4. QED
  BY <1>3 DEF Matched

(* A report takes no place.                                                *)
LEMMA MatchedReported ==
  ASSUME NEW D, NEW down \in Seq(D), NEW U, NEW up \in Seq(U), NEW waiting \in Seq(U), NEW done,
         NEW m \in D, Places(m) = 0, Matched(down, up, waiting, done)
  PROVE  Matched(Append(down, m), up, waiting, done)
<1>1. PICK c, b : MatchedBy(c, b, down, up, waiting, done)
  BY DEF Matched
<1>2. Counts(c, 0, down) /\ Len(down) \in Nat /\ c[Len(down)] \in Nat
  <2>1. Counts(c, 0, down)
    BY <1>1 DEF MatchedBy
  <2>2. QED
    BY <1>1, <2>1, MatchedBounds
<1>3. PICK e : /\ Counts(e, 0, Append(down, m))
               /\ e[Len(down) + 1] = c[Len(down)] + 0
  BY <1>2, CountsGrow
<1>4. Len(Append(down, m)) = Len(down) + 1
  BY GrowQueue
<1>5. e[Len(Append(down, m))] = c[Len(down)]
  BY <1>2, <1>3, <1>4
<1>6. MatchedBy(e, b, Append(down, m), up, waiting, done)
  BY <1>1, <1>3, <1>5 DEF MatchedBy
<1>7. QED
  BY <1>6 DEF Matched

(* Nothing is lost from what was done.                                     *)
LEMMA MatchedMore ==
  ASSUME NEW down, NEW up, NEW waiting, NEW done, NEW more, done \subseteq more,
         Matched(down, up, waiting, done)
  PROVE  Matched(down, up, waiting, more)
BY DEF Matched, MatchedBy

(* A subscription is served without leaving a trace.                       *)
LEMMA MatchedSubscribed ==
  ASSUME NEW D, NEW down \in Seq(D), NEW U, NEW up \in Seq(U), NEW waiting \in Seq(U), NEW done,
         up # <<>>, Places(Head(up)) = 0, Matched(down, up, waiting, done)
  PROVE  Matched(down, Tail(up), waiting, done)
<1>1. PICK c, b : MatchedBy(c, b, down, up, waiting, done)
  BY DEF Matched
<1>2. PICK p \in Nat : p = c[Len(down)]
  BY <1>1, MatchedBounds
<1>3. PICK n \in Nat : /\ Len(up) = n + 1 /\ Len(Tail(up)) = n /\ Head(up) = up[1]
                       /\ \A i \in 1 .. n : Tail(up)[i] = up[i + 1]
  BY ShiftLengths
<1>4. /\ Counts(c, 0, down) /\ Counts(b, p, up) /\ b[n + 1] = Len(waiting)
      /\ \A j \in 1 .. n + 1 : Places(up[j]) = 1 => waiting[b[j]] = up[j]
      /\ \A k \in 1 .. p : IsSet(waiting[k]) => waiting[k].value \in done
  BY <1>1, <1>2, <1>3 DEF MatchedBy
<1>5. PICK e : Counts(e, p, Tail(up)) /\ \A i \in 0 .. n : e[i] = b[i + 1]
  <2>1. (n + 1) - 1 = n /\ p + 0 = p
    BY <1>2, <1>3
  <2>2. \E e : Counts(e, p + 0, Tail(up)) /\ \A i \in 0 .. Len(up) - 1 : e[i] = b[i + 1]
    BY <1>4, CountsShift
  <2>3. QED
    BY <1>3, <2>1, <2>2
<1>6. e[n] = Len(waiting)
  <2>1. n \in 0 .. n
    OBVIOUS
  <2>2. QED
    BY <1>4, <1>5, <2>1
<1>7. ASSUME NEW j \in 1 .. n, Places(Tail(up)[j]) = 1 PROVE waiting[e[j]] = Tail(up)[j]
  <2>1. j \in 0 .. n /\ j + 1 \in 1 .. n + 1
    OBVIOUS
  <2>2. Tail(up)[j] = up[j + 1] /\ e[j] = b[j + 1]
    BY <1>3, <1>5, <2>1
  <2>3. QED
    BY <1>4, <1>7, <2>1, <2>2
<1>8. MatchedBy(c, e, down, Tail(up), waiting, done)
  BY <1>2, <1>3, <1>4, <1>5, <1>6, <1>7 DEF MatchedBy
<1>9. QED
  BY <1>8 DEF Matched

(* A request that is served is acknowledged, after those before it.        *)
LEMMA MatchedServed ==
  ASSUME NEW D, NEW down \in Seq(D), NEW U, NEW up \in Seq(U), NEW waiting \in Seq(U), NEW done,
         NEW a \in D, Places(a) = 1,
         up # <<>>, Places(Head(up)) = 1, IsSet(Head(up)) => Head(up).value \in done,
         Matched(down, up, waiting, done)
  PROVE  Matched(Append(down, a), Tail(up), waiting, done)
<1>1. PICK c, b : MatchedBy(c, b, down, up, waiting, done)
  BY DEF Matched
<1>2. PICK p \in Nat : p = c[Len(down)]
  BY <1>1, MatchedBounds
<1>3. PICK n \in Nat : /\ Len(up) = n + 1 /\ Len(Tail(up)) = n /\ Head(up) = up[1]
                       /\ \A i \in 1 .. n : Tail(up)[i] = up[i + 1]
  BY ShiftLengths
<1>4. /\ Counts(c, 0, down) /\ Counts(b, p, up) /\ b[n + 1] = Len(waiting)
      /\ \A j \in 1 .. n + 1 : Places(up[j]) = 1 => waiting[b[j]] = up[j]
      /\ \A k \in 1 .. p : IsSet(waiting[k]) => waiting[k].value \in done
  BY <1>1, <1>2, <1>3 DEF MatchedBy
<1>5. PICK e : Counts(e, p + 1, Tail(up)) /\ \A i \in 0 .. n : e[i] = b[i + 1]
  <2>1. (n + 1) - 1 = n
    BY <1>3
  <2>2. \E e : Counts(e, p + 1, Tail(up)) /\ \A i \in 0 .. Len(up) - 1 : e[i] = b[i + 1]
    BY <1>4, CountsShift
  <2>3. QED
    BY <1>3, <2>1, <2>2
<1>6. PICK d : Counts(d, 0, Append(down, a)) /\ d[Len(down) + 1] = p + 1
  BY <1>2, <1>4, CountsGrow
<1>7. Len(Append(down, a)) = Len(down) + 1
  BY GrowQueue
<1>8. waiting[p + 1] = Head(up)
  <2>1. 1 \in 1 .. n + 1 /\ 1 - 1 = 0
    BY <1>3
  <2>2. b[1] = p + 1
    BY <1>3, <1>4, <2>1 DEF Counts
  <2>3. QED
    BY <1>3, <1>4, <2>1, <2>2
<1>9. e[n] = Len(waiting)
  <2>1. n \in 0 .. n
    OBVIOUS
  <2>2. QED
    BY <1>4, <1>5, <2>1
<1>10. ASSUME NEW j \in 1 .. n, Places(Tail(up)[j]) = 1 PROVE waiting[e[j]] = Tail(up)[j]
  <2>1. j \in 0 .. n /\ j + 1 \in 1 .. n + 1
    OBVIOUS
  <2>2. Tail(up)[j] = up[j + 1] /\ e[j] = b[j + 1]
    BY <1>3, <1>5, <2>1
  <2>3. QED
    BY <1>4, <1>10, <2>1, <2>2
<1>11. \A k \in 1 .. p + 1 : IsSet(waiting[k]) => waiting[k].value \in done
  <2>1. \A k \in 1 .. p + 1 : k \in 1 .. p \/ k = p + 1
    BY <1>2
  <2>2. QED
    BY <1>4, <1>8, <2>1
<1>12. MatchedBy(d, e, Append(down, a), Tail(up), waiting, done)
  BY <1>3, <1>5, <1>6, <1>7, <1>9, <1>10, <1>11 DEF MatchedBy
<1>13. QED
  BY <1>12 DEF Matched

(* What is sent goes behind all else, on the wire and among what waits.    *)
LEMMA MatchedSent ==
  ASSUME NEW D, NEW down \in Seq(D), NEW U, NEW up \in Seq(U), NEW waiting \in Seq(U), NEW done,
         NEW r \in U, Matched(down, up, waiting, done)
  PROVE  /\ Places(r) = 0 => Matched(down, Append(up, r), waiting, done)
         /\ Places(r) = 1 => Matched(down, Append(up, r), Append(waiting, r), done)
<1>1. PICK c, b : MatchedBy(c, b, down, up, waiting, done)
  BY DEF Matched
<1>2. /\ c[Len(down)] \in Nat /\ c[Len(down)] <= Len(waiting)
      /\ \A j \in 0 .. Len(up) : b[j] \in Nat /\ c[Len(down)] <= b[j] /\ b[j] <= Len(waiting)
      /\ \A j \in 1 .. Len(up) : Places(up[j]) = 1 => c[Len(down)] + 1 <= b[j]
  BY <1>1, MatchedBounds
<1>3. /\ Counts(c, 0, down) /\ Counts(b, c[Len(down)], up)
      /\ b[Len(up)] = Len(waiting)
      /\ \A j \in 1 .. Len(up) : Places(up[j]) = 1 => waiting[b[j]] = up[j]
      /\ \A k \in 1 .. c[Len(down)] : IsSet(waiting[k]) => waiting[k].value \in done
  BY <1>1 DEF MatchedBy
<1>4. PICK e : /\ Counts(e, c[Len(down)], Append(up, r))
               /\ \A i \in 0 .. Len(up) : e[i] = b[i]
               /\ e[Len(up) + 1] = b[Len(up)] + Places(r)
  BY <1>2, <1>3, CountsGrow
<1>5. PICK n \in Nat : n = Len(up)
  BY LenProperties
<1>6. /\ Len(Append(up, r)) = n + 1 /\ Append(up, r)[n + 1] = r
      /\ \A i \in 1 .. n : Append(up, r)[i] = up[i]
  BY <1>5, GrowQueue
<1>7. PICK w \in Nat : w = Len(waiting)
  BY LenProperties
<1>8. /\ Len(Append(waiting, r)) = w + 1 /\ Append(waiting, r)[w + 1] = r
      /\ \A i \in 1 .. w : Append(waiting, r)[i] = waiting[i]
  BY <1>7, GrowQueue
<1>9. \A j \in 1 .. n + 1 : (j \in 1 .. n /\ j \in 0 .. n) \/ j = n + 1
  BY <1>5
<1>10. ASSUME Places(r) = 0 PROVE MatchedBy(c, e, down, Append(up, r), waiting, done)
  <2>1. e[n + 1] = w
    BY <1>3, <1>4, <1>5, <1>7, <1>10
  <2>2. \A j \in 1 .. n + 1 : Places(Append(up, r)[j]) = 1 => waiting[e[j]] = Append(up, r)[j]
    BY <1>3, <1>4, <1>5, <1>6, <1>9, <1>10
  <2>3. QED
    BY <1>3, <1>4, <1>6, <1>7, <2>1, <2>2 DEF MatchedBy
<1>11. ASSUME Places(r) = 1 PROVE MatchedBy(c, e, down, Append(up, r), Append(waiting, r), done)
  <2>1. e[n + 1] = w + 1
    BY <1>3, <1>4, <1>5, <1>7, <1>11
  <2>2. ASSUME NEW j \in 1 .. n + 1, Places(Append(up, r)[j]) = 1
        PROVE  Append(waiting, r)[e[j]] = Append(up, r)[j]
    <3>1. CASE j = n + 1
      BY <1>6, <1>8, <2>1, <3>1
    <3>2. CASE j \in 1 .. n /\ j \in 0 .. n
      <4>1. Places(up[j]) = 1 /\ Append(up, r)[j] = up[j]
        BY <1>6, <2>2, <3>2
      <4>2. e[j] = b[j] /\ b[j] \in 1 .. w
        BY <1>2, <1>4, <1>5, <1>7, <3>2, <4>1
      <4>3. QED
        BY <1>3, <1>5, <1>8, <3>2, <4>1, <4>2
    <3>3. QED
      BY <1>9, <3>1, <3>2
  <2>3. \A k \in 1 .. c[Len(down)] : IsSet(Append(waiting, r)[k]) => Append(waiting, r)[k].value \in done
    <3>1. \A k \in 1 .. c[Len(down)] : k \in 1 .. w
      BY <1>2, <1>7
    <3>2. QED
      BY <1>3, <1>8, <3>1
  <2>4. QED
    BY <1>3, <1>4, <1>6, <1>8, <2>1, <2>2, <2>3 DEF MatchedBy
<1>12. QED
  BY <1>10, <1>11 DEF Matched

(* What is received first answers what has waited longest.                 *)
LEMMA MatchedReceived ==
  ASSUME NEW D, NEW down \in Seq(D), NEW U, NEW up \in Seq(U), NEW waiting \in Seq(U), NEW done,
         down # <<>>, Matched(down, up, waiting, done)
  PROVE  /\ Places(Head(down)) = 0 => Matched(Tail(down), up, waiting, done)
         /\ Places(Head(down)) = 1 =>
              /\ waiting # <<>>
              /\ IsSet(Head(waiting)) => Head(waiting).value \in done
              /\ Matched(Tail(down), up, Tail(waiting), done)
<1>1. PICK c, b : MatchedBy(c, b, down, up, waiting, done)
  BY DEF Matched
<1>2. PICK n \in Nat : /\ Len(down) = n + 1 /\ Len(Tail(down)) = n /\ Head(down) = down[1]
                       /\ \A i \in 1 .. n : Tail(down)[i] = down[i + 1]
  BY ShiftLengths
<1>3. /\ c[n + 1] \in Nat /\ c[n + 1] <= Len(waiting)
      /\ \A j \in 0 .. Len(up) : b[j] \in Nat /\ c[n + 1] <= b[j] /\ b[j] <= Len(waiting)
      /\ \A j \in 1 .. Len(up) : Places(up[j]) = 1 => c[n + 1] + 1 <= b[j]
  <2>1. /\ c[Len(down)] \in Nat /\ c[Len(down)] <= Len(waiting)
        /\ \A j \in 0 .. Len(up) : b[j] \in Nat /\ c[Len(down)] <= b[j] /\ b[j] <= Len(waiting)
        /\ \A j \in 1 .. Len(up) : Places(up[j]) = 1 => c[Len(down)] + 1 <= b[j]
    BY <1>1, MatchedBounds
  <2>2. QED
    BY <1>2, <2>1
<1>4. /\ Counts(c, 0, down) /\ Counts(b, c[n + 1], up)
      /\ b[Len(up)] = Len(waiting)
      /\ \A j \in 1 .. Len(up) : Places(up[j]) = 1 => waiting[b[j]] = up[j]
      /\ \A k \in 1 .. c[n + 1] : IsSet(waiting[k]) => waiting[k].value \in done
  BY <1>1, <1>2 DEF MatchedBy
<1>5. PICK e : /\ Counts(e, Places(Head(down)), Tail(down))
               /\ \A i \in 0 .. Len(down) - 1 : e[i] = c[i + 1]
  <2>1. 0 + Places(Head(down)) = Places(Head(down))
    BY PlacesNat
  <2>2. QED
    BY <1>4, <2>1, CountsShift
<1>6. e[n] = c[n + 1]
  BY <1>2, <1>5
<1>7. ASSUME Places(Head(down)) = 0 PROVE MatchedBy(e, b, Tail(down), up, waiting, done)
  <2>1. Counts(e, 0, Tail(down))
    BY <1>5, <1>7
  <2>2. QED
    BY <1>2, <1>4, <1>6, <2>1 DEF MatchedBy
<1>8. ASSUME Places(Head(down)) = 1
      PROVE  /\ waiting # <<>>
             /\ IsSet(Head(waiting)) => Head(waiting).value \in done
             /\ \E d, f : MatchedBy(d, f, Tail(down), up, Tail(waiting), done)
  <2>1. 1 <= c[n + 1]
    <3>1. c[1] = c[0] + 1 /\ c[0] = 0 /\ c[1] <= c[n + 1]
      <4>1. 1 \in 1 .. n + 1 /\ 1 - 1 = 0 /\ 1 \in 0 .. n + 1 /\ n + 1 \in 0 .. n + 1 /\ 1 <= n + 1
        BY <1>2
      <4>2. QED
        BY <1>2, <1>4, <1>8, <4>1 DEF Counts
    <3>2. QED
      BY <3>1
  <2>2. PICK w \in Nat : w + 1 = Len(waiting)
    <3>1. Len(waiting) \in Nat /\ 1 <= Len(waiting)
      BY <1>3, <2>1, LenProperties
    <3>2. QED
      BY <3>1
  <2>3. waiting # <<>>
    BY <2>2, EmptySeq
  <2>4. Head(waiting) = waiting[1] /\ Len(Tail(waiting)) = w /\ \A k \in 1 .. w : Tail(waiting)[k] = waiting[k + 1]
    BY <2>2, <2>3, ShiftQueue
  <2>5. IsSet(Head(waiting)) => Head(waiting).value \in done
    BY <1>3, <1>4, <2>1, <2>4
  <2>6. PICK d : Counts(d, 0, Tail(down)) /\ \A i \in 0 .. n : d[i] = e[i] - 1
    <3>1. Tail(down) \in Seq(D) /\ Len(Tail(down)) = n
      BY <1>2, ShiftQueue
    <3>2. PICK k : k = Places(Head(down)) /\ Counts(e, k, Tail(down))
      BY <1>5
    <3>3. PICK z \in Nat : z = 0
      OBVIOUS
    <3>4. k = z + 1
      BY <1>8, <3>2, <3>3
    <3>5. PICK t \in Seq(D) : t = Tail(down)
      BY <3>1
    <3>6. Counts(e, k, t)
      BY <3>2, <3>5
    <3>7. \E d : Counts(d, z, t) /\ \A i \in 0 .. Len(t) : d[i] = e[i] - 1
      BY <3>4, <3>6, CountsDown
    <3>8. QED
      BY <3>1, <3>3, <3>5, <3>7
  <2>7. PICK m \in Nat : m + 1 = c[n + 1]
    <3>1. c[n + 1] - 1 \in Nat /\ (c[n + 1] - 1) + 1 = c[n + 1]
      BY <1>3, <2>1
    <3>2. QED
      BY <3>1
  <2>8. PICK f : Counts(f, m, up) /\ \A i \in 0 .. Len(up) : f[i] = b[i] - 1
    <3>1. PICK k : k = c[n + 1]
      OBVIOUS
    <3>2. k = m + 1 /\ Counts(b, k, up)
      BY <1>4, <2>7, <3>1
    <3>3. \E f : Counts(f, m, up) /\ \A i \in 0 .. Len(up) : f[i] = b[i] - 1
      BY <3>2, CountsDown
    <3>4. QED
      BY <3>3
  <2>9. d[n] = m
    <3>1. n \in 0 .. n /\ (m + 1) - 1 = m
      OBVIOUS
    <3>2. QED
      BY <1>6, <2>6, <2>7, <3>1
  <2>10. PICK u \in Nat : u = Len(up)
    BY LenProperties
  <2>11. f[u] = w
    <3>1. u \in 0 .. u /\ (w + 1) - 1 = w
      OBVIOUS
    <3>2. f[u] = b[u] - 1 /\ b[u] = w + 1
      BY <1>4, <2>2, <2>8, <2>10, <3>1
    <3>3. QED
      BY <3>1, <3>2
  <2>12. ASSUME NEW j \in 1 .. u, Places(up[j]) = 1 PROVE Tail(waiting)[f[j]] = up[j]
    <3>1. waiting[b[j]] = up[j] /\ j \in 0 .. u /\ f[j] = b[j] - 1
      BY <1>4, <2>8, <2>10, <2>12
    <3>2. b[j] \in Nat /\ c[n + 1] + 1 <= b[j] /\ b[j] <= w + 1
      BY <1>3, <2>2, <2>10, <2>12, <3>1
    <3>3. PICK v \in Nat : v = b[j]
      BY <3>2
    <3>4. m + 2 <= v /\ v <= w + 1 /\ f[j] = v - 1
      BY <2>7, <3>1, <3>2, <3>3
    <3>5. f[j] \in 1 .. w /\ f[j] + 1 = v
      BY <3>4
    <3>6. QED
      BY <2>4, <3>1, <3>3, <3>5
  <2>13. ASSUME NEW k \in 1 .. m, IsSet(Tail(waiting)[k]) PROVE Tail(waiting)[k].value \in done
    <3>1. k \in 1 .. w /\ k + 1 \in 1 .. c[n + 1]
      BY <1>3, <2>2, <2>7
    <3>2. QED
      BY <1>4, <2>4, <2>13, <3>1
  <2>14. MatchedBy(d, f, Tail(down), up, Tail(waiting), done)
    BY <1>2, <2>4, <2>6, <2>8, <2>9, <2>10, <2>11, <2>12, <2>13 DEF MatchedBy
  <2>15. QED
    BY <2>3, <2>5, <2>14
<1>9. QED
  BY <1>7, <1>8 DEF Matched

Window == Matched(toClient, toBroker, unacked, Executed)

LEMMA WindowInit == Init => Window
BY MatchedNone DEF Init, Window

(* More is executed, never less.                                           *)
LEMMA ExecutedGrows ==
  ASSUME Typed, Serve
  PROVE  /\ Executed \subseteq Executed'
         /\ IsSet(Head(toBroker)) => Head(toBroker).value \in Executed'
<1>1. executed \in Seq(Values) /\ Head(toBroker) \in Requests
  BY ServeParts DEF Typed, HistoryTypes
<1>2. CASE IsSet(Head(toBroker))
  <2>1. executed' = Append(executed, Head(toBroker).value) /\ Head(toBroker).value \in Values
    BY <1>1, <1>2, ServeParts, AddressedSets DEF IsSet
  <2>2. /\ DOMAIN executed = 1 .. Len(executed) /\ DOMAIN executed' = 1 .. Len(executed) + 1
        /\ Len(executed) \in Nat /\ \A i \in 1 .. Len(executed) : executed'[i] = executed[i]
        /\ executed'[Len(executed) + 1] = Head(toBroker).value
    BY <1>1, <2>1, GrowQueue
  <2>3. \A i \in DOMAIN executed : i \in DOMAIN executed' /\ executed'[i] = executed[i]
    BY <2>2
  <2>4. Len(executed) + 1 \in DOMAIN executed'
    BY <2>2
  <2>5. QED
    BY <2>2, <2>3, <2>4 DEF Executed
<1>3. CASE ~IsSet(Head(toBroker))
  BY <1>3, ServeParts DEF IsSet, Executed
<1>4. QED
  BY <1>2, <1>3

LEMMA WindowServe == ASSUME Typed, Window, Serve PROVE Window'
<1> DEFINE r == Head(toBroker)
<1>1. /\ toClient \in Seq(Reporting \cup {Ack}) /\ toBroker \in Seq(Requests) /\ unacked \in Seq(Requests)
      /\ toBroker # <<>> /\ toBroker' = Tail(toBroker) /\ r \in Requests /\ unacked' = unacked
      /\ Tail(toBroker) \in Seq(Requests)
  BY ServeParts, HeadTailProperties DEF Typed, RequestTypes, ReportTypes, clientVars
<1>2. Matched(toClient, toBroker, unacked, Executed')
  BY ExecutedGrows, MatchedMore DEF Window
<1>3. CASE r.kind = "subscribe"
  <2>1. toClient' = toClient /\ Places(r) = 0
    BY <1>3, ServeParts DEF Places
  <2>2. QED
    BY <1>1, <1>2, <2>1, MatchedSubscribed DEF Window
<1>4. CASE r.kind \in {"get", "set"}
  <2>1. PICK report \in {<<>>, <<Publish(r.name, world'[r.name])>>} : toClient' = toClient \o <<Ack>> \o report
    BY <1>4, ServeParts
  <2>2. Ack \in Reporting \cup {Ack} /\ Places(Ack) = 1 /\ Places(r) = 1
    BY <1>4 DEF Ack, Places
  <2>3. IsSet(r) => r.value \in Executed'
    BY ExecutedGrows
  <2>4. Matched(Append(toClient, Ack), Tail(toBroker), unacked, Executed')
    BY <1>1, <1>2, <2>2, <2>3, MatchedServed
  <2>5. /\ Append(toClient, Ack) \in Seq(Reporting \cup {Ack})
        /\ Append(toClient, Ack) = toClient \o <<Ack>>
    BY <1>1, <2>2, AppendProperties, AppendIsConcat
  <2>6. CASE report = <<>>
    <3>1. toClient' = Append(toClient, Ack)
      BY <2>1, <2>5, <2>6, ConcatEmptySeq
    <3>2. QED
      BY <1>1, <2>4, <3>1 DEF Window
  <2>7. CASE report = <<Publish(r.name, world'[r.name])>>
    <3>1. PICK m : m = Publish(r.name, world'[r.name])
      OBVIOUS
    <3>2. m \in Reporting \cup {Ack} /\ Places(m) = 0
      <4>1. r.name \in Names /\ world'[r.name] \in States(r.name)
        BY <1>1, AddressedSets, ReportTypesServe DEF ReportTypes
      <4>2. QED
        BY <3>1, <4>1 DEF Reporting, Publish, Places
    <3>3. toClient' = Append(Append(toClient, Ack), m)
      BY <2>1, <2>5, <2>7, <3>1, <3>2, AppendIsConcat
    <3>4. QED
      BY <1>1, <2>4, <2>5, <3>2, <3>3, MatchedReported DEF Window
  <2>8. QED
    BY <2>1, <2>6, <2>7
<1>5. QED
  BY <1>1, <1>3, <1>4, AddressedSets

LEMMA WindowStep == Typed /\ Window /\ [Next]_vars => Window'
<1>1. SUFFICES ASSUME Typed, Window, [Next]_vars PROVE Window'
  OBVIOUS
<1>2. /\ toClient \in Seq(Reporting \cup {Ack}) /\ toBroker \in Seq(Requests) /\ unacked \in Seq(Requests)
      /\ pending \in Seq(Requests) /\ requests \in Seq(Requests)
  BY <1>1 DEF Typed, RequestTypes, ReportTypes
<1>3. CASE Serve
  BY <1>1, <1>3, WindowServe
<1>4. CASE Send
  <2>1. PICK r : r = IF pending # <<>> THEN Head(pending) ELSE Head(requests)
    OBVIOUS
  <2>2. /\ pending # <<>> \/ requests # <<>>
        /\ toBroker' = Append(toBroker, r) /\ UNCHANGED <<toClient, executed>>
        /\ r.kind = "subscribe" => unacked' = unacked
        /\ r.kind # "subscribe" => unacked' = Append(unacked, r)
    BY <1>4, <2>1 DEF Send, deviceVars
  <2>3. r \in Requests
    <3>1. CASE pending # <<>>
      BY <1>2, <2>1, <3>1, HeadTailProperties
    <3>2. CASE pending = <<>>
      BY <1>2, <2>1, <2>2, <3>2, HeadTailProperties
    <3>3. QED
      BY <3>1, <3>2
  <2>4. /\ r.kind = "subscribe" => Places(r) = 0
        /\ r.kind # "subscribe" => Places(r) = 1
    BY <2>3, AddressedSets DEF Places
  <2>5. Window'
    <3>1. CASE r.kind = "subscribe"
      BY <1>1, <1>2, <2>2, <2>3, <2>4, <3>1, MatchedSent DEF Window, Executed
    <3>2. CASE r.kind # "subscribe"
      BY <1>1, <1>2, <2>2, <2>3, <2>4, <3>2, MatchedSent DEF Window, Executed
    <3>3. QED
      BY <3>1, <3>2
  <2>6. QED
    BY <2>5
<1>5. CASE Receive
  <2>1. /\ toClient # <<>> /\ toClient' = Tail(toClient) /\ UNCHANGED <<toBroker, executed>>
        /\ Head(toClient).kind = "publish" => unacked' = unacked
        /\ Head(toClient).kind # "publish" => unacked' = Tail(unacked)
    BY <1>5 DEF Receive, deviceVars
  <2>2. /\ Head(toClient).kind = "publish" => Places(Head(toClient)) = 0
        /\ Head(toClient).kind # "publish" => Places(Head(toClient)) = 1
    <3>1. Head(toClient) \in Reporting \cup {Ack}
      BY <1>2, <2>1, HeadTailProperties
    <3>2. Head(toClient).kind \in {"publish", "ack"}
      BY <3>1, ReportShape
    <3>3. QED
      BY <3>2 DEF Places
  <2>3. Matched(toClient', toBroker', unacked', Executed)
    BY <1>1, <1>2, <2>1, <2>2, MatchedReceived DEF Window
  <2>4. QED
    BY <2>1, <2>3 DEF Window, Executed
<1>6. ASSUME NEW n \in Names, NEW f \in Fields(n), Change(n, f) PROVE Window'
  <2>1. PICK m : m = Publish(n, world'[n])
    OBVIOUS
  <2>2. UNCHANGED <<toBroker, unacked, executed>> /\ toClient' \in {toClient, Append(toClient, m)}
    BY <1>6, <2>1 DEF Change, clientVars
  <2>3. m \in Reporting \cup {Ack} /\ Places(m) = 0
    <3>1. world'[n] \in States(n)
      BY <1>1, ReportTypesStep DEF ReportTypes
    <3>2. QED
      BY <2>1, <3>1 DEF Reporting, Publish, Places
  <2>4. Matched(Append(toClient, m), toBroker, unacked, Executed)
    BY <1>1, <1>2, <2>3, MatchedReported DEF Window
  <2>5. QED
    BY <1>1, <2>2, <2>4 DEF Window, Executed
<1>7. CASE Broken
  BY <1>7, MatchedNone DEF Broken, Window
<1>8. ASSUME UNCHANGED <<toClient, toBroker, unacked, executed>> PROVE Window'
  BY <1>1, <1>8 DEF Window, Executed
<1>9. QED
  BY <1>1, <1>3, <1>4, <1>5, <1>6, <1>7, <1>8
  DEF Next, Engine, Library, Subscribe, Prime, Dispatch, Tick, Connected, Recover, ConnectFailed,
      vars, clientVars, brokerVars, deviceVars

-----------------------------------------------------------------------------
(* No accepted command disappears *)

Somewhere ==
  Executed \cup forgotten \cup SetValues(requests) \cup SetValues(pending) \cup SetValues(unacked)
Accounted == \A a \in accepted : a.value \in Somewhere

LEMMA SetValuesGrow ==
  ASSUME NEW S, NEW s \in Seq(S), NEW x \in S
  PROVE  /\ SetValues(s) \subseteq SetValues(Append(s, x))
         /\ IsSet(x) => x.value \in SetValues(Append(s, x))
<1>1. /\ DOMAIN s = 1 .. Len(s) /\ DOMAIN Append(s, x) = 1 .. Len(s) + 1 /\ Len(s) \in Nat
      /\ \A i \in 1 .. Len(s) : Append(s, x)[i] = s[i]
      /\ Append(s, x)[Len(s) + 1] = x
  BY GrowQueue
<1>2. /\ \A i \in DOMAIN s : i \in DOMAIN Append(s, x) /\ Append(s, x)[i] = s[i]
      /\ Len(s) + 1 \in DOMAIN Append(s, x)
  BY <1>1
<1>3. QED
  BY <1>1, <1>2 DEF SetValues, IsSet

LEMMA SetValuesShift ==
  ASSUME NEW S, NEW s \in Seq(S), s # <<>>, NEW v \in SetValues(s)
  PROVE  v \in SetValues(Tail(s)) \/ (IsSet(Head(s)) /\ v = Head(s).value)
<1>1. PICK i \in DOMAIN s : s[i].kind = "set" /\ v = s[i].value
  BY DEF SetValues
<1>2. /\ DOMAIN s = 1 .. Len(s) /\ DOMAIN Tail(s) = 1 .. Len(s) - 1 /\ Len(s) \in Nat /\ Head(s) = s[1]
      /\ \A j \in 1 .. Len(s) - 1 : Tail(s)[j] = s[j + 1]
  BY ShiftQueue
<1>3. CASE i = 1
  BY <1>1, <1>2, <1>3 DEF IsSet
<1>4. CASE i # 1
  <2>1. i - 1 \in DOMAIN Tail(s) /\ Tail(s)[i - 1] = s[i]
    BY <1>2, <1>4
  <2>2. QED
    BY <1>1, <2>1 DEF SetValues
<1>5. QED
  BY <1>3, <1>4

LEMMA SetValuesJoin ==
  ASSUME NEW S, NEW s \in Seq(S), NEW t \in Seq(S)
  PROVE  SetValues(s) \cup SetValues(t) \subseteq SetValues(s \o t)
<1>1. PICK n \in Nat, m \in Nat : n = Len(s) /\ m = Len(t)
  BY LenProperties
<1>2. /\ s \o t \in Seq(S) /\ Len(s \o t) = n + m
      /\ \A i \in 1 .. n + m : (s \o t)[i] = IF i <= n THEN s[i] ELSE t[i - n]
  BY <1>1, ConcatProperties
<1>3. DOMAIN s = 1 .. n /\ DOMAIN t = 1 .. m /\ DOMAIN (s \o t) = 1 .. n + m
  BY <1>1, <1>2, LenProperties
<1>4. \A i \in DOMAIN s : i \in DOMAIN (s \o t) /\ (s \o t)[i] = s[i]
  BY <1>1, <1>2, <1>3
<1>5. \A i \in DOMAIN t : n + i \in DOMAIN (s \o t) /\ (s \o t)[n + i] = t[i]
  <2>1. \A i \in 1 .. m : n + i \in 1 .. n + m /\ ~(n + i <= n) /\ (n + i) - n = i
    BY <1>1
  <2>2. QED
    BY <1>2, <1>3, <2>1
<1>6. ASSUME NEW v \in SetValues(s) \cup SetValues(t) PROVE v \in SetValues(s \o t)
  <2>1. CASE v \in SetValues(s)
    <3>1. PICK i \in DOMAIN s : s[i].kind = "set" /\ v = s[i].value
      BY <2>1 DEF SetValues
    <3>2. QED
      BY <1>4, <3>1 DEF SetValues
  <2>2. CASE v \in SetValues(t)
    <3>1. PICK i \in DOMAIN t : t[i].kind = "set" /\ v = t[i].value
      BY <2>2 DEF SetValues
    <3>2. QED
      BY <1>5, <3>1 DEF SetValues
  <2>3. QED
    BY <2>1, <2>2
<1>7. QED
  BY <1>6

LEMMA AccountedBroken == ASSUME Typed, Accounted, Broken PROVE Accounted'
<1>1. /\ requests \in Seq(Requests) /\ pending \in Seq(Requests) /\ unacked \in Seq(Requests)
      /\ pending' \in {unacked \o pending \o requests, pending \o unacked \o requests}
      /\ UNCHANGED <<accepted, executed, forgotten>>
  BY DEF Broken, Typed, RequestTypes, engineVars, deviceVars
<1>2. unacked \o pending \in Seq(Requests) /\ pending \o unacked \in Seq(Requests)
  BY <1>1, ConcatProperties
<1>3. /\ SetValues(unacked) \cup SetValues(pending) \subseteq SetValues(unacked \o pending)
      /\ SetValues(unacked) \cup SetValues(pending) \subseteq SetValues(pending \o unacked)
  BY <1>1, SetValuesJoin
<1>4. /\ SetValues(unacked \o pending) \cup SetValues(requests) \subseteq SetValues((unacked \o pending) \o requests)
      /\ SetValues(pending \o unacked) \cup SetValues(requests) \subseteq SetValues((pending \o unacked) \o requests)
  BY <1>1, <1>2, SetValuesJoin
<1>5. SetValues(unacked) \cup SetValues(pending) \cup SetValues(requests) \subseteq SetValues(pending')
  <2>1. CASE pending' = unacked \o pending \o requests
    BY <1>3, <1>4, <2>1
  <2>2. CASE pending' = pending \o unacked \o requests
    BY <1>3, <1>4, <2>2
  <2>3. QED
    BY <1>1, <2>1, <2>2
<1>6. Executed' = Executed
  BY <1>1 DEF Executed
<1>7. QED
  BY <1>1, <1>5, <1>6 DEF Accounted, Somewhere

LEMMA AccountedStep == Typed /\ Window /\ Accounted /\ [Next]_vars => Accounted'
<1>1. SUFFICES ASSUME Typed, Window, Accounted, [Next]_vars PROVE Accounted'
  OBVIOUS
<1>2. /\ requests \in Seq(Requests) /\ pending \in Seq(Requests) /\ unacked \in Seq(Requests)
      /\ toBroker \in Seq(Requests) /\ toClient \in Seq(Reporting \cup {Ack}) /\ stamp \in Nat
  BY <1>1 DEF Typed, RequestTypes, ReportTypes, HistoryTypes
<1>3. ASSUME accepted' = accepted, Somewhere \subseteq Somewhere' PROVE Accounted'
  BY <1>1, <1>3 DEF Accounted
<1>4. ASSUME UNCHANGED <<accepted, executed, forgotten, pending, unacked>>,
             NEW r \in Requests, requests' \in {requests, Append(requests, r)}
      PROVE  Accounted'
  <2>1. SetValues(requests) \subseteq SetValues(requests')
    BY <1>2, <1>4, SetValuesGrow
  <2>2. Executed' = Executed
    BY <1>4 DEF Executed
  <2>3. QED
    BY <1>3, <1>4, <2>1, <2>2 DEF Somewhere
<1>5. ASSUME NEW n \in Names, Subscribe(n) PROVE Accounted'
  <2>1. [kind |-> "subscribe", name |-> n] \in Requests
    BY DEF Requests, Subscriptions
  <2>2. QED
    BY <1>4, <1>5, <2>1 DEF Subscribe, deviceVars
<1>6. ASSUME NEW r \in PrimeRequests, Prime(r) PROVE Accounted'
  <2>1. r \in Requests
    BY DEF Requests
  <2>2. QED
    BY <1>4, <1>6, <2>1 DEF Prime, deviceVars
<1>7. ASSUME NEW d \in Devices, NEW cap \in Capabilities[d], Dispatch(d, cap) PROVE Accounted'
  <2>1. PICK v : v = Value(Name[d], Field(cap, Channel[d]), stamp + 1)
    OBVIOUS
  <2>2. PICK r : r = [kind |-> "set", name |-> Name[d], value |-> v]
    OBVIOUS
  <2>3. /\ UNCHANGED <<executed, forgotten, pending, unacked>>
        /\ requests' = Append(requests, r) /\ accepted' = accepted \cup {[value |-> v, breaks |-> breaks]}
    BY <1>7, <2>1, <2>2 DEF Dispatch, deviceVars
  <2>4. r \in Requests /\ IsSet(r) /\ r.value = v
    <3>1. stamp + 1 \in Nat
      BY <1>2
    <3>2. QED
      BY <2>1, <2>2, <3>1, CommandAddressed DEF IsSet
  <2>5. SetValues(requests) \subseteq SetValues(requests') /\ v \in SetValues(requests')
    BY <1>2, <2>3, <2>4, SetValuesGrow
  <2>6. Somewhere \subseteq Somewhere' /\ v \in Somewhere'
    BY <2>3, <2>5 DEF Somewhere, Executed
  <2>7. QED
    BY <1>1, <2>3, <2>6 DEF Accounted
<1>8. CASE Connected
  <2>1. /\ UNCHANGED <<accepted, executed, requests, unacked>>
        /\ \/ UNCHANGED <<pending, forgotten>>
           \/ forgotten' = forgotten \cup SetValues(pending)
    BY <1>8 DEF Connected, engineVars, deviceVars
  <2>2. QED
    BY <1>3, <2>1 DEF Somewhere, Executed
<1>9. CASE Broken
  BY <1>1, <1>9, AccountedBroken
<1>10. CASE Send
  <2>1. PICK r : r = IF pending # <<>> THEN Head(pending) ELSE Head(requests)
    OBVIOUS
  <2>2. /\ UNCHANGED <<accepted, executed, forgotten>>
        /\ pending # <<>> \/ requests # <<>>
        /\ r.kind = "subscribe" => unacked' = unacked
        /\ r.kind # "subscribe" => unacked' = Append(unacked, r)
        /\ pending # <<>> => pending' = Tail(pending) /\ requests' = requests
        /\ pending = <<>> => requests' = Tail(requests) /\ pending' = pending
    BY <1>10, <2>1 DEF Send, engineVars, deviceVars
  <2>3. /\ r \in Requests
        /\ \A v \in SetValues(pending) \cup SetValues(requests) :
             v \in SetValues(pending') \cup SetValues(requests') \/ (IsSet(r) /\ v = r.value)
    <3>1. CASE pending # <<>>
      BY <1>2, <2>1, <2>2, <3>1, HeadTailProperties, SetValuesShift
    <3>2. CASE pending = <<>>
      BY <1>2, <2>1, <2>2, <3>2, HeadTailProperties, SetValuesShift
    <3>3. QED
      BY <3>1, <3>2
  <2>4. SetValues(unacked) \subseteq SetValues(unacked') /\ (IsSet(r) => r.value \in SetValues(unacked'))
    BY <1>2, <2>2, <2>3, SetValuesGrow DEF IsSet
  <2>5. Somewhere \subseteq Somewhere'
    BY <2>2, <2>3, <2>4 DEF Somewhere, Executed
  <2>6. QED
    BY <1>3, <2>2, <2>5
<1>11. CASE Receive
  <2>1. /\ toClient # <<>> /\ UNCHANGED <<accepted, executed, forgotten, requests, pending>>
        /\ Head(toClient).kind = "publish" => unacked' = unacked
        /\ Head(toClient).kind # "publish" => unacked' = Tail(unacked)
    BY <1>11 DEF Receive, engineVars, deviceVars
  <2>2. CASE Head(toClient).kind = "publish"
    BY <1>3, <2>1, <2>2 DEF Somewhere, Executed
  <2>3. CASE Head(toClient).kind # "publish"
    <3>1. Places(Head(toClient)) = 1
      <4>1. Head(toClient) \in Reporting \cup {Ack}
        BY <1>2, <2>1, HeadTailProperties
      <4>2. Head(toClient).kind = "ack"
        BY <2>3, <4>1, ReportShape
      <4>3. QED
        BY <4>2 DEF Places
    <3>2. unacked # <<>> /\ (IsSet(Head(unacked)) => Head(unacked).value \in Executed)
      BY <1>1, <1>2, <2>1, <3>1, MatchedReceived DEF Window
    <3>3. \A v \in SetValues(unacked) : v \in SetValues(unacked') \/ v \in Executed
      BY <1>2, <2>1, <2>3, <3>2, SetValuesShift
    <3>4. QED
      BY <1>3, <2>1, <3>3 DEF Somewhere, Executed
  <2>4. QED
    BY <2>2, <2>3
<1>12. CASE Serve
  <2>1. Executed \subseteq Executed' /\ UNCHANGED <<accepted, forgotten, requests, pending, unacked>>
    BY <1>1, <1>12, ExecutedGrows, ServeParts DEF engineVars, clientVars
  <2>2. QED
    BY <1>3, <2>1 DEF Somewhere
<1>13. ASSUME UNCHANGED <<accepted, executed, forgotten, requests, pending, unacked>> PROVE Accounted'
  BY <1>3, <1>13 DEF Somewhere, Executed
<1>14. QED
  BY <1>1, <1>5, <1>6, <1>7, <1>8, <1>9, <1>10, <1>11, <1>12, <1>13
  DEF Next, Engine, Library, Tick, Recover, ConnectFailed, Change, vars, engineVars, clientVars, deviceVars

-----------------------------------------------------------------------------
(* Until a connection breaks, commands stay in the order of dispatch *)

Num(r) == r.value.number

Ascending(s) ==
  \A i, j \in DOMAIN s : i < j /\ IsSet(s[i]) /\ IsSet(s[j]) => Num(s[i]) < Num(s[j])
Ahead(s, t) ==
  \A i \in DOMAIN s, j \in DOMAIN t : IsSet(s[i]) /\ IsSet(t[j]) => Num(s[i]) < Num(t[j])
Known(s) == \A i \in DOMAIN s : IsSet(s[i]) => Num(s[i]) <= stamp

DoneAscending == \A i, j \in DOMAIN executed : i < j => executed[i].number < executed[j].number
DoneAhead(s) == \A i \in DOMAIN executed, j \in DOMAIN s : IsSet(s[j]) => executed[i].number < Num(s[j])
DoneKnown == \A i \in DOMAIN executed : executed[i].number <= stamp

(* History, wire and channel are, in this order, one rising sequence.      *)
Rising ==
  /\ Ascending(requests) /\ Ascending(toBroker) /\ Ahead(toBroker, requests)
  /\ DoneAscending /\ DoneAhead(toBroker) /\ DoneAhead(requests)
  /\ Known(requests) /\ Known(toBroker) /\ DoneKnown

Untroubled == breaks = 0 => pending = <<>> /\ forgotten = {} /\ Rising

LEMMA Numbers ==
  ASSUME Typed
  PROVE  /\ \A i \in DOMAIN requests : IsSet(requests[i]) => Num(requests[i]) \in Nat
         /\ \A i \in DOMAIN toBroker : IsSet(toBroker[i]) => Num(toBroker[i]) \in Nat
         /\ \A i \in DOMAIN executed : executed[i].number \in Nat
         /\ stamp \in Nat /\ requests \in Seq(Requests) /\ toBroker \in Seq(Requests)
         /\ executed \in Seq(Values) /\ \A r \in Requests : IsSet(r) => r.value \in Values
<1>1. /\ stamp \in Nat /\ requests \in Seq(Requests) /\ toBroker \in Seq(Requests)
      /\ executed \in Seq(Values)
  BY DEF Typed, RequestTypes, HistoryTypes
<1>2. \A r \in Requests : IsSet(r) => r.value \in Values /\ Num(r) \in Nat
  BY AddressedSets DEF Num
<1>3. \A i \in DOMAIN requests : requests[i] \in Requests
  BY <1>1, LenProperties, ElementOfSeq
<1>4. \A i \in DOMAIN toBroker : toBroker[i] \in Requests
  BY <1>1, LenProperties, ElementOfSeq
<1>5. \A i \in DOMAIN executed : executed[i] \in Values
  BY <1>1, LenProperties, ElementOfSeq
<1>6. \A v \in Values : v.number \in Nat
  BY DEF Values
<1>7. QED
  BY <1>1, <1>2, <1>3, <1>4, <1>5, <1>6

(* A new request goes behind all others, a command with a new number.      *)
LEMMA RisingQueued ==
  ASSUME Typed, Rising, UNCHANGED <<toBroker, executed>>,
         NEW r \in Requests, requests' = Append(requests, r),
         stamp' \in Nat, stamp <= stamp', IsSet(r) => Num(r) = stamp' /\ stamp < stamp'
  PROVE  Rising'
<1>1. /\ \A i \in DOMAIN requests : IsSet(requests[i]) => Num(requests[i]) \in Nat
      /\ \A i \in DOMAIN toBroker : IsSet(toBroker[i]) => Num(toBroker[i]) \in Nat
      /\ \A i \in DOMAIN executed : executed[i].number \in Nat
      /\ stamp \in Nat /\ requests \in Seq(Requests)
  BY Numbers
<1>2. /\ \A i \in DOMAIN requests' : \/ i \in DOMAIN requests /\ requests'[i] = requests[i]
                                     \/ requests'[i] = r
      /\ \A i, j \in DOMAIN requests' : i < j => i \in DOMAIN requests /\ requests'[i] = requests[i]
  <2>1. /\ DOMAIN requests = 1 .. Len(requests) /\ Len(requests) \in Nat
        /\ DOMAIN requests' = 1 .. Len(requests) + 1
        /\ \A i \in 1 .. Len(requests) : requests'[i] = requests[i]
        /\ requests'[Len(requests) + 1] = r
    BY <1>1, GrowQueue
  <2>2. QED
    BY <2>1
<1>3. Ascending(requests')
  BY <1>1, <1>2 DEF Rising, Ascending, Known
<1>4. Ahead(toBroker', requests')
  BY <1>1, <1>2 DEF Rising, Ahead, Known
<1>5. DoneAhead(requests)'
  BY <1>1, <1>2 DEF Rising, DoneAhead, DoneKnown
<1>6. Known(requests)' /\ Known(toBroker)' /\ DoneKnown'
  BY <1>1, <1>2 DEF Rising, Known, DoneKnown
<1>7. Ascending(toBroker') /\ DoneAscending' /\ DoneAhead(toBroker)'
  BY DEF Rising, Ascending, DoneAscending, DoneAhead
<1>8. QED
  BY <1>3, <1>4, <1>5, <1>6, <1>7 DEF Rising, Ascending, Ahead

(* The oldest request goes to the wire, behind all it carries.             *)
LEMMA RisingSent ==
  ASSUME Typed, Rising, UNCHANGED <<executed, stamp>>, requests # <<>>, requests' = Tail(requests),
         toBroker' = Append(toBroker, Head(requests))
  PROVE  Rising'
<1>0. requests \in Seq(Requests) /\ toBroker \in Seq(Requests)
  BY Numbers
<1>1. /\ Head(requests) = requests[1] /\ 1 \in DOMAIN requests /\ Head(requests) \in Requests
      /\ \A i \in DOMAIN requests' : /\ i \in Nat /\ i > 0 /\ i + 1 \in DOMAIN requests
                                    /\ requests'[i] = requests[i + 1]
  BY <1>0, ShiftQueue
<1>2. /\ \A i \in DOMAIN toBroker' : \/ i \in DOMAIN toBroker /\ toBroker'[i] = toBroker[i]
                                     \/ toBroker'[i] = requests[1]
      /\ \A i, j \in DOMAIN toBroker' : i < j => i \in DOMAIN toBroker /\ toBroker'[i] = toBroker[i]
  <2>1. /\ DOMAIN toBroker = 1 .. Len(toBroker) /\ Len(toBroker) \in Nat
        /\ DOMAIN toBroker' = 1 .. Len(toBroker) + 1
        /\ \A i \in 1 .. Len(toBroker) : toBroker'[i] = toBroker[i]
        /\ toBroker'[Len(toBroker) + 1] = requests[1]
    BY <1>0, <1>1, GrowQueue
  <2>2. QED
    BY <2>1
<1>3. Ascending(requests')
  <2>1. \A i, j \in DOMAIN requests' : i < j => i + 1 < j + 1
    BY <1>1
  <2>2. QED
    BY <1>1, <2>1 DEF Rising, Ascending
<1>4. Ascending(toBroker')
  BY <1>1, <1>2 DEF Rising, Ascending, Ahead
<1>5. Ahead(toBroker', requests')
  <2>1. \A i \in DOMAIN requests' : 1 < i + 1
    BY <1>1
  <2>2. QED
    BY <1>1, <1>2, <2>1 DEF Rising, Ascending, Ahead
<1>6. DoneAscending' /\ DoneKnown'
  BY DEF Rising, DoneAscending, DoneKnown
<1>7. DoneAhead(toBroker)' /\ DoneAhead(requests)'
  BY <1>1, <1>2 DEF Rising, DoneAhead
<1>8. Known(toBroker)' /\ Known(requests)'
  BY <1>1, <1>2 DEF Rising, Known
<1>9. QED
  BY <1>3, <1>4, <1>5, <1>6, <1>7, <1>8 DEF Rising, Ascending, Ahead

(* The broker serves the oldest request on the wire.                       *)
LEMMA RisingServed ==
  ASSUME Typed, Rising, UNCHANGED <<requests, stamp>>, toBroker # <<>>, toBroker' = Tail(toBroker),
         \/ executed' = executed
         \/ IsSet(Head(toBroker)) /\ executed' = Append(executed, Head(toBroker).value)
  PROVE  Rising'
<1>0. /\ \A i \in DOMAIN requests : IsSet(requests[i]) => Num(requests[i]) \in Nat
      /\ \A i \in DOMAIN toBroker : IsSet(toBroker[i]) => Num(toBroker[i]) \in Nat
      /\ \A i \in DOMAIN executed : executed[i].number \in Nat
      /\ stamp \in Nat /\ executed \in Seq(Values) /\ toBroker \in Seq(Requests)
      /\ \A r \in Requests : IsSet(r) => r.value \in Values
  BY Numbers
<1>1. /\ Head(toBroker) = toBroker[1] /\ 1 \in DOMAIN toBroker /\ Head(toBroker) \in Requests
      /\ \A i \in DOMAIN toBroker' : /\ i \in Nat /\ i > 0 /\ i + 1 \in DOMAIN toBroker
                                    /\ toBroker'[i] = toBroker[i + 1]
  BY <1>0, ShiftQueue
<1>2. /\ \A i \in DOMAIN executed' :
           \/ i \in DOMAIN executed /\ executed'[i] = executed[i]
           \/ IsSet(toBroker[1]) /\ executed'[i].number = Num(toBroker[1])
      /\ \A i, j \in DOMAIN executed' :
           i < j => i \in DOMAIN executed /\ executed'[i] = executed[i]
  <2>1. DOMAIN executed = 1 .. Len(executed) /\ Len(executed) \in Nat
    BY <1>0, LenProperties
  <2>2. CASE executed' = executed
    BY <2>2
  <2>3. CASE IsSet(Head(toBroker)) /\ executed' = Append(executed, Head(toBroker).value)
    <3>1. /\ DOMAIN executed' = 1 .. Len(executed) + 1
          /\ \A i \in 1 .. Len(executed) : executed'[i] = executed[i]
          /\ executed'[Len(executed) + 1] = toBroker[1].value
      BY <1>0, <1>1, <2>3, GrowQueue
    <3>2. executed'[Len(executed) + 1].number = Num(toBroker[1]) /\ IsSet(toBroker[1])
      BY <1>1, <2>3, <3>1 DEF Num
    <3>3. \A i \in DOMAIN executed' : i \in DOMAIN executed \/ i = Len(executed) + 1
      BY <2>1, <3>1
    <3>4. \A i, j \in DOMAIN executed' : i < j => i \in DOMAIN executed
      BY <2>1, <3>1
    <3>5. QED
      BY <2>1, <3>1, <3>2, <3>3, <3>4
  <2>4. QED
    BY <2>2, <2>3
<1>3. Ascending(toBroker')
  <2>1. \A i, j \in DOMAIN toBroker' : i < j => i + 1 < j + 1
    BY <1>1
  <2>2. QED
    BY <1>1, <2>1 DEF Rising, Ascending
<1>4. Ahead(toBroker', requests')
  BY <1>1 DEF Rising, Ahead
<1>5. DoneAscending'
  BY <1>1, <1>2 DEF Rising, DoneAscending, DoneAhead
<1>6. DoneAhead(toBroker)'
  <2>1. \A i \in DOMAIN toBroker' : 1 < i + 1
    BY <1>1
  <2>2. QED
    BY <1>1, <1>2, <2>1 DEF Rising, DoneAhead, Ascending
<1>7. DoneAhead(requests)'
  BY <1>1, <1>2 DEF Rising, DoneAhead, Ahead
<1>8. DoneKnown'
  BY <1>1, <1>2 DEF Rising, DoneKnown, Known
<1>9. Known(toBroker)' /\ Known(requests)' /\ Ascending(requests')
  BY <1>1 DEF Rising, Known, Ascending
<1>10. QED
  BY <1>3, <1>4, <1>5, <1>6, <1>7, <1>8, <1>9 DEF Rising, Ascending, Ahead

LEMMA UntroubledStep == ASSUME Typed, Untroubled, [Next]_vars PROVE Untroubled'
<1> SUFFICES ASSUME breaks' = 0 PROVE pending' = <<>> /\ forgotten' = {} /\ Rising'
  BY DEF Untroubled
<1>0. breaks \in Nat /\ stamp \in Nat
  BY DEF Typed, HistoryTypes
<1>1. ASSUME breaks = 0 PROVE pending = <<>> /\ forgotten = {} /\ Rising
  BY <1>1 DEF Untroubled
<1>2. ASSUME breaks = 0, UNCHANGED <<pending, forgotten, requests, toBroker, executed, stamp>>
      PROVE  pending' = <<>> /\ forgotten' = {} /\ Rising'
  BY <1>1, <1>2 DEF Rising, Ascending, Ahead, DoneAscending, DoneAhead, DoneKnown, Known
<1>3. CASE ConnectFailed \/ Broken
  BY <1>0, <1>3 DEF ConnectFailed, Broken
<1>4. CASE Recover \/ Tick \/ Receive \/ Connected \/ UNCHANGED vars
  <2>1. CASE Recover
    BY <1>2, <2>1 DEF Recover, brokerVars, deviceVars
  <2>2. CASE Tick
    BY <1>2, <2>2 DEF Tick, brokerVars, deviceVars
  <2>3. CASE Receive
    BY <1>2, <2>3 DEF Receive, deviceVars
  <2>4. CASE Connected
    <3>1. breaks' = breaks /\ UNCHANGED <<requests, toBroker, executed, stamp>>
      BY <2>4 DEF Connected, brokerVars, deviceVars
    <3>2. pending = <<>>
      BY <1>1, <3>1
    <3>3. UNCHANGED <<pending, forgotten>>
      BY <2>4, <3>2 DEF Connected
    <3>4. QED
      BY <1>2, <3>1, <3>3
  <2>5. CASE UNCHANGED vars
    BY <1>2, <2>5 DEF vars, clientVars, brokerVars, deviceVars
  <2>6. QED
    BY <1>4, <2>1, <2>2, <2>3, <2>4, <2>5
<1>5. ASSUME NEW n \in Names, NEW f \in Fields(n), Change(n, f)
      PROVE  pending' = <<>> /\ forgotten' = {} /\ Rising'
  <2>1. breaks' = breaks /\ UNCHANGED <<pending, forgotten, requests, toBroker, executed>> /\ stamp' = stamp + 1
    BY <1>5 DEF Change, clientVars
  <2>2. Rising /\ pending = <<>> /\ forgotten = {}
    BY <1>1, <2>1
  <2>3. \A k \in Nat : k <= stamp => k <= stamp'
    BY <1>0, <2>1
  <2>4. (Known(requests) /\ Known(toBroker) /\ DoneKnown)'
    BY <2>1, <2>2, <2>3, Numbers DEF Rising, Known, DoneKnown
  <2>5. QED
    BY <2>1, <2>2, <2>4 DEF Rising, Ascending, Ahead, DoneAscending, DoneAhead
<1>6. CASE Serve
  <2>1. /\ UNCHANGED <<breaks, pending, forgotten, requests, stamp>>
        /\ toBroker # <<>> /\ toBroker' = Tail(toBroker)
    BY <1>6 DEF Serve, clientVars
  <2>2. executed' = executed \/ (IsSet(Head(toBroker)) /\ executed' = Append(executed, Head(toBroker).value))
    BY <1>6, ServeParts DEF IsSet
  <2>3. QED
    BY <1>1, <2>1, <2>2, RisingServed
<1>7. CASE Send
  <2>1. breaks' = breaks /\ UNCHANGED <<forgotten, executed, stamp>>
    BY <1>7 DEF Send, deviceVars
  <2>2. pending = <<>>
    BY <1>1, <2>1
  <2>3. /\ pending' = pending /\ requests # <<>> /\ requests' = Tail(requests)
        /\ toBroker' = Append(toBroker, Head(requests))
    BY <1>7, <2>2 DEF Send
  <2>4. QED
    BY <1>1, <2>1, <2>3, RisingSent
<1>8. ASSUME NEW n \in Names, Subscribe(n) PROVE pending' = <<>> /\ forgotten' = {} /\ Rising'
  <2>1. PICK r : r = [kind |-> "subscribe", name |-> n]
    OBVIOUS
  <2>2. /\ UNCHANGED <<breaks, pending, forgotten, toBroker, executed, stamp>>
        /\ requests' = Append(requests, r)
    BY <1>8, <2>1 DEF Subscribe, brokerVars, deviceVars
  <2>3. r \in Requests /\ ~IsSet(r)
    BY <2>1 DEF Requests, Subscriptions, IsSet
  <2>4. stamp' \in Nat /\ stamp <= stamp'
    BY <1>0, <2>2
  <2>5. QED
    BY <1>1, <2>2, <2>3, <2>4, RisingQueued
<1>9. ASSUME NEW r \in PrimeRequests, Prime(r) PROVE pending' = <<>> /\ forgotten' = {} /\ Rising'
  <2>1. /\ UNCHANGED <<breaks, pending, forgotten, toBroker, executed, stamp>>
        /\ requests' = requests \/ requests' = Append(requests, r)
    BY <1>9 DEF Prime, brokerVars, deviceVars
  <2>2. r \in Requests /\ ~IsSet(r)
    BY DEF Requests, PrimeRequests, Get, IsSet
  <2>3. stamp' \in Nat /\ stamp <= stamp'
    BY <1>0, <2>1
  <2>4. CASE requests' = requests
    BY <1>2, <2>1, <2>4
  <2>5. CASE requests' = Append(requests, r)
    BY <1>1, <2>1, <2>2, <2>3, <2>5, RisingQueued
  <2>6. QED
    BY <2>1, <2>4, <2>5
<1>10. ASSUME NEW d \in Devices, NEW cap \in Capabilities[d], Dispatch(d, cap)
       PROVE  pending' = <<>> /\ forgotten' = {} /\ Rising'
  <2>1. PICK v : v = Value(Name[d], Field(cap, Channel[d]), stamp + 1)
    OBVIOUS
  <2>2. PICK r : r = [kind |-> "set", name |-> Name[d], value |-> v]
    OBVIOUS
  <2>3. /\ UNCHANGED <<breaks, pending, forgotten, toBroker, executed>> /\ stamp' = stamp + 1
        /\ requests' = Append(requests, r)
    BY <1>10, <2>1, <2>2 DEF Dispatch, brokerVars, deviceVars
  <2>4. stamp' \in Nat /\ stamp < stamp' /\ stamp <= stamp'
    BY <1>0, <2>3
  <2>5. r \in Requests
    BY <2>1, <2>2, <2>3, <2>4, CommandAddressed
  <2>6. Num(r) = stamp'
    BY <2>1, <2>2, <2>3 DEF Num, Value
  <2>7. QED
    BY <1>1, <2>3, <2>4, <2>5, <2>6, RisingQueued
<1>11. QED
  BY <1>3, <1>4, <1>5, <1>6, <1>7, <1>8, <1>9, <1>10 DEF Next, Engine, Library

-----------------------------------------------------------------------------
(* The theorems *)

(* The inductive invariant: everything is addressed to and about its own   *)
(* node, what the library waits for is matched with what is on the wire,   *)
(* and each accepted command is somewhere.                                 *)
IInv == Typed /\ Window /\ Accounted /\ Untroubled

LEMMA Inductive == Spec => []IInv
<1>1. Init => IInv
  <2>1. SUFFICES ASSUME Init PROVE IInv
    OBVIOUS
  <2>2. Typed
    BY <2>1, TypedInit
  <2>3. Window
    BY <2>1, WindowInit
  <2>4. Accounted
    BY <2>1 DEF Init, Accounted
  <2>5. Untroubled
    BY <2>1 DEF Init, Untroubled, Rising, Ascending, Ahead, DoneAscending, DoneAhead, DoneKnown, Known
  <2>6. QED
    BY <2>2, <2>3, <2>4, <2>5 DEF IInv
<1>2. IInv /\ [Next]_vars => IInv'
  BY TypedStep, WindowStep, AccountedStep, UntroubledStep DEF IInv
<1>3. QED
  BY <1>1, <1>2, PTL DEF Spec

(* Types are respected by every step of adapter, library and broker: what  *)
(* is sent to a node belongs to it, and what it reports is its own.        *)
THEOREM TypesCorrect == Spec => []TypeOK
<1>1. IInv => TypeOK
  BY TypedIsTypeOK DEF IInv
<1>2. QED
  BY <1>1, Inductive, PTL

(* The engine never believes of one load what was said of another, however *)
(* many loads share a node's name (message_to_events).                     *)
THEOREM LoadsCorrect == Spec => []BelievesOwnLoad
<1>1. IInv => BelievesOwnLoad
  BY TypedIsTypeOK DEF IInv
<1>2. QED
  BY <1>1, Inductive, PTL

(* A sequence without repetitions has as many members as places.           *)
LEMMA NoRepetition ==
  ASSUME NEW S, NEW s \in Seq(S), \A i, j \in DOMAIN s : i < j => s[i] # s[j]
  PROVE  Len(s) = Cardinality({s[i] : i \in DOMAIN s})
<1> DEFINE T == {s[i] : i \in DOMAIN s}
<1>1. DOMAIN s = 1 .. Len(s) /\ Len(s) \in Nat /\ s = [i \in 1 .. Len(s) |-> s[i]]
  BY LenProperties
<1>2. s \in Surjection(1 .. Len(s), T)
  <2>1. s \in [1 .. Len(s) -> T]
    BY <1>1
  <2>2. QED
    BY <1>1, <2>1 DEF Surjection
<1>3. s \in Injection(1 .. Len(s), T)
  <2>1. \A i, j \in 1 .. Len(s) : s[i] = s[j] => i = j
    <3>1. \A i, j \in 1 .. Len(s) : i < j \/ j < i \/ i = j
      BY <1>1
    <3>2. QED
      BY <1>1, <3>1
  <2>2. s \in [1 .. Len(s) -> T]
    BY <1>2 DEF Surjection
  <2>3. QED
    BY <1>1, <2>1, <2>2 DEF Injection, IsInjective
<1> HIDE DEF T
<1>4. IsFiniteSet(1 .. Len(s)) /\ Cardinality(1 .. Len(s)) = Len(s)
  <2>1. ASSUME NEW n \in Nat PROVE IsFiniteSet(1 .. n) /\ Cardinality(1 .. n) = n
    <3>1. 1 \in Int /\ n \in Int /\ (1 > n => n = 0) /\ n - 1 + 1 = n
      OBVIOUS
    <3>2. IsFiniteSet(1 .. n) /\ Cardinality(1 .. n) = IF 1 > n THEN 0 ELSE n - 1 + 1
      BY <3>1, FS_Interval
    <3>3. QED
      BY <3>1, <3>2, Zenon
  <2>2. QED
    BY <1>1, <2>1
<1>5. Cardinality(T) = Cardinality(1 .. Len(s))
  BY <1>2, <1>3, <1>4, FS_Surjection
<1>6. QED
  BY <1>4, <1>5 DEF T

(* A command answered with Ok is queued, unacknowledged, executed, or was  *)
(* forgotten with a session; and until a connection breaks none is         *)
(* forgotten or executed twice.                                            *)
THEOREM CommandsCorrect == Spec => []CommandsKept
<1>1. IInv => CommandsKept
  <2>1. SUFFICES ASSUME IInv PROVE CommandsKept
    OBVIOUS
  <2>2. \A a \in accepted :
          a.value \in Executed \cup forgotten
            \cup SetValues(requests) \cup SetValues(pending) \cup SetValues(unacked)
    BY <2>1 DEF IInv, Accounted, Somewhere
  <2>3. ASSUME breaks = 0 PROVE forgotten = {} /\ Len(executed) = Cardinality(Executed)
    <3>1. forgotten = {} /\ DoneAscending
      BY <2>1, <2>3 DEF IInv, Untroubled, Rising
    <3>2. executed \in Seq(Values) /\ \A i \in DOMAIN executed : executed[i].number \in Nat
      BY <2>1, Numbers DEF IInv
    <3>3. \A i, j \in DOMAIN executed : i < j => executed[i] # executed[j]
      BY <3>1, <3>2 DEF DoneAscending
    <3>4. Len(executed) = Cardinality({executed[i] : i \in DOMAIN executed})
      BY <3>2, <3>3, NoRepetition
    <3>5. QED
      BY <3>1, <3>4 DEF Executed
  <2>4. QED
    BY <2>2, <2>3 DEF CommandsKept
<1>2. QED
  BY <1>1, Inductive, PTL

-----------------------------------------------------------------------------
(* The link implements Delivery *)

(* The wire carries, in order, the last of the requests that the library    *)
(* waits for; the first of them have been executed.                        *)
LEMMA MatchedExact ==
  ASSUME NEW D, NEW down \in Seq(D), NEW U, NEW up \in Seq(U), NEW waiting \in Seq(U), NEW done,
         Matched(down, up, waiting, done)
  PROVE  \E b : /\ \A j \in DOMAIN up : Places(up[j]) = 1 => b[j] \in DOMAIN waiting /\ waiting[b[j]] = up[j]
                /\ \A i, j \in DOMAIN up : i < j /\ Places(up[i]) = 1 /\ Places(up[j]) = 1 => b[i] < b[j]
                /\ \A k \in DOMAIN waiting :
                     \/ IsSet(waiting[k]) => waiting[k].value \in done
                     \/ \E j \in DOMAIN up : up[j] = waiting[k]
<1>1. PICK c, b : MatchedBy(c, b, down, up, waiting, done)
  BY DEF Matched
<1>2. PICK m \in Nat, w \in Nat : m = Len(up) /\ w = Len(waiting)
  BY LenProperties
<1>d. PICK d : d = c[Len(down)]
  OBVIOUS
<1>3. DOMAIN up = 1 .. m /\ DOMAIN waiting = 1 .. w
  BY <1>2, LenProperties
<1>4. /\ d \in Nat
      /\ \A j \in 0 .. m : b[j] \in Nat /\ d <= b[j] /\ b[j] <= w
      /\ \A j \in 1 .. m : Places(up[j]) = 1 => d + 1 <= b[j]
  BY <1>1, <1>2, <1>d, MatchedBounds
<1>5. /\ b[0] = d /\ b[m] = w
      /\ \A j \in 1 .. m : b[j] = b[j - 1] + Places(up[j])
      /\ \A i, j \in 0 .. m : i <= j => b[i] <= b[j]
      /\ \A j \in 1 .. m : Places(up[j]) = 1 => waiting[b[j]] = up[j]
      /\ \A k \in 1 .. d : IsSet(waiting[k]) => waiting[k].value \in done
  BY <1>1, <1>2, <1>d DEF MatchedBy, Counts
<1>6. ASSUME NEW j \in 1 .. m, Places(up[j]) = 1 PROVE b[j] \in 1 .. w /\ waiting[b[j]] = up[j]
  <2>1. b[j] \in Nat /\ d + 1 <= b[j] /\ b[j] <= w
    BY <1>4, <1>6
  <2>2. QED
    BY <1>4, <1>5, <1>6, <2>1
<1>7. ASSUME NEW i \in 1 .. m, NEW j \in 1 .. m, i < j, Places(up[j]) = 1 PROVE b[i] < b[j]
  <2>1. i \in 0 .. m /\ j - 1 \in 0 .. m /\ i <= j - 1
    BY <1>7
  <2>2. b[j] = b[j - 1] + 1 /\ b[i] <= b[j - 1]
    BY <1>5, <1>7, <2>1
  <2>3. b[i] \in Nat /\ b[j - 1] \in Nat
    BY <1>4, <2>1
  <2>4. QED
    BY <2>2, <2>3
<1>8. ASSUME NEW k \in 1 .. w, d < k PROVE \E j \in 1 .. m : up[j] = waiting[k]
  <2> DEFINE R == {j \in 1 .. m + 1 : \A i \in 0 .. m : j = i + 1 => b[i] < k}
  <2>1. m + 1 \in Nat /\ R \subseteq 1 .. m + 1 /\ R # {}
    <3>1. 1 \in 1 .. m + 1 /\ \A i \in 0 .. m : 1 = i + 1 => i = 0
      OBVIOUS
    <3>2. \A i \in 0 .. m : 1 = i + 1 => b[i] < k
      BY <1>5, <1>8, <3>1
    <3>3. 1 \in R
      BY <3>1, <3>2
    <3>4. R \subseteq 1 .. m + 1 /\ m + 1 \in Nat
      OBVIOUS
    <3>5. QED
      BY <3>3, <3>4
  <2>2. PICK i \in R : \A j \in R : j <= i
    BY <2>1, LastExists
  <2>3. i \in 1 .. m
    <3>1. m \in 0 .. m /\ ~(w < k)
      BY <1>8
    <3>2. i # m + 1
      BY <1>5, <2>2, <3>1
    <3>3. QED
      BY <2>2, <3>2
  <2>4. ~(b[i] < k)
    <3>1. i + 1 \in 1 .. m + 1 /\ ~(i + 1 <= i) /\ \A l \in 0 .. m : i + 1 = l + 1 => l = i
      BY <2>3
    <3>2. QED
      BY <2>2, <3>1
  <2>5. b[i] = b[i - 1] + Places(up[i]) /\ b[i - 1] < k /\ b[i - 1] \in Nat
    <3>1. i - 1 \in 0 .. m /\ i = (i - 1) + 1
      BY <2>3
    <3>2. QED
      BY <1>4, <1>5, <2>2, <2>3, <3>1
  <2>6. Places(up[i]) = 1 /\ b[i] = k
    BY <1>8, <2>4, <2>5, PlacesNat
  <2>7. QED
    BY <1>5, <2>3, <2>6
<1>9. \A k \in 1 .. w : \/ IsSet(waiting[k]) => waiting[k].value \in done
                        \/ \E j \in 1 .. m : up[j] = waiting[k]
  <2>1. \A k \in 1 .. w : k \in 1 .. d \/ d < k
    BY <1>4
  <2>2. QED
    BY <1>5, <1>8, <2>1
<1>10. QED
  BY <1>3, <1>6, <1>7, <1>9

(* x goes before y: they are different commands, and if x is one of recent *)
(* it is the older one.                                                    *)
Fits(x, y, recent) ==
  IsSet(x) /\ IsSet(y) => Num(x) # Num(y) /\ (Num(x) \in recent => Num(x) < Num(y))

InTurn(s, recent) == \A i, j \in DOMAIN s : i < j => Fits(s[i], s[j], recent)
Behind(s, t, recent) == \A i \in DOMAIN s, j \in DOMAIN t : Fits(s[i], t[j], recent)
Upto(s, m) == \A i \in DOMAIN s : IsSet(s[i]) => Num(s[i]) \in 0 .. m

LEMMA AppendTurns ==
  ASSUME NEW S, NEW s \in Seq(S), NEW x \in S, NEW R, NEW t, NEW m
  PROVE  /\ InTurn(s, R) /\ (\A i \in DOMAIN s : Fits(s[i], x, R)) => InTurn(Append(s, x), R)
         /\ Behind(s, t, R) /\ (\A j \in DOMAIN t : Fits(x, t[j], R)) => Behind(Append(s, x), t, R)
         /\ Behind(t, s, R) /\ (\A i \in DOMAIN t : Fits(t[i], x, R)) => Behind(t, Append(s, x), R)
         /\ Upto(s, m) /\ (IsSet(x) => Num(x) \in 0 .. m) => Upto(Append(s, x), m)
<1>1. /\ \A i \in DOMAIN Append(s, x) :
           (i \in DOMAIN s /\ Append(s, x)[i] = s[i]) \/ (i = Len(s) + 1 /\ Append(s, x)[i] = x)
      /\ \A i, j \in DOMAIN Append(s, x) : i < j => i \in DOMAIN s /\ Append(s, x)[i] = s[i]
  <2>1. /\ Len(s) \in Nat /\ DOMAIN s = 1 .. Len(s) /\ DOMAIN Append(s, x) = 1 .. Len(s) + 1
        /\ \A i \in 1 .. Len(s) : Append(s, x)[i] = s[i]
        /\ Append(s, x)[Len(s) + 1] = x
    BY GrowQueue
  <2>2. QED
    BY <2>1
<1>2. QED
  BY <1>1 DEF InTurn, Behind, Upto

LEMMA TailTurns ==
  ASSUME NEW S, NEW s \in Seq(S), s # <<>>, NEW R, NEW t, NEW m
  PROVE  /\ InTurn(s, R) => InTurn(Tail(s), R) /\ \A j \in DOMAIN Tail(s) : Fits(Head(s), Tail(s)[j], R)
         /\ Behind(s, t, R) => Behind(Tail(s), t, R) /\ \A j \in DOMAIN t : Fits(Head(s), t[j], R)
         /\ Behind(t, s, R) => Behind(t, Tail(s), R) /\ \A i \in DOMAIN t : Fits(t[i], Head(s), R)
         /\ Upto(s, m) => Upto(Tail(s), m) /\ (IsSet(Head(s)) => Num(Head(s)) \in 0 .. m)
<1>1. /\ 1 \in DOMAIN s /\ Head(s) = s[1]
      /\ \A i \in DOMAIN Tail(s) : i + 1 \in DOMAIN s /\ 1 < i + 1 /\ Tail(s)[i] = s[i + 1]
      /\ \A i, j \in DOMAIN Tail(s) : i < j => i + 1 < j + 1
  <2>1. /\ Len(s) \in Nat \ {0} /\ DOMAIN s = 1 .. Len(s) /\ DOMAIN Tail(s) = 1 .. Len(s) - 1
        /\ Head(s) = s[1] /\ \A i \in 1 .. Len(s) - 1 : Tail(s)[i] = s[i + 1]
    BY ShiftQueue
  <2>2. QED
    BY <2>1
<1>2. QED
  BY <1>1 DEF InTurn, Behind, Upto

(* The places of a concatenation.                                          *)
LEMMA JoinPlaces ==
  ASSUME NEW S, NEW s \in Seq(S), NEW t \in Seq(S), NEW n, n = Len(s)
  PROVE  /\ s \o t \in Seq(S) /\ n \in Nat
         /\ \A i \in DOMAIN s : i \in Nat /\ i <= n /\ i \in DOMAIN (s \o t) /\ (s \o t)[i] = s[i]
         /\ \A j \in DOMAIN t : n + j \in DOMAIN (s \o t) /\ (s \o t)[n + j] = t[j]
         /\ \A i \in DOMAIN (s \o t) :
              \/ i \in DOMAIN s /\ i <= n /\ (s \o t)[i] = s[i]
              \/ i - n \in DOMAIN t /\ ~(i <= n) /\ i \in Nat /\ (s \o t)[i] = t[i - n]
<1>1. PICK m \in Nat : n \in Nat /\ m = Len(t)
  BY LenProperties
<1>2. /\ s \o t \in Seq(S) /\ Len(s \o t) = n + m
      /\ \A i \in 1 .. n + m : (s \o t)[i] = IF i <= n THEN s[i] ELSE t[i - n]
  BY <1>1, ConcatProperties
<1>3. DOMAIN s = 1 .. n /\ DOMAIN t = 1 .. m /\ DOMAIN (s \o t) = 1 .. n + m
  BY <1>1, <1>2, LenProperties
<1>4. \A i \in 1 .. n : i \in Nat /\ i <= n /\ i \in 1 .. n + m
  BY <1>1
<1>5. \A j \in 1 .. m : n + j \in 1 .. n + m /\ ~(n + j <= n) /\ (n + j) - n = j
  BY <1>1
<1>6. \A i \in 1 .. n + m : i \in Nat /\ (i <= n => i \in 1 .. n) /\ (~(i <= n) => i - n \in 1 .. m)
  BY <1>1
<1>7. QED
  BY <1>1, <1>2, <1>3, <1>4, <1>5, <1>6

LEMMA JoinTurns ==
  ASSUME NEW S, NEW s \in Seq(S), NEW t \in Seq(S), NEW R, NEW u, NEW m
  PROVE  /\ InTurn(s, R) /\ InTurn(t, R) /\ Behind(s, t, R) => InTurn(s \o t, R)
         /\ Behind(s, u, R) /\ Behind(t, u, R) => Behind(s \o t, u, R)
         /\ Behind(u, s, R) /\ Behind(u, t, R) => Behind(u, s \o t, R)
         /\ Upto(s, m) /\ Upto(t, m) => Upto(s \o t, m)
<1>0. PICK n : n = Len(s)
  OBVIOUS
<1>1. /\ s \o t \in Seq(S) /\ n \in Nat
      /\ \A i \in DOMAIN (s \o t) :
           \/ i \in DOMAIN s /\ i <= n /\ (s \o t)[i] = s[i]
           \/ i - n \in DOMAIN t /\ ~(i <= n) /\ i \in Nat /\ (s \o t)[i] = t[i - n]
  BY <1>0, JoinPlaces
<1>2. ASSUME InTurn(s, R), InTurn(t, R), Behind(s, t, R) PROVE InTurn(s \o t, R)
  <2>1. ASSUME NEW i \in DOMAIN (s \o t), NEW j \in DOMAIN (s \o t), i < j
        PROVE  Fits((s \o t)[i], (s \o t)[j], R)
    <3>1. i \in Nat /\ j \in Nat
      BY <1>1, LenProperties
    <3>2. CASE j <= n
      <4>1. i <= n
        BY <1>1, <2>1, <3>1, <3>2
      <4>2. QED
        BY <1>1, <1>2, <2>1, <3>2, <4>1 DEF InTurn
    <3>3. CASE ~(j <= n) /\ i <= n
      BY <1>1, <1>2, <3>3 DEF Behind
    <3>4. CASE ~(i <= n)
      <4>1. ~(j <= n) /\ i - n < j - n
        BY <1>1, <2>1, <3>1, <3>4
      <4>2. QED
        BY <1>1, <1>2, <3>4, <4>1 DEF InTurn
    <3>5. QED
      BY <3>2, <3>3, <3>4
  <2>2. QED
    BY <2>1 DEF InTurn
<1>3. QED
  BY <1>1, <1>2 DEF Behind, Upto

(* What is known of older commands stays true when a number is new, or     *)
(* when none is recent any more.                                           *)
LEMMA RecentTurns ==
  ASSUME NEW s, NEW t, NEW m \in Nat, NEW n \in Nat, m <= n, Upto(s, m), NEW R, NEW Q, Q \cap (0 .. m) \subseteq R
  PROVE  /\ InTurn(s, R) => InTurn(s, Q)
         /\ Behind(s, t, R) => Behind(s, t, Q)
         /\ Upto(s, n)
<1>1. \A i \in DOMAIN s : IsSet(s[i]) /\ Num(s[i]) \in Q => Num(s[i]) \in R
  BY DEF Upto
<1>2. \A k \in 0 .. m : k \in 0 .. n
  OBVIOUS
<1>3. Upto(s, n)
  BY <1>2 DEF Upto
<1>4. QED
  BY <1>1, <1>3 DEF InTurn, Behind, Fits

(* When none is recent it does not matter which goes first.                *)
LEMMA StaleTurns ==
  ASSUME NEW s, NEW t, NEW R
  PROVE  /\ InTurn(s, R) => InTurn(s, {})
         /\ Behind(s, t, R) => Behind(s, t, {}) /\ Behind(t, s, {})
BY DEF InTurn, Behind, Fits

(* A request that goes to the wire leaves its queue for the unacknowledged *)
(* ones, or is a subscription that nobody waits for.                       *)
LEMMA SentTurns ==
  ASSUME NEW S, NEW u \in Seq(S), NEW p \in Seq(S), NEW q \in Seq(S), p # <<>>, NEW R, NEW m,
         InTurn(u, R), InTurn(p, R), Behind(u, p, R), Behind(u, q, R), Behind(p, q, R), Upto(u, m), Upto(p, m),
         NEW v, v = u \/ v = Append(u, Head(p))
  PROVE  /\ InTurn(v, R) /\ InTurn(Tail(p), R)
         /\ Behind(v, Tail(p), R) /\ Behind(v, q, R) /\ Behind(Tail(p), q, R)
         /\ Upto(v, m) /\ Upto(Tail(p), m)
<1>1. /\ InTurn(Tail(p), R) /\ \A j \in DOMAIN Tail(p) : Fits(Head(p), Tail(p)[j], R)
      /\ Behind(Tail(p), q, R) /\ \A j \in DOMAIN q : Fits(Head(p), q[j], R)
      /\ Behind(u, Tail(p), R) /\ \A i \in DOMAIN u : Fits(u[i], Head(p), R)
      /\ Upto(Tail(p), m) /\ (IsSet(Head(p)) => Num(Head(p)) \in 0 .. m)
  BY TailTurns
<1>2. Head(p) \in S
  BY ShiftQueue
<1>3. CASE v = u
  BY <1>1, <1>3
<1>4. CASE v = Append(u, Head(p))
  BY <1>1, <1>2, <1>4, AppendTurns
<1>5. QED
  BY <1>3, <1>4

(* Unacknowledged requests, those left over and those in the channel are,  *)
(* in this order, in turn.                                                 *)
Turns ==
  /\ InTurn(unacked, Recent) /\ InTurn(pending, Recent) /\ InTurn(requests, Recent)
  /\ Behind(unacked, pending, Recent) /\ Behind(unacked, requests, Recent) /\ Behind(pending, requests, Recent)
  /\ Upto(unacked, stamp) /\ Upto(pending, stamp) /\ Upto(requests, stamp)
  /\ \A a \in accepted : a.value.number \in 0 .. stamp

LEMMA NoTurns == \A R, s, m : InTurn(<<>>, R) /\ Behind(<<>>, s, R) /\ Behind(s, <<>>, R) /\ Upto(<<>>, m)
BY DEF InTurn, Behind, Upto

LEMMA NoneRecent == ASSUME Typed, breaks' = breaks + 1, accepted' = accepted PROVE Recent' = {}
<1>1. breaks \in Nat /\ \A a \in accepted : a.breaks \in 0 .. breaks
  BY DEF Typed, HistoryTypes
<1>2. \A a \in accepted : a.breaks # breaks + 1
  BY <1>1
<1>3. QED
  BY <1>2 DEF Recent

LEMMA TurnsInit == Init => Turns
BY NoTurns DEF Init, Turns

(* More numbers are used, or fewer commands are recent.                    *)
LEMMA TurnsSame ==
  ASSUME Typed, Turns, UNCHANGED <<requests, pending, unacked, accepted>>,
         stamp' \in Nat, stamp <= stamp', Recent' \subseteq Recent
  PROVE  Turns'
<1>1. stamp \in Nat /\ Recent' \cap (0 .. stamp) \subseteq Recent /\ \A k \in 0 .. stamp : k \in 0 .. stamp'
  BY DEF Typed, HistoryTypes
<1>2. /\ InTurn(unacked, Recent') /\ InTurn(pending, Recent') /\ InTurn(requests, Recent')
      /\ Behind(unacked, pending, Recent') /\ Behind(unacked, requests, Recent') /\ Behind(pending, requests, Recent')
      /\ Upto(unacked, stamp') /\ Upto(pending, stamp') /\ Upto(requests, stamp')
  BY <1>1, RecentTurns DEF Turns
<1>3. QED
  BY <1>1, <1>2 DEF Turns

(* A new request goes behind all others, a command with a new number.      *)
LEMMA TurnsQueued ==
  ASSUME Typed, Turns, UNCHANGED <<pending, unacked>>, NEW r \in Requests, requests' = Append(requests, r),
         stamp' \in Nat, stamp <= stamp', IsSet(r) => Num(r) = stamp' /\ stamp < stamp',
         Recent' \cap (0 .. stamp) \subseteq Recent, \A a \in accepted' : a.value.number \in 0 .. stamp'
  PROVE  Turns'
<1>1. stamp \in Nat /\ requests \in Seq(Requests)
  BY DEF Typed, HistoryTypes, RequestTypes
<1>2. /\ InTurn(unacked, Recent') /\ InTurn(pending, Recent') /\ InTurn(requests, Recent')
      /\ Behind(unacked, pending, Recent') /\ Behind(unacked, requests, Recent') /\ Behind(pending, requests, Recent')
      /\ Upto(unacked, stamp') /\ Upto(pending, stamp') /\ Upto(requests, stamp')
  BY <1>1, RecentTurns DEF Turns
<1>3. ASSUME NEW s, Upto(s, stamp) PROVE \A i \in DOMAIN s : Fits(s[i], r, Recent')
  <2>1. \A k \in 0 .. stamp : (k < stamp' /\ k # stamp') \/ ~(stamp < stamp')
    BY <1>1
  <2>2. QED
    BY <1>3, <2>1 DEF Upto, Fits
<1>4. /\ \A i \in DOMAIN unacked : Fits(unacked[i], r, Recent')
      /\ \A i \in DOMAIN pending : Fits(pending[i], r, Recent')
      /\ \A i \in DOMAIN requests : Fits(requests[i], r, Recent')
  BY <1>3 DEF Turns
<1>5. IsSet(r) => Num(r) \in 0 .. stamp'
  BY <1>1
<1>6. /\ InTurn(requests', Recent') /\ Behind(unacked, requests', Recent') /\ Behind(pending, requests', Recent')
      /\ Upto(requests', stamp')
  BY <1>1, <1>2, <1>4, <1>5, AppendTurns
<1>7. QED
  BY <1>2, <1>6 DEF Turns

(* After a break nothing is recent, so the library may put first what it    *)
(* likes.                                                                  *)
LEMMA TurnsBroken == ASSUME Typed, Turns, Broken PROVE Turns'
<1>1. /\ requests \in Seq(Requests) /\ pending \in Seq(Requests) /\ unacked \in Seq(Requests) /\ stamp \in Nat
      /\ pending' \in {unacked \o pending \o requests, pending \o unacked \o requests}
      /\ requests' = <<>> /\ unacked' = <<>> /\ UNCHANGED <<accepted, stamp>> /\ breaks' = breaks + 1
  BY DEF Broken, Typed, RequestTypes, HistoryTypes, engineVars
<1>2. Recent' = {}
  BY <1>1, NoneRecent
<1>3. /\ InTurn(unacked, {}) /\ InTurn(pending, {}) /\ InTurn(requests, {})
      /\ Behind(unacked, pending, {}) /\ Behind(unacked, requests, {}) /\ Behind(pending, requests, {})
      /\ Behind(pending, unacked, {})
  BY StaleTurns DEF Turns
<1>5. /\ unacked \o pending \in Seq(Requests) /\ pending \o unacked \in Seq(Requests)
      /\ InTurn(unacked \o pending, {}) /\ InTurn(pending \o unacked, {})
      /\ Behind(unacked \o pending, requests, {}) /\ Behind(pending \o unacked, requests, {})
      /\ Upto(unacked \o pending, stamp) /\ Upto(pending \o unacked, stamp)
  BY <1>1, <1>3, JoinTurns, ConcatProperties DEF Turns
<1>6. /\ InTurn((unacked \o pending) \o requests, {}) /\ Upto((unacked \o pending) \o requests, stamp)
      /\ InTurn((pending \o unacked) \o requests, {}) /\ Upto((pending \o unacked) \o requests, stamp)
  BY <1>1, <1>3, <1>5, JoinTurns DEF Turns
<1>7. InTurn(pending', {}) /\ Upto(pending', stamp)
  BY <1>1, <1>6
<1>8. QED
  BY <1>1, <1>2, <1>7, NoTurns DEF Turns

LEMMA TurnsSend == ASSUME Typed, Turns, Send PROVE Turns'
<1>1. /\ requests \in Seq(Requests) /\ pending \in Seq(Requests) /\ unacked \in Seq(Requests)
      /\ UNCHANGED <<accepted, stamp>> /\ Recent' = Recent
  BY DEF Send, Typed, RequestTypes, engineVars, Recent
<1>2. CASE pending # <<>>
  <2>1. /\ unacked' \in {unacked, Append(unacked, Head(pending))}
        /\ pending' = Tail(pending) /\ requests' = requests
    BY <1>2 DEF Send
  <2>2. /\ InTurn(unacked', Recent) /\ InTurn(pending', Recent)
        /\ Behind(unacked', pending', Recent) /\ Behind(unacked', requests, Recent)
        /\ Behind(pending', requests, Recent)
        /\ Upto(unacked', stamp) /\ Upto(pending', stamp)
    BY <1>1, <1>2, <2>1, SentTurns DEF Turns
  <2>3. QED
    BY <1>1, <2>1, <2>2 DEF Turns
<1>3. CASE pending = <<>>
  <2>1. /\ unacked' \in {unacked, Append(unacked, Head(requests))} /\ requests # <<>>
        /\ requests' = Tail(requests) /\ pending' = <<>>
    BY <1>3 DEF Send
  <2>2. Behind(unacked, <<>>, Recent) /\ Behind(requests, <<>>, Recent) /\ <<>> \in Seq(Requests)
    BY NoTurns
  <2>3. /\ InTurn(unacked', Recent) /\ InTurn(requests', Recent) /\ Behind(unacked', requests', Recent)
        /\ Upto(unacked', stamp) /\ Upto(requests', stamp)
    BY <1>1, <2>1, <2>2, SentTurns DEF Turns
  <2>4. QED
    BY <1>1, <2>1, <2>3, NoTurns DEF Turns
<1>4. QED
  BY <1>2, <1>3

LEMMA TurnsReceive == ASSUME Typed, Window, Turns, Receive PROVE Turns'
<1>1. /\ unacked \in Seq(Requests) /\ toBroker \in Seq(Requests) /\ toClient \in Seq(Reporting \cup {Ack})
      /\ toClient # <<>> /\ UNCHANGED <<requests, pending, accepted, stamp>> /\ Recent' = Recent
      /\ Head(toClient).kind = "publish" => unacked' = unacked
      /\ Head(toClient).kind # "publish" => unacked' = Tail(unacked)
  BY DEF Receive, Typed, RequestTypes, ReportTypes, engineVars, Recent
<1>2. CASE unacked' = unacked
  BY <1>1, <1>2 DEF Turns
<1>3. CASE Head(toClient).kind # "publish"
  <2>1. Head(toClient) \in Reporting \cup {Ack}
    BY <1>1, HeadTailProperties
  <2>2. Places(Head(toClient)) = 1
    BY <1>3, <2>1, ReportShape DEF Places
  <2>3. unacked # <<>>
    BY <1>1, <2>2, MatchedReceived DEF Window
  <2>4. /\ InTurn(Tail(unacked), Recent) /\ Behind(Tail(unacked), pending, Recent)
        /\ Behind(Tail(unacked), requests, Recent) /\ Upto(Tail(unacked), stamp)
    BY <1>1, <2>3, TailTurns DEF Turns
  <2>5. QED
    BY <1>1, <1>3, <2>4 DEF Turns
<1>4. QED
  BY <1>1, <1>2, <1>3

LEMMA TurnsStep == Typed /\ Window /\ Turns /\ [Next]_vars => Turns'
<1>1. SUFFICES ASSUME Typed, Window, Turns, [Next]_vars PROVE Turns'
  OBVIOUS
<1>2. stamp \in Nat /\ stamp <= stamp /\ breaks \in Nat
  BY <1>1 DEF Typed, HistoryTypes
<1>3. CASE Broken
  BY <1>1, <1>3, TurnsBroken
<1>4. CASE Send
  BY <1>1, <1>4, TurnsSend
<1>5. CASE Receive
  BY <1>1, <1>5, TurnsReceive
<1>6. ASSUME UNCHANGED <<requests, pending, unacked, accepted, breaks>>, stamp' \in Nat, stamp <= stamp'
      PROVE  Turns'
  <2>1. Recent' = Recent
    BY <1>6 DEF Recent
  <2>2. QED
    BY <1>1, <1>6, <2>1, TurnsSame
<1>7. CASE Recover \/ Tick \/ Serve \/ UNCHANGED vars
  BY <1>2, <1>6, <1>7 DEF Recover, Tick, Serve, vars, engineVars, clientVars
<1>8. ASSUME NEW n \in Names, NEW f \in Fields(n), Change(n, f) PROVE Turns'
  <2>1. stamp' = stamp + 1 /\ UNCHANGED <<requests, pending, unacked, accepted, breaks>>
    BY <1>8 DEF Change, engineVars, clientVars
  <2>2. stamp' \in Nat /\ stamp <= stamp'
    BY <1>2, <2>1
  <2>3. QED
    BY <1>6, <2>1, <2>2
<1>9. CASE Connected
  <2>1. /\ UNCHANGED <<requests, unacked, accepted, breaks, stamp>>
        /\ pending' = pending \/ pending' = <<>>
    BY <1>9 DEF Connected, engineVars
  <2>2. CASE pending' = pending
    BY <1>2, <1>6, <2>1, <2>2
  <2>3. CASE pending' = <<>>
    <3>1. Recent' = Recent
      BY <2>1 DEF Recent
    <3>2. QED
      BY <1>1, <2>1, <2>3, <3>1, NoTurns DEF Turns
  <2>4. QED
    BY <2>1, <2>2, <2>3
<1>10. CASE ConnectFailed
  <2>1. UNCHANGED <<requests, pending, unacked, accepted, stamp>> /\ breaks' = breaks + 1
    BY <1>10 DEF ConnectFailed, engineVars
  <2>2. Recent' = {}
    BY <1>1, <2>1, NoneRecent
  <2>3. QED
    BY <1>1, <1>2, <2>1, <2>2, TurnsSame
<1>11. ASSUME NEW r \in Requests, ~IsSet(r), requests' = Append(requests, r),
              UNCHANGED <<pending, unacked, accepted, breaks, stamp>>
       PROVE  Turns'
  <2>1. Recent' \cap (0 .. stamp) \subseteq Recent
    BY <1>11 DEF Recent
  <2>2. \A a \in accepted' : a.value.number \in 0 .. stamp'
    BY <1>1, <1>11 DEF Turns
  <2>3. QED
    BY <1>1, <1>2, <1>11, <2>1, <2>2, TurnsQueued
<1>12. ASSUME NEW n \in Names, Subscribe(n) PROVE Turns'
  <2>1. PICK r : r = [kind |-> "subscribe", name |-> n]
    OBVIOUS
  <2>2. r \in Requests /\ ~IsSet(r)
    BY <2>1 DEF Requests, Subscriptions, IsSet
  <2>3. QED
    BY <1>11, <1>12, <2>1, <2>2 DEF Subscribe
<1>13. ASSUME NEW r \in PrimeRequests, Prime(r) PROVE Turns'
  <2>1. r \in Requests /\ ~IsSet(r)
    BY DEF Requests, PrimeRequests, Get, IsSet
  <2>2. /\ UNCHANGED <<pending, unacked, accepted, breaks, stamp>>
        /\ requests' = requests \/ requests' = Append(requests, r)
    BY <1>13 DEF Prime
  <2>3. QED
    BY <1>2, <1>6, <1>11, <2>1, <2>2
<1>14. ASSUME NEW d \in Devices, NEW cap \in Capabilities[d], Dispatch(d, cap) PROVE Turns'
  <2>1. PICK v : v = Value(Name[d], Field(cap, Channel[d]), stamp + 1)
    OBVIOUS
  <2>2. PICK r : r = [kind |-> "set", name |-> Name[d], value |-> v]
    OBVIOUS
  <2>3. /\ UNCHANGED <<breaks, pending, unacked>> /\ stamp' = stamp + 1
        /\ requests' = Append(requests, r) /\ accepted' = accepted \cup {[value |-> v, breaks |-> breaks]}
    BY <1>14, <2>1, <2>2 DEF Dispatch
  <2>4. stamp' \in Nat /\ stamp < stamp' /\ stamp <= stamp' /\ stamp' \notin 0 .. stamp /\ stamp' \in 0 .. stamp'
        /\ \A k \in 0 .. stamp : k \in 0 .. stamp'
    BY <1>2, <2>3
  <2>5. r \in Requests /\ Num(r) = stamp' /\ v.number = stamp'
    BY <2>1, <2>2, <2>3, <2>4, CommandAddressed DEF Num, Value
  <2>6. Recent' \cap (0 .. stamp) \subseteq Recent
    <3>1. \A k \in Recent' : k \in Recent \/ k = stamp'
      BY <2>3, <2>5 DEF Recent
    <3>2. QED
      BY <2>4, <3>1
  <2>7. \A a \in accepted' : a.value.number \in 0 .. stamp'
    <3>1. \A a \in accepted' : a \in accepted \/ a.value.number = stamp'
      BY <2>3, <2>5
    <3>2. QED
      BY <1>1, <2>4, <3>1 DEF Turns
  <2>8. QED
    BY <1>1, <2>3, <2>4, <2>5, <2>6, <2>7, TurnsQueued
<1>15. QED
  BY <1>1, <1>3, <1>4, <1>5, <1>7, <1>8, <1>9, <1>10, <1>12, <1>13, <1>14 DEF Next, Engine, Library

(* The numbers of the commands in a queue.                                 *)
LEMMA NumbersIn == ASSUME NEW s, NEW n PROVE n \in SetNumbers(s) <=> \E i \in DOMAIN s : IsSet(s[i]) /\ n = Num(s[i])
BY DEF SetNumbers, SetValues, IsSet, Num

NumberOf(r) == IF IsSet(r) THEN {Num(r)} ELSE {}

LEMMA NumbersGrow ==
  ASSUME NEW S, NEW s \in Seq(S), NEW x \in S PROVE SetNumbers(Append(s, x)) = SetNumbers(s) \cup NumberOf(x)
<1>1. /\ \A i \in DOMAIN s : i \in DOMAIN Append(s, x) /\ Append(s, x)[i] = s[i]
      /\ \A i \in DOMAIN Append(s, x) : (i \in DOMAIN s /\ Append(s, x)[i] = s[i]) \/ Append(s, x)[i] = x
      /\ Len(s) + 1 \in DOMAIN Append(s, x) /\ Append(s, x)[Len(s) + 1] = x
  <2>1. /\ Len(s) \in Nat /\ DOMAIN s = 1 .. Len(s) /\ DOMAIN Append(s, x) = 1 .. Len(s) + 1
        /\ \A i \in 1 .. Len(s) : Append(s, x)[i] = s[i]
        /\ Append(s, x)[Len(s) + 1] = x
    BY GrowQueue
  <2>2. QED
    BY <2>1
<1>2. ASSUME NEW n \in SetNumbers(Append(s, x)) PROVE n \in SetNumbers(s) \cup NumberOf(x)
  <2>1. PICK i \in DOMAIN Append(s, x) : IsSet(Append(s, x)[i]) /\ n = Num(Append(s, x)[i])
    BY <1>2, NumbersIn
  <2>2. CASE i \in DOMAIN s /\ Append(s, x)[i] = s[i]
    BY <2>1, <2>2, NumbersIn
  <2>3. CASE Append(s, x)[i] = x
    BY <2>1, <2>3 DEF NumberOf
  <2>4. QED
    BY <1>1, <2>2, <2>3
<1>3. ASSUME NEW n \in SetNumbers(s) PROVE n \in SetNumbers(Append(s, x))
  <2>1. PICK i \in DOMAIN s : IsSet(s[i]) /\ n = Num(s[i])
    BY <1>3, NumbersIn
  <2>2. i \in DOMAIN Append(s, x) /\ IsSet(Append(s, x)[i]) /\ n = Num(Append(s, x)[i])
    BY <1>1, <2>1
  <2>3. QED
    BY <2>2, NumbersIn
<1>4. ASSUME NEW n \in NumberOf(x) PROVE n \in SetNumbers(Append(s, x))
  BY <1>1, <1>4, NumbersIn DEF NumberOf
<1>5. QED
  BY <1>2, <1>3, <1>4

LEMMA NumbersShift ==
  ASSUME NEW S, NEW s \in Seq(S), s # <<>> PROVE SetNumbers(s) = SetNumbers(Tail(s)) \cup NumberOf(Head(s))
<1>1. /\ \A i \in DOMAIN Tail(s) : i + 1 \in DOMAIN s /\ Tail(s)[i] = s[i + 1]
      /\ \A i \in DOMAIN s : i = 1 \/ (i - 1 \in DOMAIN Tail(s) /\ Tail(s)[i - 1] = s[i])
      /\ 1 \in DOMAIN s /\ s[1] = Head(s)
  <2>1. /\ Len(s) \in Nat \ {0} /\ DOMAIN s = 1 .. Len(s) /\ DOMAIN Tail(s) = 1 .. Len(s) - 1
        /\ Head(s) = s[1] /\ \A i \in 1 .. Len(s) - 1 : Tail(s)[i] = s[i + 1]
    BY ShiftQueue
  <2>2. QED
    BY <2>1
<1>2. ASSUME NEW n \in SetNumbers(s) PROVE n \in SetNumbers(Tail(s)) \cup NumberOf(Head(s))
  <2>1. PICK i \in DOMAIN s : IsSet(s[i]) /\ n = Num(s[i])
    BY <1>2, NumbersIn
  <2>2. CASE i = 1
    BY <1>1, <2>1, <2>2 DEF NumberOf
  <2>3. CASE i - 1 \in DOMAIN Tail(s) /\ Tail(s)[i - 1] = s[i]
    BY <2>1, <2>3, NumbersIn
  <2>4. QED
    BY <1>1, <2>2, <2>3
<1>3. ASSUME NEW n \in SetNumbers(Tail(s)) PROVE n \in SetNumbers(s)
  <2>1. PICK i \in DOMAIN Tail(s) : IsSet(Tail(s)[i]) /\ n = Num(Tail(s)[i])
    BY <1>3, NumbersIn
  <2>2. i + 1 \in DOMAIN s /\ IsSet(s[i + 1]) /\ n = Num(s[i + 1])
    BY <1>1, <2>1
  <2>3. QED
    BY <2>2, NumbersIn
<1>4. ASSUME NEW n \in NumberOf(Head(s)) PROVE n \in SetNumbers(s)
  BY <1>1, <1>4, NumbersIn DEF NumberOf
<1>5. QED
  BY <1>2, <1>3, <1>4

LEMMA NumbersJoin ==
  ASSUME NEW S, NEW s \in Seq(S), NEW t \in Seq(S) PROVE SetNumbers(s \o t) = SetNumbers(s) \cup SetNumbers(t)
<1>0. PICK k : k = Len(s)
  OBVIOUS
<1>1. /\ \A i \in DOMAIN s : i \in DOMAIN (s \o t) /\ (s \o t)[i] = s[i]
      /\ \A j \in DOMAIN t : k + j \in DOMAIN (s \o t) /\ (s \o t)[k + j] = t[j]
      /\ \A i \in DOMAIN (s \o t) : \/ i \in DOMAIN s /\ (s \o t)[i] = s[i]
                                    \/ i - k \in DOMAIN t /\ (s \o t)[i] = t[i - k]
  BY <1>0, JoinPlaces
<1>2. ASSUME NEW n \in SetNumbers(s \o t) PROVE n \in SetNumbers(s) \cup SetNumbers(t)
  <2>1. PICK i \in DOMAIN (s \o t) : IsSet((s \o t)[i]) /\ n = Num((s \o t)[i])
    BY <1>2, NumbersIn
  <2>2. CASE i \in DOMAIN s /\ (s \o t)[i] = s[i]
    BY <2>1, <2>2, NumbersIn
  <2>3. CASE i - k \in DOMAIN t /\ (s \o t)[i] = t[i - k]
    BY <2>1, <2>3, NumbersIn
  <2>4. QED
    BY <1>1, <2>2, <2>3
<1>3. ASSUME NEW n \in SetNumbers(s) PROVE n \in SetNumbers(s \o t)
  <2>1. PICK i \in DOMAIN s : IsSet(s[i]) /\ n = Num(s[i])
    BY <1>3, NumbersIn
  <2>2. i \in DOMAIN (s \o t) /\ IsSet((s \o t)[i]) /\ n = Num((s \o t)[i])
    BY <1>1, <2>1
  <2>3. QED
    BY <2>2, NumbersIn
<1>4. ASSUME NEW n \in SetNumbers(t) PROVE n \in SetNumbers(s \o t)
  <2>1. PICK i \in DOMAIN t : IsSet(t[i]) /\ n = Num(t[i])
    BY <1>4, NumbersIn
  <2>2. k + i \in DOMAIN (s \o t) /\ IsSet((s \o t)[k + i]) /\ n = Num((s \o t)[k + i])
    BY <1>1, <2>1
  <2>3. QED
    BY <2>2, NumbersIn
<1>5. QED
  BY <1>2, <1>3, <1>4

Arrived == {executed[i].number : i \in DOMAIN executed}

(* What the wire carries is among the unacknowledged, in the same order;   *)
(* of those, what it does not carry has been executed.                     *)
LEMMA WireTurns ==
  ASSUME Typed, Window, NEW R
  PROVE  /\ InTurn(unacked, R) => InTurn(toBroker, R)
         /\ \A t : Behind(unacked, t, R) => Behind(toBroker, t, R)
         /\ SetNumbers(toBroker) \subseteq SetNumbers(unacked)
         /\ SetNumbers(unacked) \subseteq SetNumbers(toBroker) \cup Arrived
<1>1. toClient \in Seq(Reporting \cup {Ack}) /\ toBroker \in Seq(Requests) /\ unacked \in Seq(Requests)
  BY DEF Typed, RequestTypes, ReportTypes
<1>2. PICK b :
        /\ \A j \in DOMAIN toBroker :
             Places(toBroker[j]) = 1 => b[j] \in DOMAIN unacked /\ unacked[b[j]] = toBroker[j]
        /\ \A i, j \in DOMAIN toBroker :
             i < j /\ Places(toBroker[i]) = 1 /\ Places(toBroker[j]) = 1 => b[i] < b[j]
        /\ \A k \in DOMAIN unacked :
             \/ IsSet(unacked[k]) => unacked[k].value \in Executed
             \/ \E j \in DOMAIN toBroker : toBroker[j] = unacked[k]
  <2>1. Matched(toClient, toBroker, unacked, Executed)
    BY DEF Window
  <2>2. QED
    BY <1>1, <2>1, MatchedExact
<1>3. \A r : IsSet(r) => Places(r) = 1
  BY DEF IsSet, Places
<1>4. ASSUME InTurn(unacked, R) PROVE InTurn(toBroker, R)
  <2>1. ASSUME NEW i \in DOMAIN toBroker, NEW j \in DOMAIN toBroker, i < j, IsSet(toBroker[i]), IsSet(toBroker[j])
        PROVE  Fits(toBroker[i], toBroker[j], R)
    <3>1. /\ b[i] \in DOMAIN unacked /\ b[j] \in DOMAIN unacked /\ b[i] < b[j]
          /\ unacked[b[i]] = toBroker[i] /\ unacked[b[j]] = toBroker[j]
      BY <1>2, <1>3, <2>1
    <3>2. QED
      BY <1>4, <3>1 DEF InTurn
  <2>2. QED
    BY <2>1 DEF InTurn, Fits
<1>5. ASSUME NEW t, Behind(unacked, t, R) PROVE Behind(toBroker, t, R)
  BY <1>2, <1>3, <1>5 DEF Behind, Fits
<1>6. ASSUME NEW n \in SetNumbers(toBroker) PROVE n \in SetNumbers(unacked)
  BY <1>2, <1>3, <1>6, NumbersIn
<1>7. ASSUME NEW n \in SetNumbers(unacked) PROVE n \in SetNumbers(toBroker) \cup Arrived
  <2>1. PICK k \in DOMAIN unacked : IsSet(unacked[k]) /\ n = Num(unacked[k])
    BY <1>7, NumbersIn
  <2>2. CASE unacked[k].value \in Executed
    BY <2>1, <2>2 DEF Executed, Arrived, Num
  <2>3. CASE \E j \in DOMAIN toBroker : toBroker[j] = unacked[k]
    BY <2>1, <2>3, NumbersIn
  <2>4. QED
    BY <1>2, <2>1, <2>2, <2>3
<1>8. QED
  BY <1>4, <1>5, <1>6, <1>7

(* What Delivery sees of the link.                                         *)
linkVars == <<Down, Sent, Underway, Recent \cap Underway, Delivered>>

(* Nothing is under way at first.                                          *)
LEMMA DeliveryInit == Init => Commands!Init
<1>1. SetNumbers(<<>>) = {}
  BY NumbersIn
<1>2. QED
  BY <1>1 DEF Init, Commands!Init, Down, Sent, Underway, Delivered

(* A step that moves no command, and the thread neither to nor from the     *)
(* connection.                                                             *)
LEMMA DeliveryStutter ==
  ASSUME UNCHANGED <<breaks, accepted, executed>>, thread' = thread, Underway' = Underway
  PROVE  UNCHANGED linkVars
BY DEF linkVars, Down, Sent, Recent, Delivered

(* A command that is executed is delivered last.                           *)
LEMMA ExecutedDelivered ==
  ASSUME Typed, NEW v \in Values, executed' = Append(executed, v)
  PROVE  Delivered' = Append(Delivered, v.number)
<1>1. executed \in Seq(Values) /\ v.number \in Nat
  BY DEF Typed, HistoryTypes, Values
<1>2. PICK n \in Nat : n = Len(executed)
  BY <1>1, LenProperties
<1>3. /\ DOMAIN executed = 1 .. n /\ DOMAIN executed' = 1 .. n + 1
      /\ \A i \in 1 .. n : executed'[i] = executed[i]
      /\ executed'[n + 1] = v
  BY <1>1, <1>2, GrowQueue
<1>4. \A i \in 1 .. n : executed[i].number \in Nat
  <2>1. \A i \in 1 .. n : executed[i] \in Values
    BY <1>1, <1>2, <1>3, ElementOfSeq
  <2>2. QED
    BY <2>1 DEF Values
<1>5. Delivered = [i \in 1 .. n |-> executed[i].number]
  BY <1>3 DEF Delivered
<1>6. Delivered \in Seq(Nat) /\ Len(Delivered) = n
  BY <1>2, <1>4, <1>5
<1>7. Delivered' = [i \in 1 .. n + 1 |-> executed'[i].number]
  BY <1>3 DEF Delivered
<1>8. /\ Append(Delivered, v.number) \in Seq(Nat) /\ DOMAIN Append(Delivered, v.number) = 1 .. n + 1
      /\ \A i \in 1 .. n : Append(Delivered, v.number)[i] = Delivered[i]
      /\ Append(Delivered, v.number)[n + 1] = v.number
  BY <1>1, <1>6, GrowQueue
<1>9. \A i \in 1 .. n + 1 : Append(Delivered, v.number)[i] = executed'[i].number
  <2>1. \A i \in 1 .. n + 1 : i \in 1 .. n \/ i = n + 1
    OBVIOUS
  <2>2. QED
    BY <1>3, <1>5, <1>8, <2>1
<1>10. Append(Delivered, v.number) = [i \in 1 .. n + 1 |-> Append(Delivered, v.number)[i]]
  <2>1. \A f : f \in Seq(Nat) => f = [i \in DOMAIN f |-> f[i]]
    BY LenProperties
  <2>2. QED
    BY <1>8, <2>1
<1>11. QED
  BY <1>7, <1>9, <1>10

(* dispatch sends: the new command has the highest number.                 *)
LEMMA DispatchSends ==
  ASSUME Typed, Turns, NEW d \in Devices, NEW cap \in Capabilities[d], Dispatch(d, cap)
  PROVE  Commands!Send
<1>1. PICK v : v = Value(Name[d], Field(cap, Channel[d]), stamp + 1)
  OBVIOUS
<1>2. PICK r : r = [kind |-> "set", name |-> Name[d], value |-> v]
  OBVIOUS
<1>3. /\ UNCHANGED <<breaks, pending, thread, toBroker, executed>> /\ stamp' = stamp + 1
      /\ requests' = Append(requests, r) /\ accepted' = accepted \cup {[value |-> v, breaks |-> breaks]}
  BY <1>1, <1>2 DEF Dispatch, brokerVars, deviceVars
<1>4. PICK n \in Nat : n = stamp + 1 /\ \A k \in 0 .. stamp : k < n
  BY DEF Typed, HistoryTypes
<1>5. r \in Requests /\ NumberOf(r) = {n} /\ v.number = n /\ requests \in Seq(Requests)
  BY <1>1, <1>2, <1>4, CommandAddressed DEF NumberOf, IsSet, Num, Value, Typed, RequestTypes
<1>6. SetNumbers(requests') = SetNumbers(requests) \cup {n}
  BY <1>3, <1>5, NumbersGrow
<1>7. Underway' = Underway \cup {n}
  BY <1>3, <1>6 DEF Underway
<1>8. Sent' = Sent \cup {n} /\ Recent' = Recent \cup {n}
  <2>1. PICK c : c = [value |-> v, breaks |-> breaks]
    OBVIOUS
  <2>2. c.value.number = n /\ c.breaks = breaks /\ accepted' = accepted \cup {c} /\ breaks' = breaks
    BY <1>3, <1>5, <2>1
  <2>3. Sent' = Sent \cup {n}
    BY <2>2 DEF Sent
  <2>4. \A k : k \in Recent' <=> \E a \in accepted' : a.breaks = breaks' /\ k = a.value.number
    BY DEF Recent
  <2>5. \A k : k \in Recent <=> \E a \in accepted : a.breaks = breaks /\ k = a.value.number
    BY DEF Recent
  <2>6. \A k : k \in Recent' <=> k \in Recent \/ k = n
    BY <2>2, <2>4, <2>5
  <2>7. QED
    BY <2>3, <2>6
<1>9. \A m \in Sent : m < n
  BY <1>4 DEF Turns, Sent
<1>10. n \in Sent' \ Sent
  <2>1. ~(n < n)
    BY <1>4
  <2>2. QED
    BY <1>8, <1>9, <2>1
<1>11. (Recent \cap Underway)' = (Recent \cap Underway) \cup {n} /\ Down' = Down /\ Delivered' = Delivered
  <2>1. Recent \subseteq Sent
    BY DEF Recent, Sent
  <2>2. QED
    BY <1>3, <1>7, <1>8, <2>1 DEF Down, Delivered
<1>12. QED
  BY <1>7, <1>8, <1>9, <1>10, <1>11 DEF Commands!Send

(* What a command fits before carries other numbers, and if the command is  *)
(* recent, higher ones.                                                    *)
LEMMA NumbersBehind ==
  ASSUME NEW s, NEW x, NEW R, IsSet(x), \A i \in DOMAIN s : Fits(x, s[i], R)
  PROVE  \A n \in SetNumbers(s) : n # Num(x) /\ (Num(x) \in R => Num(x) < n)
<1>1. ASSUME NEW n \in SetNumbers(s) PROVE n # Num(x) /\ (Num(x) \in R => Num(x) < n)
  <2>1. PICK i \in DOMAIN s : IsSet(s[i]) /\ n = Num(s[i])
    BY <1>1, NumbersIn
  <2>2. QED
    BY <2>1 DEF Fits
<1>2. QED
  BY <1>1

LEMMA UnderwayNat == Typed /\ Window /\ Turns => Underway \subseteq 0 .. stamp
<1>1. \A s : Upto(s, stamp) => SetNumbers(s) \subseteq 0 .. stamp
  BY NumbersIn DEF Upto
<1>2. Turns => SetNumbers(unacked) \cup SetNumbers(pending) \cup SetNumbers(requests) \subseteq 0 .. stamp
  BY <1>1 DEF Turns
<1>3. Typed /\ Window => SetNumbers(toBroker) \subseteq SetNumbers(unacked)
  BY WireTurns
<1>4. QED
  BY <1>2, <1>3 DEF Underway

(* A command that the broker takes from the wire is executed; a recent one  *)
(* is older than all that is under way.                                    *)
LEMMA ServeDelivers ==
  ASSUME Typed, Window, Turns, Serve, IsSet(Head(toBroker)) PROVE \E n \in Underway : Commands!Deliver(n)
<1>1. PICK x : x = Head(toBroker)
  OBVIOUS
<1>2. PICK n : n = Num(x)
  OBVIOUS
<1>3. /\ toBroker \in Seq(Requests) /\ toBroker # <<>> /\ toBroker' = Tail(toBroker)
      /\ IsSet(x) /\ NumberOf(x) = {n}
      /\ UNCHANGED <<accepted, pending, requests, thread, breaks>>
  BY <1>1, <1>2, ServeParts DEF NumberOf, Typed, RequestTypes, engineVars, clientVars
<1>4. x.value \in Values /\ x.value.number = n /\ n \in Nat /\ executed' = Append(executed, x.value)
  BY <1>1, <1>2, <1>3, ServeParts, AddressedSets DEF Num, IsSet
<1>5. Delivered' = Append(Delivered, n)
  BY <1>4, ExecutedDelivered
<1>6. /\ \A j \in DOMAIN Tail(toBroker) : Fits(x, Tail(toBroker)[j], Recent)
      /\ \A j \in DOMAIN pending : Fits(x, pending[j], Recent)
      /\ \A j \in DOMAIN requests : Fits(x, requests[j], Recent)
  <2>1. InTurn(toBroker, Recent) /\ Behind(toBroker, pending, Recent) /\ Behind(toBroker, requests, Recent)
    BY WireTurns DEF Turns
  <2>2. QED
    BY <1>1, <1>3, <2>1, TailTurns
<1>7. \A m \in Underway' : m # n /\ (n \in Recent => n < m)
  BY <1>2, <1>3, <1>6, NumbersBehind DEF Underway
<1>8. Underway = Underway' \cup {n}
  BY <1>1, <1>3, NumbersShift DEF Underway
<1>9. Underway' = Underway \ {n} /\ n \in Underway
  BY <1>7, <1>8
<1>10. ASSUME n \in Recent, NEW m \in Underway PROVE n <= m
  <2>1. m = n \/ n < m
    BY <1>7, <1>8, <1>10
  <2>2. m \in Nat
    BY UnderwayNat DEF Typed, HistoryTypes
  <2>3. QED
    BY <1>4, <2>1, <2>2
<1>11. Down' = Down /\ Sent' = Sent /\ Recent' = Recent
  BY <1>3 DEF Down, Sent, Recent
<1>12. Commands!Deliver(n)
  BY <1>5, <1>9, <1>10, <1>11 DEF Commands!Deliver
<1>13. QED
  BY <1>9, <1>12

(* Anything else the broker takes is no command.                           *)
LEMMA ServeStutters == ASSUME Typed, Serve, ~IsSet(Head(toBroker)) PROVE UNCHANGED linkVars
<1>1. /\ toBroker \in Seq(Requests) /\ toBroker # <<>> /\ toBroker' = Tail(toBroker)
      /\ UNCHANGED <<accepted, pending, requests, thread, breaks, executed>>
  BY ServeParts DEF IsSet, Typed, RequestTypes, engineVars, clientVars
<1>2. SetNumbers(toBroker) = SetNumbers(toBroker')
  BY <1>1, NumbersShift DEF NumberOf
<1>3. QED
  BY <1>1, <1>2, DeliveryStutter DEF Underway

(* The library moves a command from its queues to the wire.                *)
LEMMA SendMoves == ASSUME Typed, Send PROVE UNCHANGED linkVars
<1>1. /\ requests \in Seq(Requests) /\ pending \in Seq(Requests) /\ toBroker \in Seq(Requests)
      /\ UNCHANGED <<breaks, accepted, executed, thread>>
  BY DEF Send, Typed, RequestTypes, engineVars, deviceVars
<1>2. ASSUME NEW s \in Seq(Requests), s # <<>>, toBroker' = Append(toBroker, Head(s))
      PROVE  SetNumbers(toBroker') \cup SetNumbers(Tail(s)) = SetNumbers(toBroker) \cup SetNumbers(s)
  <2>1. Head(s) \in Requests
    BY <1>2, ShiftQueue
  <2>2. /\ SetNumbers(toBroker') = SetNumbers(toBroker) \cup NumberOf(Head(s))
        /\ SetNumbers(s) = SetNumbers(Tail(s)) \cup NumberOf(Head(s))
    BY <1>1, <1>2, <2>1, NumbersGrow, NumbersShift
  <2>3. QED
    BY <2>2
<1>3. CASE pending # <<>>
  <2>1. toBroker' = Append(toBroker, Head(pending)) /\ pending' = Tail(pending) /\ requests' = requests
    BY <1>3 DEF Send
  <2>2. QED
    BY <1>1, <1>2, <1>3, <2>1, DeliveryStutter DEF Underway
<1>4. CASE pending = <<>>
  <2>1. /\ requests # <<>> /\ toBroker' = Append(toBroker, Head(requests))
        /\ requests' = Tail(requests) /\ pending' = pending
    BY <1>4 DEF Send
  <2>2. QED
    BY <1>1, <1>2, <2>1, DeliveryStutter DEF Underway
<1>5. QED
  BY <1>3, <1>4

LEMMA NumbersNone == SetNumbers(<<>>) = {}
BY NumbersIn

LEMMA ArrivedDelivered == Arrived = {Delivered[i] : i \in DOMAIN Delivered}
BY DEF Arrived, Delivered

(* A connect that fails, and a connection that breaks, make stale what was  *)
(* under way; what was not acknowledged is under way again.                *)
LEMMA FailedIsOutage == ASSUME Typed, ConnectFailed PROVE Commands!Outage
<1>1. /\ breaks \in Nat /\ breaks' = breaks + 1 /\ thread' = "sleep"
      /\ UNCHANGED <<requests, pending, toBroker, accepted, executed>>
  BY DEF ConnectFailed, Typed, HistoryTypes, engineVars, brokerVars, deviceVars
<1>2. Underway' = Underway /\ Sent' = Sent /\ Delivered' = Delivered
  BY <1>1 DEF Underway, Sent, Delivered
<1>3. Recent' = {}
  BY <1>1, NoneRecent
<1>4. Down' = TRUE
  BY <1>1 DEF Down
<1>5. QED
  BY <1>2, <1>3, <1>4 DEF Commands!Outage

LEMMA BrokenIsOutage == ASSUME Typed, Window, Broken PROVE Commands!Outage
<1>1. /\ breaks \in Nat /\ breaks' = breaks + 1 /\ thread' = "sleep"
      /\ pending' \in {unacked \o pending \o requests, pending \o unacked \o requests}
      /\ requests' = <<>> /\ toBroker' = <<>>
      /\ UNCHANGED <<accepted, executed>>
      /\ requests \in Seq(Requests) /\ pending \in Seq(Requests) /\ unacked \in Seq(Requests)
  BY DEF Broken, Typed, HistoryTypes, RequestTypes, engineVars, deviceVars
<1>2. SetNumbers(pending') = SetNumbers(unacked) \cup SetNumbers(pending) \cup SetNumbers(requests)
  <2>1. /\ unacked \o pending \in Seq(Requests) /\ pending \o unacked \in Seq(Requests)
        /\ SetNumbers(unacked \o pending) = SetNumbers(unacked) \cup SetNumbers(pending)
        /\ SetNumbers(pending \o unacked) = SetNumbers(pending) \cup SetNumbers(unacked)
    BY <1>1, NumbersJoin, ConcatProperties
  <2>2. PICK s \in Seq(Requests) :
          pending' = s \o requests /\ SetNumbers(s) = SetNumbers(unacked) \cup SetNumbers(pending)
    BY <1>1, <2>1
  <2>3. QED
    BY <1>1, <2>2, NumbersJoin
<1>3. Underway' = SetNumbers(unacked) \cup SetNumbers(pending) \cup SetNumbers(requests)
  BY <1>1, <1>2, NumbersNone DEF Underway
<1>4. SetNumbers(toBroker) \subseteq SetNumbers(unacked) /\ SetNumbers(unacked) \subseteq SetNumbers(toBroker) \cup Arrived
  BY WireTurns
<1>5. Underway \subseteq Underway' /\ Underway' \subseteq Underway \cup {Delivered[i] : i \in DOMAIN Delivered}
  BY <1>3, <1>4, ArrivedDelivered DEF Underway
<1>6. Recent' = {} /\ Sent' = Sent /\ Delivered' = Delivered
  BY <1>1, NoneRecent DEF Sent, Delivered
<1>7. Down' = TRUE
  BY <1>1 DEF Down
<1>8. QED
  BY <1>5, <1>6, <1>7 DEF Commands!Outage

(* A new session may forget what the last one left; the first had none.    *)
LEMMA ConnectedLoses ==
  ASSUME Typed, Untroubled, Connected PROVE Commands!Lose \/ UNCHANGED linkVars
<1>1. /\ breaks \in Nat /\ thread = "connect" /\ thread' = "pump"
      /\ pending' = pending \/ pending' = <<>>
      /\ UNCHANGED <<breaks, requests, toBroker, accepted, executed>>
  BY DEF Connected, Typed, HistoryTypes, engineVars, brokerVars, deviceVars
<1>2. Underway' \subseteq Underway
  BY <1>1, NumbersNone DEF Underway
<1>3. Sent' = Sent /\ Delivered' = Delivered /\ Recent' = Recent /\ Down' = FALSE
  BY <1>1 DEF Sent, Delivered, Recent, Down
<1>4. CASE breaks > 0
  <2>1. Down
    BY <1>1, <1>4 DEF Down
  <2>2. QED
    BY <1>2, <1>3, <2>1 DEF Commands!Lose
<1>5. CASE ~(breaks > 0)
  <2>1. pending = <<>>
    BY <1>1, <1>5 DEF Untroubled
  <2>2. Underway' = Underway
    BY <1>1, <2>1 DEF Underway
  <2>3. Down = FALSE
    BY <1>5 DEF Down
  <2>4. QED
    BY <1>3, <2>2, <2>3 DEF linkVars
<1>6. QED
  BY <1>4, <1>5

(* Every step of adapter, library, broker and devices is one of Delivery's, *)
(* or a stutter.                                                           *)
LEMMA DeliveryStep ==
  ASSUME StartInv, IInv, Turns, [Next]_vars PROVE Commands!Next \/ UNCHANGED linkVars
<1>1. Typed /\ Window /\ Untroubled
  BY DEF IInv
<1>2. ASSUME NEW d \in Devices, NEW cap \in Capabilities[d], Dispatch(d, cap)
      PROVE  Commands!Next \/ UNCHANGED linkVars
  BY <1>1, <1>2, DispatchSends DEF Commands!Next
<1>3. CASE Serve
  BY <1>1, <1>3, ServeDelivers, ServeStutters DEF Commands!Next
<1>4. CASE Send
  BY <1>1, <1>4, SendMoves
<1>5. CASE ConnectFailed \/ Broken
  BY <1>1, <1>5, FailedIsOutage, BrokenIsOutage DEF Commands!Next
<1>6. CASE Connected
  BY <1>1, <1>6, ConnectedLoses DEF Commands!Next
<1>7. ASSUME UNCHANGED <<toBroker, pending, breaks, accepted, executed>>,
             NEW r \in Requests, ~IsSet(r), requests' = requests \/ requests' = Append(requests, r),
             Down' = Down
      PROVE  UNCHANGED linkVars
  <2>1. SetNumbers(requests') = SetNumbers(requests)
    <3>1. requests \in Seq(Requests)
      BY <1>1 DEF Typed, RequestTypes
    <3>2. NumberOf(r) = {}
      BY <1>7 DEF NumberOf
    <3>3. SetNumbers(Append(requests, r)) = SetNumbers(requests)
      BY <3>1, <3>2, NumbersGrow
    <3>4. QED
      BY <1>7, <3>3
  <2>2. Underway' = Underway
    BY <1>7, <2>1 DEF Underway
  <2>3. Sent' = Sent /\ Recent' = Recent /\ Delivered' = Delivered
    BY <1>7 DEF Sent, Recent, Delivered
  <2>4. QED
    BY <1>7, <2>2, <2>3 DEF linkVars
<1>8. ASSUME NEW n \in Names, Subscribe(n) PROVE UNCHANGED linkVars
  <2>1. PICK r : r = [kind |-> "subscribe", name |-> n]
    OBVIOUS
  <2>2. r \in Requests /\ ~IsSet(r)
    BY <2>1 DEF Requests, Subscriptions, IsSet
  <2>3. UNCHANGED <<toBroker, pending, breaks, accepted, executed>> /\ requests' = Append(requests, r)
    BY <1>8, <2>1 DEF Subscribe, brokerVars, deviceVars
  <2>4. thread = "none" /\ thread' \in {"none", "connect"}
    BY <1>8 DEF Subscribe, StartInv, SubscribingInv
  <2>5. Down' = Down
    BY <2>3, <2>4 DEF Down
  <2>6. QED
    BY <1>7, <2>2, <2>3, <2>5
<1>9. ASSUME NEW r \in PrimeRequests, Prime(r) PROVE UNCHANGED linkVars
  <2>1. r \in Requests /\ ~IsSet(r)
    BY DEF Requests, PrimeRequests, Get, IsSet
  <2>2. /\ UNCHANGED <<toBroker, pending, breaks, accepted, executed, thread>>
        /\ requests' = requests \/ requests' = Append(requests, r)
    BY <1>9 DEF Prime, brokerVars, deviceVars
  <2>3. QED
    BY <1>7, <2>1, <2>2 DEF Down
<1>10. ASSUME UNCHANGED <<requests, pending, toBroker, breaks, accepted, executed>>, Down' = Down
       PROVE  UNCHANGED linkVars
  BY <1>10 DEF linkVars, Sent, Underway, Recent, Delivered
<1>11. CASE Recover
  <2>1. /\ UNCHANGED <<requests, pending, toBroker, breaks, accepted, executed>>
        /\ thread = "sleep" /\ thread' = "connect"
    BY <1>11 DEF Recover, engineVars, brokerVars, deviceVars
  <2>2. QED
    BY <1>10, <2>1 DEF Down
<1>12. CASE Tick \/ Receive \/ UNCHANGED vars
  <2>1. UNCHANGED <<requests, pending, toBroker, breaks, accepted, executed, thread>>
    BY <1>12 DEF Tick, Receive, vars, engineVars, clientVars, brokerVars, deviceVars
  <2>2. QED
    BY <1>10, <2>1 DEF Down
<1>13. ASSUME NEW n \in Names, NEW f \in Fields(n), Change(n, f) PROVE UNCHANGED linkVars
  <2>1. UNCHANGED <<requests, pending, toBroker, breaks, accepted, executed, thread>>
    BY <1>13 DEF Change, engineVars, clientVars
  <2>2. QED
    BY <1>10, <2>1 DEF Down
<1>14. QED
  BY <1>2, <1>3, <1>4, <1>5, <1>6, <1>8, <1>9, <1>11, <1>12, <1>13 DEF Next, Engine, Library

(* Channel, library and broker do what Delivery promises: a command that    *)
(* dispatch accepted since the last break is executed once and in order,   *)
(* and only a session that failed forgets what it left.                    *)
THEOREM DeliversCorrect == Spec => Delivers
<1>1. StartInv /\ IInv /\ Turns /\ [Next]_vars => [Commands!Next]_linkVars
  BY DeliveryStep
<1>2. [Commands!Next]_linkVars
        <=> [Commands!Next]_<<Down, Sent, Underway, Recent \cap Underway, Delivered>>
  BY DEF linkVars
<1>3. Spec => []IInv /\ []Turns
  <2>1. IInv /\ Turns /\ [Next]_vars => Turns'
    BY TurnsStep DEF IInv
  <2>2. QED
    BY <2>1, Inductive, TurnsInit, PTL DEF Spec
<1>4. QED
  BY <1>1, <1>2, <1>3, StartAlways, DeliveryInit, PTL DEF Spec, Delivers, Commands!Spec
=============================================================================
