---------------------------- MODULE BridgeProofs ----------------------------
(***************************************************************************)
(* What happens to commands, presses and values, for any number of them,   *)
(* of attributes and of outages.                                           *)
(***************************************************************************)
EXTENDS BridgeProperties, SequenceTheorems, FiniteSetTheorems, TLAPS

-----------------------------------------------------------------------------
(* The order of commands *)

CommandTypes ==
  /\ issued \in Nat
  /\ outbound \in Seq(Nat) /\ toServer \in Seq(Nat) /\ executed \in Seq(Nat)

(* Every member of s that is a command comes before every one of t.        *)
Before(s, t) == \A i \in DOMAIN s, j \in DOMAIN t : s[i] # Listen => s[i] < t[j]

(* Queue, socket and history are, read backwards, one increasing sequence  *)
(* of commands; start_listening may stand anywhere on the socket.          *)
OnWire ==
  \A i, j \in DOMAIN toServer :
     i < j /\ toServer[i] # Listen /\ toServer[j] # Listen => toServer[i] < toServer[j]

ExecutedFirst ==
  \A i \in DOMAIN executed, j \in DOMAIN toServer : toServer[j] # Listen => executed[i] < toServer[j]

Numbered == \A i \in DOMAIN outbound : outbound[i] # Listen /\ outbound[i] <= issued
NumberedWire == \A i \in DOMAIN toServer : toServer[i] <= issued
NumberedDone == \A i \in DOMAIN executed : executed[i] # Listen /\ executed[i] <= issued

OrderInv ==
  /\ CommandTypes
  /\ Increasing(outbound) /\ OnWire /\ Increasing(executed)
  /\ Before(toServer, outbound) /\ Before(executed, outbound) /\ ExecutedFirst
  /\ Numbered /\ NumberedWire /\ NumberedDone

(* The variables that OrderInv speaks of.                                  *)
commandVars == <<issued, outbound, toServer, executed>>

-----------------------------------------------------------------------------

(* The adapter starts with nothing in flight.                              *)
LEMMA OrderInit == Init => OrderInv
BY BridgeAssumption DEF Init, OrderInv, CommandTypes, Increasing, OnWire, Before, ExecutedFirst,
     Numbered, NumberedWire, NumberedDone

(* Nothing changes for the commands when nothing touches them.             *)
LEMMA OrderUnchanged == OrderInv /\ UNCHANGED commandVars => OrderInv'
BY DEF commandVars, OrderInv, CommandTypes, Increasing, OnWire, Before, ExecutedFirst,
       Numbered, NumberedWire, NumberedDone

(* A dispatched command is newer than all others.                          *)
LEMMA OrderDispatch == OrderInv /\ Dispatch => OrderInv'
<1>1. SUFFICES ASSUME OrderInv, Dispatch PROVE OrderInv'
  OBVIOUS
<1>2. /\ issued \in Nat /\ issued' = issued + 1
      /\ outbound \in Seq(Nat) /\ outbound' = Append(outbound, issued + 1)
      /\ UNCHANGED <<toServer, executed>>
  BY <1>1 DEF Dispatch, wireVars, deviceVars, OrderInv, CommandTypes
<1>3. /\ outbound' \in Seq(Nat) /\ DOMAIN outbound' = 1 .. Len(outbound) + 1
      /\ \A i \in DOMAIN outbound : i \in DOMAIN outbound' /\ outbound'[i] = outbound[i]
      /\ \A i \in DOMAIN outbound' : i \in DOMAIN outbound \/ outbound'[i] = issued + 1
      /\ \A i, j \in DOMAIN outbound' : i < j => i \in DOMAIN outbound
  BY <1>2
<1>4. (CommandTypes /\ OnWire /\ Increasing(executed) /\ ExecutedFirst)'
  BY <1>1, <1>2, <1>3 DEF OrderInv, CommandTypes, OnWire, Increasing, ExecutedFirst
<1>5. (Numbered /\ NumberedWire /\ NumberedDone)'
  BY <1>1, <1>2, <1>3 DEF OrderInv, CommandTypes, Numbered, NumberedWire, NumberedDone, Listen
<1>6. Increasing(outbound)'
  BY <1>1, <1>2, <1>3 DEF OrderInv, CommandTypes, Numbered, Increasing
<1>a. ASSUME NEW s \in Seq(Nat), s' = s, Before(s, outbound), \A i \in DOMAIN s : s[i] <= issued
      PROVE  Before(s, outbound)'
  <2>1. ASSUME NEW i \in DOMAIN s, NEW j \in DOMAIN outbound', s[i] # Listen PROVE s[i] < outbound'[j]
    <3>1. s[i] \in Nat /\ s[i] <= issued
      BY <1>a
    <3>2. CASE j \in DOMAIN outbound
      BY <1>3, <1>a, <2>1, <3>2 DEF Before
    <3>3. CASE outbound'[j] = issued + 1
      BY <1>2, <3>1, <3>3
    <3>4. QED
      BY <1>3, <3>2, <3>3
  <2>2. QED
    BY <1>a, <2>1 DEF Before
<1>7. Before(toServer, outbound)'
  BY <1>1, <1>2, <1>a DEF OrderInv, CommandTypes, NumberedWire
<1>8. Before(executed, outbound)'
  BY <1>1, <1>2, <1>a DEF OrderInv, CommandTypes, NumberedDone
<1>9. QED
  BY <1>4, <1>5, <1>6, <1>7, <1>8 DEF OrderInv

(* Taking the first member of a sequence moves the others up.              *)
LEMMA TailShifts ==
  ASSUME NEW s \in Seq(Nat), s # <<>>
  PROVE  /\ Tail(s) \in Seq(Nat) /\ Head(s) = s[1] /\ Head(s) \in Nat /\ 1 \in DOMAIN s
         /\ \A i \in DOMAIN Tail(s) : i \in Nat /\ i > 0 /\ i + 1 \in DOMAIN s /\ Tail(s)[i] = s[i + 1]
OBVIOUS

(* Appending one leaves the others where they are.                         *)
LEMMA AppendKeeps ==
  ASSUME NEW s \in Seq(Nat), NEW x \in Nat
  PROVE  /\ Append(s, x) \in Seq(Nat)
         /\ \A i \in DOMAIN Append(s, x) :
              \/ i \in DOMAIN s /\ Append(s, x)[i] = s[i]
              \/ i = Len(s) + 1 /\ Append(s, x)[i] = x
         /\ \A i \in DOMAIN s : i < Len(s) + 1
OBVIOUS

(* The oldest queued command goes to the socket, behind all it holds, or   *)
(* is lost.                                                                *)
LEMMA OrderWrite == OrderInv /\ WriteFrame => OrderInv'
<1>1. SUFFICES ASSUME OrderInv, WriteFrame PROVE OrderInv'
  OBVIOUS
<1>2. /\ issued \in Nat /\ outbound \in Seq(Nat) /\ outbound # <<>> /\ outbound' = Tail(outbound)
      /\ toServer \in Seq(Nat)
      /\ toServer' = toServer \/ toServer' = Append(toServer, Head(outbound))
      /\ UNCHANGED <<issued, executed>>
  BY <1>1 DEF WriteFrame, deviceVars, OrderInv, CommandTypes
<1>3. /\ outbound' \in Seq(Nat) /\ Head(outbound) = outbound[1] /\ 1 \in DOMAIN outbound
      /\ \A i \in DOMAIN outbound' : /\ i \in Nat /\ i > 0 /\ i + 1 \in DOMAIN outbound
                                    /\ outbound'[i] = outbound[i + 1]
  BY <1>2, TailShifts
<1>4. /\ toServer' \in Seq(Nat)
      /\ \A i \in DOMAIN toServer' :
           \/ i \in DOMAIN toServer /\ toServer'[i] = toServer[i]
           \/ i = Len(toServer) + 1 /\ toServer'[i] = outbound[1]
      /\ \A i \in DOMAIN toServer : i < Len(toServer) + 1
  <2>1. CASE toServer' = toServer
    BY <1>2, <2>1
  <2>2. CASE toServer' = Append(toServer, Head(outbound))
    BY <1>2, <1>3, <2>2, TailShifts, AppendKeeps
  <2>3. QED
    BY <1>2, <2>1, <2>2
<1>5. (CommandTypes /\ Increasing(executed) /\ NumberedDone)'
  BY <1>1, <1>2, <1>3, <1>4 DEF OrderInv, CommandTypes, Increasing, NumberedDone
<1>6. (Increasing(outbound) /\ Numbered /\ Before(executed, outbound))'
  BY <1>1, <1>2, <1>3 DEF OrderInv, CommandTypes, Increasing, Numbered, Before
<1>7. (OnWire /\ NumberedWire)'
  <2>1. OnWire /\ NumberedWire /\ Before(toServer, outbound) /\ Numbered
    BY <1>1 DEF OrderInv
  <2>2. \A i \in DOMAIN toServer : i < Len(toServer) + 1 /\ ~(Len(toServer) + 1 < i)
    BY <1>2
  <2>3. \A i \in DOMAIN toServer : toServer[i] # Listen => toServer[i] < outbound[1]
    BY <1>3, <2>1 DEF Before
  <2>4. OnWire'
    <3>1. ASSUME NEW i \in DOMAIN toServer', NEW j \in DOMAIN toServer',
                 i < j, toServer'[i] # Listen, toServer'[j] # Listen
          PROVE  toServer'[i] < toServer'[j]
      <4>1. i \in DOMAIN toServer /\ toServer'[i] = toServer[i]
        BY <1>4, <2>2, <3>1
      <4>2. CASE j \in DOMAIN toServer /\ toServer'[j] = toServer[j]
        BY <2>1, <3>1, <4>1, <4>2 DEF OnWire
      <4>3. CASE toServer'[j] = outbound[1]
        BY <2>3, <3>1, <4>1, <4>3
      <4>4. QED
        BY <1>4, <4>2, <4>3
    <3>2. QED
      BY <3>1 DEF OnWire
  <2>5. NumberedWire'
    <3>1. outbound[1] <= issued /\ issued' = issued
      BY <1>2, <1>3, <2>1 DEF Numbered
    <3>2. QED
      BY <1>4, <2>1, <3>1 DEF NumberedWire
  <2>6. QED
    BY <2>4, <2>5
<1>8. ExecutedFirst'
  BY <1>1, <1>2, <1>3, <1>4 DEF OrderInv, ExecutedFirst, Before, NumberedDone
<1>9. Before(toServer, outbound)'
  <2>1. Before(toServer, outbound) /\ Increasing(outbound)
    BY <1>1 DEF OrderInv
  <2>2. \A j \in DOMAIN outbound' : outbound[1] < outbound'[j]
    BY <1>3, <2>1 DEF Increasing
  <2>3. QED
    BY <1>3, <1>4, <2>1, <2>2 DEF Before
<1>10. QED
  BY <1>5, <1>6, <1>7, <1>8, <1>9 DEF OrderInv

(* start_listening goes to the socket and leaves the commands in place.    *)
LEMMA OrderHandshake == OrderInv /\ Handshake => OrderInv'
<1>1. SUFFICES ASSUME OrderInv, Handshake PROVE OrderInv'
  OBVIOUS
<1>2. /\ toServer' = toServer \/ toServer' = Append(toServer, Listen)
      /\ UNCHANGED <<issued, outbound, executed>>
  BY <1>1 DEF Handshake, deviceVars
<1>3. CASE toServer' = toServer
  BY <1>1, <1>2, <1>3, OrderUnchanged DEF commandVars
<1>4. CASE toServer' = Append(toServer, Listen)
  <2>1. /\ toServer' \in Seq(Nat)
        /\ \A i \in DOMAIN toServer' :
             (i \in DOMAIN toServer /\ toServer'[i] = toServer[i]) \/ toServer'[i] = Listen
    BY <1>1, <1>4, AppendKeeps DEF OrderInv, CommandTypes, Listen
  <2>2. OnWire'
    <3>1. \A i \in DOMAIN toServer' : toServer'[i] # Listen => i \in DOMAIN toServer /\ toServer'[i] = toServer[i]
      BY <2>1
    <3>2. QED
      BY <1>1, <3>1 DEF OrderInv, OnWire
  <2>3. NumberedWire'
    BY <1>1, <1>2, <2>1 DEF OrderInv, CommandTypes, NumberedWire, Listen
  <2>4. (ExecutedFirst /\ Before(toServer, outbound))'
    BY <1>1, <1>2, <2>1 DEF OrderInv, ExecutedFirst, Before
  <2>5. QED
    BY <1>1, <1>2, <2>1, <2>2, <2>3, <2>4
    DEF OrderInv, CommandTypes, Increasing, Before, Numbered, NumberedDone
<1>5. QED
  BY <1>2, <1>3, <1>4

(* An empty socket, new or broken, has no commands to be out of order.     *)
LEMMA OrderEmptied == OrderInv /\ toServer' = <<>> /\ UNCHANGED <<issued, outbound, executed>> => OrderInv'
BY DEF OrderInv, CommandTypes, Increasing, OnWire, Before, ExecutedFirst, Numbered, NumberedWire,
       NumberedDone

(* What is left on the socket when its first frame is taken is still in    *)
(* order, and behind that frame.                                           *)
LEMMA WireShifts ==
  ASSUME OrderInv, toServer # <<>>, toServer' = Tail(toServer), UNCHANGED <<issued, outbound>>
  PROVE  (OnWire /\ NumberedWire /\ Before(toServer, outbound) /\ toServer \in Seq(Nat))'
<1>1. /\ toServer' \in Seq(Nat)
      /\ \A i \in DOMAIN toServer' : /\ i \in Nat /\ i > 0 /\ i + 1 \in DOMAIN toServer
                                    /\ toServer'[i] = toServer[i + 1]
  BY TailShifts DEF OrderInv, CommandTypes
<1>2. OnWire'
  BY <1>1 DEF OrderInv, OnWire, Listen
<1>3. (NumberedWire /\ Before(toServer, outbound))'
  BY <1>1 DEF OrderInv, NumberedWire, Before
<1>4. QED
  BY <1>1, <1>2, <1>3

(* The server takes start_listening from the socket.                       *)
LEMMA OrderListens == OrderInv /\ ServerListens => OrderInv'
<1>1. SUFFICES ASSUME OrderInv, ServerListens PROVE OrderInv'
  OBVIOUS
<1>2. toServer # <<>> /\ toServer' = Tail(toServer) /\ UNCHANGED <<issued, outbound, executed>>
  BY <1>1 DEF ServerListens, deviceVars
<1>3. (OnWire /\ NumberedWire /\ Before(toServer, outbound) /\ toServer \in Seq(Nat))'
  BY <1>1, <1>2, WireShifts
<1>4. ExecutedFirst'
  <2>1. \A i \in DOMAIN toServer' : i + 1 \in DOMAIN toServer /\ toServer'[i] = toServer[i + 1]
    BY <1>1, <1>2, TailShifts DEF OrderInv, CommandTypes
  <2>2. QED
    BY <1>1, <1>2, <2>1 DEF OrderInv, ExecutedFirst
<1>5. QED
  BY <1>1, <1>2, <1>3, <1>4 DEF OrderInv, CommandTypes, Increasing, Before, Numbered, NumberedDone

(* The oldest command on the socket becomes the last one executed.         *)
LEMMA OrderExecutes == OrderInv /\ ServerExecutes => OrderInv'
<1>1. SUFFICES ASSUME OrderInv, ServerExecutes PROVE OrderInv'
  OBVIOUS
<1>2. /\ toServer # <<>> /\ Head(toServer) # Listen /\ toServer' = Tail(toServer)
      /\ executed' = Append(executed, Head(toServer))
      /\ UNCHANGED <<issued, outbound>>
  BY <1>1 DEF ServerExecutes
<1>3. (OnWire /\ NumberedWire /\ Before(toServer, outbound) /\ toServer \in Seq(Nat))'
  BY <1>1, <1>2, WireShifts
<1>4. /\ 1 \in DOMAIN toServer /\ Head(toServer) = toServer[1] /\ toServer[1] \in Nat
      /\ \A i \in DOMAIN toServer' : /\ i \in Nat /\ i > 0 /\ i + 1 \in DOMAIN toServer
                                    /\ toServer'[i] = toServer[i + 1]
  BY <1>1, <1>2, TailShifts DEF OrderInv, CommandTypes
<1>5. /\ executed' \in Seq(Nat)
      /\ \A i \in DOMAIN executed' :
           \/ i \in DOMAIN executed /\ executed'[i] = executed[i]
           \/ i = Len(executed) + 1 /\ executed'[i] = toServer[1]
      /\ \A i \in DOMAIN executed : i < Len(executed) + 1
  BY <1>1, <1>2, <1>4, AppendKeeps DEF OrderInv, CommandTypes
<1>6. Increasing(executed)'
  BY <1>1, <1>2, <1>4, <1>5 DEF OrderInv, Increasing, ExecutedFirst
<1>7. ExecutedFirst'
  BY <1>1, <1>2, <1>4, <1>5 DEF OrderInv, ExecutedFirst, OnWire, Listen
<1>8. (Before(executed, outbound) /\ NumberedDone)'
  BY <1>1, <1>2, <1>4, <1>5 DEF OrderInv, Before, NumberedDone, NumberedWire
<1>9. QED
  BY <1>1, <1>2, <1>3, <1>5, <1>6, <1>7, <1>8 DEF OrderInv, CommandTypes, Increasing, Numbered

(* Every step keeps the order.                                             *)
LEMMA OrderStep == OrderInv /\ [Next]_vars => OrderInv'
<1>1. SUFFICES ASSUME OrderInv, [Next]_vars PROVE OrderInv'
  OBVIOUS
<1>2. CASE Dispatch \/ WriteFrame \/ Handshake \/ ServerListens \/ ServerExecutes
  BY <1>1, <1>2, OrderDispatch, OrderWrite, OrderHandshake, OrderListens, OrderExecutes
<1>3. CASE Connected \/ Break
  BY <1>1, <1>3, OrderEmptied DEF Connected, Break, deviceVars
<1>4. CASE Tick \/ ReadFrame \/ QueueUpdate \/ ReadEnds \/ Retry \/ ConnectFailed \/ Press \/ UNCHANGED vars
  <2>1. UNCHANGED commandVars
    BY <1>4 DEF Tick, ReadFrame, QueueUpdate, ReadEnds, Retry, ConnectFailed, Press, vars, commandVars,
                wireVars, deviceVars
  <2>2. QED
    BY <1>1, <2>1, OrderUnchanged
<1>5. CASE \E a \in Attrs : Change(a)
  <2>1. UNCHANGED commandVars
    BY <1>5 DEF Change, commandVars
  <2>2. QED
    BY <1>1, <2>1, OrderUnchanged
<1>6. QED
  BY <1>1, <1>2, <1>3, <1>4, <1>5 DEF Next, Transport

(* However often and wherever the connection breaks, a device executes the *)
(* commands in the order of their dispatch, none of them twice             *)
(* (run_connection).                                                       *)
THEOREM OrderCorrect == Spec => []CommandsInOrder
<1>1. OrderInv => CommandsInOrder
  BY DEF OrderInv, CommandsInOrder
<1>2. QED
  BY OrderInit, OrderStep, <1>1, PTL DEF Spec

-----------------------------------------------------------------------------
(* What becomes of a command *)

(* Only an intact connection carries anything, and only one that broke     *)
(* loses something.                                                        *)
WireInv ==
  /\ wire # "up" => toServer = <<>>
  /\ thread \in {"connect", "sleep"} => wire # "up"
  /\ thread \in {"handshake", "pump"} => wire # "none"
  /\ breaks \in Nat /\ (breaks = 0 => lost = {} /\ wire # "broken")

Everything == 1 .. issued = Held(outbound) \cup Held(toServer) \cup Held(executed) \cup lost

-----------------------------------------------------------------------------
(* Presses and values *)

(* What may follow what on the way from the device to the engine.          *)
Fresher(u, w) ==
  /\ u.attr = w.attr => u.value <= w.value
  /\ IsPress(u) /\ IsPress(w) => u.value < w.value

Ordered(s) == \A i, j \in DOMAIN s : i < j => Fresher(s[i], s[j])
Precedes(s, t) == \A i \in DOMAIN s, j \in DOMAIN t : Fresher(s[i], t[j])

(* Whatever is on its way was true when it was sent, and is news to the    *)
(* engine.                                                                 *)
Sent(u) ==
  /\ u.attr \in Attrs => u.value <= device[u.attr]
  /\ u.attr = "scene" => u.value \in 1 .. scene

News(u) ==
  /\ u.attr \in Attrs /\ seen[u.attr] # NONE => seen[u.attr] <= u.value
  /\ IsPress(u) => \A i \in DOMAIN acted : acted[i] < u.value

Fine(s) == Ordered(s) /\ \A i \in DOMAIN s : Sent(s[i]) /\ News(s[i])

Way ==
  /\ Fine(inbound) /\ Fine(parsed) /\ Precedes(inbound, parsed)
  /\ \A k \in DOMAIN fromServer : /\ Fine(fromServer[k])
                                  /\ Precedes(inbound, fromServer[k])
                                  /\ Precedes(parsed, fromServer[k])
  /\ \A k, l \in DOMAIN fromServer : k < l => Precedes(fromServer[k], fromServer[l])

(* The device counts on, and the engine knows nothing from the future.     *)
Past ==
  /\ changes \in Nat
  /\ \A a \in Attrs : /\ device[a] <= Len(executed) + changes
                      /\ seen[a] # NONE => seen[a] <= device[a]
  /\ \A i \in DOMAIN acted : acted[i] <= scene
  /\ Increasing(acted)

-----------------------------------------------------------------------------
(* Lemmas about the operators *)

LEMMA FunctionIsSeq ==
  ASSUME NEW S, NEW n \in Nat, NEW f \in [1 .. n -> S] PROVE f \in Seq(S) /\ Len(f) = n
BY SeqDef

(* The k-th press of a tick is one of its updates, the next one a later    *)
(* one: a finite set of places is counted by the number of those up to     *)
(* each.                                                                   *)
LEMMA PressesInOrder ==
  ASSUME NEW updates \in Seq(Update)
  PROVE  \E n \in Nat : \E place \in [1 .. n -> Nat] :
           /\ Presses(updates) = [k \in 1 .. n |-> updates[place[k]].value]
           /\ \A k \in 1 .. n : place[k] \in 1 .. Len(updates) /\ IsPress(updates[place[k]])
           /\ \A k, l \in 1 .. n : k < l => place[k] < place[l]
<1> DEFINE places == {i \in DOMAIN updates : IsPress(updates[i])}
           UpTo(i) == {j \in places : j <= i}
           n == Cardinality(places)
           rank == [i \in places |-> Cardinality(UpTo(i))]
           place == [k \in 1 .. n |-> CHOOSE i \in places : Cardinality(UpTo(i)) = k]
<1>1. DOMAIN updates = 1 .. Len(updates) /\ Len(updates) \in Nat
  BY LenProperties
<1>2. IsFiniteSet(places) /\ n \in Nat
  <2>1. IsFiniteSet(1 .. Len(updates))
    BY <1>1, FS_Interval
  <2>2. places \in SUBSET (1 .. Len(updates))
    BY <1>1
  <2>3. QED
    BY <2>1, <2>2, FS_Subset, FS_CardinalityType
<1>3. /\ places \subseteq 1 .. Len(updates) /\ places \subseteq Nat
      /\ \A i \in places : IsPress(updates[i])
  BY <1>1
<1>4. \A i \in places : IsFiniteSet(UpTo(i)) /\ Cardinality(UpTo(i)) \in Nat /\ UpTo(i) \subseteq places
  <2> HIDE DEF places
  <2>1. \A i \in places : UpTo(i) \in SUBSET places
    OBVIOUS
  <2>2. QED
    BY <1>2, <2>1, FS_Subset, FS_CardinalityType
<1>5. \A i \in places : rank[i] \in 1 .. n
  <2> HIDE DEF places
  <2> SUFFICES ASSUME NEW i \in places PROVE Cardinality(UpTo(i)) \in 1 .. n
    OBVIOUS
  <2>1. i \in UpTo(i)
    BY <1>3
  <2>2. Cardinality(UpTo(i)) # 0
    BY <1>4, <2>1, FS_EmptySet
  <2>3. Cardinality(UpTo(i)) <= n
    BY <1>2, <1>4, FS_Subset
  <2> HIDE DEF UpTo, n
  <2>4. QED
    BY <1>2, <1>4, <2>2, <2>3
<1>6. \A i, j \in places : i < j => Cardinality(UpTo(i)) < Cardinality(UpTo(j))
  <2> HIDE DEF places
  <2> SUFFICES ASSUME NEW i \in places, NEW j \in places, i < j
               PROVE  Cardinality(UpTo(i)) < Cardinality(UpTo(j))
    OBVIOUS
  <2>1. UpTo(i) \subseteq UpTo(j)
    <3>1. ASSUME NEW k \in places, k <= i PROVE k <= j
      <4>1. i \in Nat /\ j \in Nat /\ k \in Nat
        BY <1>3
      <4>2. QED
        BY <3>1, <4>1
    <3>2. QED
      BY <3>1
  <2>2. j \in UpTo(j) /\ j \notin UpTo(i)
    <3>1. i \in Nat /\ j \in Nat
      BY <1>3
    <3>2. QED
      BY <3>1
  <2>3. UpTo(i) # UpTo(j)
    BY <2>2
  <2> HIDE DEF UpTo
  <2>4. QED
    BY <1>4, <2>1, <2>3, FS_Subset
<1>7. rank \in Surjection(places, 1 .. n)
  <2> HIDE DEF places
  <2>1. rank \in Injection(places, 1 .. n)
    <3>1. \A i, j \in places : i # j => rank[i] # rank[j]
      <4> HIDE DEF UpTo
      <4>1. \A i, j \in places : i # j => i < j \/ j < i
        BY <1>3
      <4>2. QED
        BY <1>4, <1>6, <4>1
    <3>2. rank \in [places -> 1 .. n]
      BY <1>5
    <3>3. QED
      BY <3>1, <3>2 DEF Injection, IsInjective
  <2>2. IsFiniteSet(1 .. n) /\ Cardinality(1 .. n) = n
    BY <1>2, FS_Interval
  <2>3. QED
    BY <2>1, <2>2, FS_Injection
<1>8. \A k \in 1 .. n : place[k] \in places /\ Cardinality(UpTo(place[k])) = k
  <2> SUFFICES ASSUME NEW k \in 1 .. n PROVE place[k] \in places /\ Cardinality(UpTo(place[k])) = k
    OBVIOUS
  <2> HIDE DEF places
  <2>1. \E i \in places : Cardinality(UpTo(i)) = k
    BY <1>7 DEF Surjection
  <2> HIDE DEF UpTo
  <2>2. QED
    BY <2>1
<1>9. \A k, l \in 1 .. n : k < l => place[k] < place[l]
  <2> SUFFICES ASSUME NEW k \in 1 .. n, NEW l \in 1 .. n, k < l PROVE place[k] < place[l]
    OBVIOUS
  <2> HIDE DEF places, place, UpTo
  <2>1. /\ place[k] \in places /\ Cardinality(UpTo(place[k])) = k
        /\ place[l] \in places /\ Cardinality(UpTo(place[l])) = l
    BY <1>8
  <2>2. place[k] \in Nat /\ place[l] \in Nat
    BY <1>3, <2>1
  <2>3. place[k] # place[l] /\ ~(place[l] < place[k])
    BY <1>2, <1>6, <2>1
  <2>4. QED
    BY <2>2, <2>3
<1>10. place \in [1 .. n -> Nat]
  <2> HIDE DEF places, UpTo
  <2>1. \A k \in 1 .. n : place[k] \in Nat
    BY <1>3, <1>8
  <2>2. QED
    BY <2>1
<1>11. Presses(updates) = [k \in 1 .. n |-> updates[place[k]].value]
  BY DEF Presses
<1> HIDE DEF places, place, n
<1>12. QED
  BY <1>2, <1>3, <1>8, <1>9, <1>10, <1>11

LEMMA PressesType ==
  ASSUME NEW updates \in Seq(Update), NEW S \in SUBSET Nat,
         \A i \in 1 .. Len(updates) : IsPress(updates[i]) => updates[i].value \in S
  PROVE  Presses(updates) \in Seq(S)
<1>1. PICK n \in Nat : \E place \in [1 .. n -> Nat] :
           /\ Presses(updates) = [k \in 1 .. n |-> updates[place[k]].value]
           /\ \A k \in 1 .. n : place[k] \in 1 .. Len(updates) /\ IsPress(updates[place[k]])
           /\ \A k, l \in 1 .. n : k < l => place[k] < place[l]
  BY PressesInOrder
<1>2. PICK place \in [1 .. n -> Nat] :
           /\ Presses(updates) = [k \in 1 .. n |-> updates[place[k]].value]
           /\ \A k \in 1 .. n : place[k] \in 1 .. Len(updates) /\ IsPress(updates[place[k]])
           /\ \A k, l \in 1 .. n : k < l => place[k] < place[l]
  BY <1>1
<1>3. Presses(updates) \in [1 .. n -> S]
  BY <1>2
<1>4. QED
  BY <1>3, FunctionIsSeq

LEMMA LastOfUnique ==
  ASSUME NEW a, NEW updates \in Seq(Update)
  PROVE  /\ LastOf(a, updates) \subseteq 1 .. Len(updates)
         /\ \A i, j \in LastOf(a, updates) : i = j
<1>1. DOMAIN updates = 1 .. Len(updates) /\ Len(updates) \in Nat
  BY LenProperties
<1>2. QED
  BY <1>1 DEF LastOf

(* An attribute is folded to one of the values reported of it, or kept.    *)
LEMMA FoldedCases ==
  ASSUME NEW from \in Seen, NEW updates \in Seq(Update), NEW a \in Attrs
  PROVE  \/ Folded(from, updates)[a] = from[a] /\ LastOf(a, updates) = {}
         \/ \E i \in 1 .. Len(updates) : /\ updates[i].attr = a
                                       /\ Folded(from, updates)[a] = updates[i].value
<1>1. CASE LastOf(a, updates) = {}
  BY <1>1 DEF Folded
<1>2. CASE LastOf(a, updates) # {}
  <2>1. PICK i \in LastOf(a, updates) : i = CHOOSE j \in LastOf(a, updates) : TRUE
    BY <1>2
  <2>2. Folded(from, updates)[a] = updates[i].value
    BY <1>2, <2>1 DEF Folded
  <2>3. i \in 1 .. Len(updates) /\ updates[i].attr = a
    BY LastOfUnique DEF LastOf
  <2>4. QED
    BY <2>2, <2>3
<1>3. QED
  BY <1>1, <1>2

LEMMA FoldedType ==
  ASSUME NEW from \in Seen, NEW updates \in Seq(Update) PROVE Folded(from, updates) \in Seen
<1>1. \A i \in 1 .. Len(updates) : updates[i].value \in Nat
  <2>1. \A i \in 1 .. Len(updates) : updates[i] \in Update
    BY ElementOfSeq
  <2>2. QED
    BY <2>1 DEF Update
<1>2. ASSUME NEW a \in Attrs PROVE Folded(from, updates)[a] \in Nat \cup {NONE}
  <2>1. from[a] \in Nat \cup {NONE}
    BY DEF Seen
  <2>2. QED
    BY <1>1, <2>1, FoldedCases
<1>3. QED
  BY <1>2 DEF Folded, Seen

(* Every finite set of attributes is listed in some order.                 *)
LEMMA ListedType ==
  ASSUME NEW S \in SUBSET Attrs
  PROVE  Listed(S) \in [1 .. Cardinality(S) -> S] /\ Cardinality(S) \in Nat
<1>1. IsFiniteSet(S)
  BY BridgeAssumption, FS_Subset
<1>2. Cardinality(S) \in Nat /\ ExistsBijection(1 .. Cardinality(S), S)
  BY <1>1, FS_CardinalityType
<1>3. \E s \in [1 .. Cardinality(S) -> S] : \A a \in S : \E i \in DOMAIN s : s[i] = a
  BY <1>2 DEF ExistsBijection, Bijection, Surjection
<1>4. QED
  BY <1>2, <1>3 DEF Listed

LEMMA ValueType == \A a \in Attrs, v \in Nat : Value(a, v) \in Update /\ ~IsPress(Value(a, v))
BY BridgeAssumption DEF Value, Update, IsPress

(* Each change is reported in a frame of its own ...                       *)
LEMMA ChangesType ==
  ASSUME NEW S \in SUBSET Attrs, NEW v \in Nat
  PROVE  LET reports == [i \in DOMAIN Listed(S) |-> << Value(Listed(S)[i], v) >>]
         IN  /\ reports \in Seq(Seq(Update))
             /\ \A k \in 1 .. Len(reports) : \E a \in S : reports[k] = << Value(a, v) >>
<1> DEFINE reports == [i \in DOMAIN Listed(S) |-> << Value(Listed(S)[i], v) >>]
<1>1. DOMAIN Listed(S) = 1 .. Cardinality(S) /\ Cardinality(S) \in Nat
  BY ListedType
<1>2. \A i \in 1 .. Cardinality(S) : Listed(S)[i] \in S
  BY ListedType
<1>3. \A a \in S : << Value(a, v) >> \in Seq(Update)
  BY ValueType
<1>4. reports \in [1 .. Cardinality(S) -> Seq(Update)]
  BY <1>1, <1>2, <1>3
<1>5. \A k \in 1 .. Cardinality(S) : \E a \in S : reports[k] = << Value(a, v) >>
  BY <1>1, <1>2
<1> HIDE DEF reports
<1>6. reports \in Seq(Seq(Update)) /\ Len(reports) = Cardinality(S)
  BY <1>1, <1>4, FunctionIsSeq
<1>7. QED
  BY <1>5, <1>6 DEF reports

(* ... and the snapshot in one: what the device is now, and the last press *)
(* as something that is no news.                                           *)
Said(u) ==
  \/ u.attr \in Attrs /\ u = Value(u.attr, device[u.attr])
  \/ scene # 0 /\ u = Value("scene", scene)

LEMMA SnapshotType ==
  ASSUME device \in [Attrs -> Nat], scene \in Nat
  PROVE  Snapshot \in Seq(Update) /\ \A i \in 1 .. Len(Snapshot) : Said(Snapshot[i])
<1> DEFINE values == [i \in DOMAIN Listed(Attrs) |-> Value(Listed(Attrs)[i], device[Listed(Attrs)[i]])]
           press  == IF scene = 0 THEN <<>> ELSE << Value("scene", scene) >>
           Told == {u \in Update : Said(u)}
<1>1. DOMAIN Listed(Attrs) = 1 .. Cardinality(Attrs) /\ Cardinality(Attrs) \in Nat
  BY ListedType
<1>2. \A i \in 1 .. Cardinality(Attrs) : Listed(Attrs)[i] \in Attrs
  BY ListedType
<1>3. \A a \in Attrs : Value(a, device[a]) \in Told
  BY ValueType DEF Said, Value
<1>4. values \in [1 .. Cardinality(Attrs) -> Told]
  BY <1>1, <1>2, <1>3
<1>5. values \in Seq(Told)
  <2> HIDE DEF values, Told
  <2>1. QED
    BY <1>1, <1>4, FunctionIsSeq
<1>6. press \in Seq(Told)
  <2>1. scene # 0 => Value("scene", scene) \in Told
    BY DEF Said, Value, Update
  <2> HIDE DEF Told
  <2>2. QED
    BY <2>1
<1>7. Snapshot = values \o press
  BY DEF Snapshot
<1> HIDE DEF values, press
<1>8. Snapshot \in Seq(Told)
  <2> HIDE DEF Told
  <2>1. QED
    BY <1>5, <1>6, <1>7, ConcatProperties
<1>9. Told \subseteq Update
  OBVIOUS
<1>10. Snapshot \in Seq(Update)
  BY <1>8, <1>9, SeqMonotonic
<1>11. \A i \in 1 .. Len(Snapshot) : Snapshot[i] \in Told
  BY <1>8, ElementOfSeq
<1>12. QED
  BY <1>10, <1>11

-----------------------------------------------------------------------------
(* Types *)

LEMMA QueueShifts ==
  ASSUME NEW S, NEW s \in Seq(S), s # <<>>
  PROVE  /\ Head(s) \in S /\ Head(s) = s[1] /\ Len(s) \in Nat /\ Len(s) > 0
         /\ Tail(s) \in Seq(S) /\ Len(Tail(s)) = Len(s) - 1
         /\ \A i \in 1 .. Len(Tail(s)) : i + 1 \in 1 .. Len(s) /\ Tail(s)[i] = s[i + 1]
<1>1. Len(s) \in Nat \ {0}
  BY EmptySeq
<1>2. QED
  BY <1>1, HeadTailProperties

LEMMA EmptyQueues == <<>> \in Seq(Update) /\ <<>> \in Seq(Seq(Update)) /\ \A S : <<>> \in Seq(S)
OBVIOUS

LEMMA ReportsType ==
  ASSUME fromServer \in Seq(Seq(Update)), NEW updates \in Seq(Seq(Update))
  PROVE  Reports(updates) \in Seq(Seq(Update))
BY ConcatProperties DEF Reports

(* What the steps of the transport and of the server leave alone.          *)
commandTypes == <<issued, outbound, toServer, executed, lost>>
updateTypes == <<inbound, parsed, fromServer, seen, store, acted, device, scene>>

CommandsTyped ==
  /\ issued \in Nat /\ outbound \in Seq(1 .. issued) /\ toServer \in Seq(0 .. issued)
  /\ executed \in Seq(1 .. issued) /\ lost \subseteq 1 .. issued

UpdatesTyped ==
  /\ inbound \in Seq(Update) /\ parsed \in Seq(Update) /\ fromServer \in Seq(Seq(Update))
  /\ seen \in Seen /\ (store = NONE \/ store \in [Attrs -> Nat])
  /\ acted \in Seq(1 .. scene)
  /\ device \in [Attrs -> Nat] /\ scene \in Nat

ControlTyped ==
  /\ thread \in {"connect", "handshake", "pump", "sleep"}
  /\ wire \in {"none", "up", "broken"} /\ listening \in BOOLEAN
  /\ changes \in Nat /\ breaks \in Nat

LEMMA TypeOKParts == TypeOK <=> CommandsTyped /\ UpdatesTyped /\ ControlTyped
BY DEF TypeOK, CommandsTyped, UpdatesTyped, ControlTyped

LEMMA BridgeTypesInit == Init => TypeOK
<1> SUFFICES ASSUME Init PROVE TypeOK
  OBVIOUS
<1>1. CommandsTyped
  BY EmptyQueues DEF Init, CommandsTyped
<1>2. UpdatesTyped
  <2>1. acted = <<>> /\ inbound = <<>> /\ parsed = <<>> /\ fromServer = <<>>
    BY DEF Init
  <2>2. /\ acted \in Seq(1 .. scene) /\ inbound \in Seq(Update) /\ parsed \in Seq(Update)
        /\ fromServer \in Seq(Seq(Update))
    BY <2>1, EmptyQueues
  <2>3. QED
    BY <2>2 DEF Init, UpdatesTyped, Seen
<1>3. ControlTyped
  BY DEF Init, ControlTyped
<1>4. QED
  BY <1>1, <1>2, <1>3, TypeOKParts

LEMMA CommandsTypedStep == ASSUME CommandsTyped, [Next]_vars PROVE CommandsTyped'
<1> USE DEF CommandsTyped
<1>1. CASE UNCHANGED commandTypes
  BY <1>1 DEF commandTypes
<1>2. CASE Dispatch
  <2>1. /\ issued' = issued + 1 /\ outbound' = Append(outbound, issued + 1)
        /\ UNCHANGED <<toServer, executed, lost>>
    BY <1>2 DEF Dispatch, wireVars, deviceVars
  <2>2. 1 .. issued \subseteq 1 .. issued' /\ 0 .. issued \subseteq 0 .. issued' /\ issued' \in Nat
    BY <2>1
  <2>3. toServer \in Seq(0 .. issued') /\ executed \in Seq(1 .. issued') /\ outbound \in Seq(1 .. issued')
    BY <2>2, SeqMonotonic
  <2>4. outbound' \in Seq(1 .. issued')
    BY <2>1, <2>2, <2>3, AppendProperties
  <2>5. QED
    BY <2>1, <2>2, <2>3, <2>4
<1>3. CASE WriteFrame
  <2>1. /\ Head(outbound) \in 1 .. issued /\ outbound' \in Seq(1 .. issued)
        /\ UNCHANGED <<issued, executed>>
    BY <1>3, QueueShifts DEF WriteFrame, deviceVars
  <2>2. CASE wire = "up"
    <3>1. Head(outbound) \in 0 .. issued
      BY <2>1
    <3>2. Append(toServer, Head(outbound)) \in Seq(0 .. issued)
      BY <3>1, AppendProperties
    <3>3. QED
      BY <1>3, <2>1, <2>2, <3>2 DEF WriteFrame
  <2>3. CASE wire # "up"
    BY <1>3, <2>1, <2>3 DEF WriteFrame
  <2>4. QED
    BY <2>2, <2>3
<1>4. CASE Handshake
  <2>1. Listen \in 0 .. issued
    BY DEF Listen
  <2>2. UNCHANGED <<issued, outbound, executed, lost>>
    BY <1>4 DEF Handshake, deviceVars
  <2>3. toServer' = toServer \/ toServer' = Append(toServer, Listen)
    BY <1>4 DEF Handshake
  <2>4. Append(toServer, Listen) \in Seq(0 .. issued)
    BY <2>1, AppendProperties
  <2>5. QED
    BY <2>2, <2>3, <2>4
<1>5. CASE Connected
  BY <1>5, EmptyQueues DEF Connected, deviceVars
<1>6. CASE Break
  <2>1. \A i \in DOMAIN toServer : toServer[i] \in 0 .. issued
    BY LenProperties, ElementOfSeq
  <2>2. lost' \subseteq 1 .. issued
    <3>1. lost' = lost \cup ({toServer[i] : i \in DOMAIN toServer} \ {0})
      BY <1>6 DEF Break, Listen
    <3>2. \A i \in DOMAIN toServer : toServer[i] # 0 => toServer[i] \in 1 .. issued
      BY <2>1
    <3>3. QED
      BY <3>1, <3>2
  <2>3. QED
    BY <1>6, <2>2, EmptyQueues DEF Break, deviceVars
<1>7. CASE ServerListens
  BY <1>7, QueueShifts DEF ServerListens, deviceVars
<1>8. CASE ServerExecutes
  <2>1. Head(toServer) \in 1 .. issued /\ toServer' \in Seq(0 .. issued)
    <3>1. Head(toServer) \in 0 .. issued /\ Head(toServer) # 0
      BY <1>8, QueueShifts DEF ServerExecutes, Listen
    <3>2. QED
      BY <1>8, <3>1, QueueShifts DEF ServerExecutes
  <2>2. executed' \in Seq(1 .. issued)
    BY <1>8, <2>1, AppendProperties DEF ServerExecutes
  <2>3. QED
    BY <1>8, <2>1, <2>2 DEF ServerExecutes
<1>9. CASE \/ Tick \/ ReadFrame \/ QueueUpdate \/ ReadEnds \/ Retry \/ ConnectFailed \/ Press
          \/ UNCHANGED vars \/ \E a \in Attrs : Change(a)
  BY <1>1, <1>9 DEF Tick, ReadFrame, QueueUpdate, ReadEnds, Retry, ConnectFailed, Press, Change, vars,
     wireVars, deviceVars, commandTypes
<1>10. QED
  BY <1>2, <1>3, <1>4, <1>5, <1>6, <1>7, <1>8, <1>9 DEF Next, Transport

LEMMA BecomesType ==
  ASSUME UpdatesTyped, NEW S \in SUBSET Attrs, NEW v \in Nat, Becomes(S, v)
  PROVE  device' \in [Attrs -> Nat] /\ fromServer' \in Seq(Seq(Update))
<1>1. device' \in [Attrs -> Nat]
  BY DEF Becomes, UpdatesTyped
<1>2. [i \in DOMAIN Listed(S) |-> << Value(Listed(S)[i], v) >>] \in Seq(Seq(Update))
  BY ChangesType
<1>3. QED
  BY <1>1, <1>2, ReportsType DEF Becomes, UpdatesTyped

LEMMA UpdatesTypedStep ==
  ASSUME TypeOK, Way, [Next]_vars PROVE UpdatesTyped'
<1> USE DEF UpdatesTyped
<1>0. UpdatesTyped /\ changes \in Nat /\ Len(executed) \in Nat
  BY TypeOKParts, LenProperties DEF TypeOK
<1>1. CASE UNCHANGED updateTypes
  BY <1>0, <1>1 DEF updateTypes
<1>2. CASE Tick
  <2>1. seen' \in Seen
    BY <1>0, <1>2, FoldedType DEF Tick
  <2>2. store' = NONE \/ store' \in [Attrs -> Nat]
    BY <1>0, <1>2, <2>1 DEF Tick, Complete, Seen
  <2>3. acted' \in Seq(1 .. scene)
    <3>1. \A i \in 1 .. Len(inbound) : IsPress(inbound[i]) => inbound[i].value \in 1 .. scene
      BY <1>0, LenProperties DEF Way, Fine, Sent, IsPress
    <3>2. 1 .. scene \in SUBSET Nat
      BY <1>0
    <3>3. Presses(inbound) \in Seq(1 .. scene)
      BY <1>0, <3>1, <3>2, PressesType
    <3>4. QED
      BY <1>0, <1>2, <3>3, ConcatProperties DEF Tick
  <2>4. QED
    BY <1>0, <1>2, <2>1, <2>2, <2>3, EmptyQueues DEF Tick, wireVars, deviceVars
<1>3. CASE Connected \/ Retry
  BY <1>0, <1>3, EmptyQueues DEF Connected, Retry, adapterVars, deviceVars
<1>4. CASE ReadFrame
  BY <1>0, <1>4, QueueShifts DEF ReadFrame, adapterVars, deviceVars
<1>5. CASE QueueUpdate
  <2>1. Head(parsed) \in Update /\ Tail(parsed) \in Seq(Update)
    BY <1>0, <1>5, QueueShifts DEF QueueUpdate
  <2>2. Append(inbound, Head(parsed)) \in Seq(Update)
    BY <1>0, <2>1, AppendProperties
  <2>3. QED
    BY <1>0, <1>5, <2>1, <2>2 DEF QueueUpdate, adapterVars, wireVars, deviceVars
<1>6. CASE Break
  <2>1. PICK n \in 0 .. Len(fromServer) : fromServer' = SubSeq(fromServer, 1, n)
    BY <1>6 DEF Break
  <2>2. \A i \in 1 .. n : fromServer[i] \in Seq(Update)
    BY <1>0, <2>1, LenProperties, ElementOfSeq
  <2>3. n \in Int
    BY <1>0, <2>1, LenProperties
  <2>4. fromServer' \in Seq(Seq(Update))
    BY <2>1, <2>2, <2>3, SubSeqProperties
  <2>5. QED
    BY <1>0, <1>6, <2>4 DEF Break, adapterVars, deviceVars
<1>7. CASE ServerListens
  <2>1. fromServer' \in Seq(Seq(Update))
    BY <1>0, <1>7, SnapshotType, AppendProperties DEF ServerListens
  <2>2. QED
    BY <1>0, <1>7, <2>1 DEF ServerListens, adapterVars, deviceVars
<1>8. CASE ServerExecutes
  <2>1. Len(executed') + changes \in Nat
    <3>1. executed' \in Seq(1 .. issued')
      BY CommandsTypedStep, TypeOKParts DEF CommandsTyped
    <3>2. QED
      BY <1>0, <3>1, LenProperties
  <2>2. device' \in [Attrs -> Nat] /\ fromServer' \in Seq(Seq(Update))
    BY <1>0, <1>8, <2>1, BecomesType DEF ServerExecutes
  <2>3. QED
    BY <1>0, <1>8, <2>2 DEF ServerExecutes, adapterVars
<1>9. ASSUME NEW a \in Attrs, Change(a) PROVE UpdatesTyped'
  <2>1. Len(executed) + changes' \in Nat
    BY <1>0, <1>9 DEF Change
  <2>2. device' \in [Attrs -> Nat] /\ fromServer' \in Seq(Seq(Update))
    BY <1>0, <1>9, <2>1, BecomesType DEF Change
  <2>3. QED
    BY <1>0, <1>9, <2>2 DEF Change, adapterVars
<1>10. CASE Press
  <2>1. << << [attr |-> "scene", value |-> scene', notification |-> TRUE] >> >> \in Seq(Seq(Update))
    BY <1>0, <1>10 DEF Press, Update
  <2>2. fromServer' \in Seq(Seq(Update))
    BY <1>0, <1>10, <2>1, ReportsType DEF Press
  <2>3. 1 .. scene \subseteq 1 .. scene' /\ scene' \in Nat
    BY <1>0, <1>10 DEF Press
  <2>4. acted \in Seq(1 .. scene')
    BY <1>0, <2>3, SeqMonotonic
  <2>5. QED
    BY <1>0, <1>10, <2>2, <2>3, <2>4 DEF Press, adapterVars
<1>11. CASE \/ Dispatch \/ Handshake \/ ReadEnds \/ WriteFrame \/ ConnectFailed \/ UNCHANGED vars
  BY <1>1, <1>11 DEF Dispatch, Handshake, ReadEnds, WriteFrame, ConnectFailed, vars, adapterVars, wireVars,
     deviceVars, updateTypes
<1>12. QED
  BY <1>2, <1>3, <1>4, <1>5, <1>6, <1>7, <1>8, <1>9, <1>10, <1>11 DEF Next, Transport

LEMMA ControlTypedStep ==
  ASSUME ControlTyped, [Next]_vars PROVE ControlTyped'
<1> USE DEF ControlTyped, adapterVars, wireVars, deviceVars
<1>1. CASE Dispatch \/ Tick \/ Connected \/ ConnectFailed \/ UNCHANGED vars
  <2>1. thread' = thread \/ thread' \in {"handshake", "sleep"}
    BY <1>1 DEF Dispatch, Tick, Connected, ConnectFailed, vars
  <2>2. (wire' = wire \/ wire' = "up") /\ listening' \in BOOLEAN
    BY <1>1 DEF Dispatch, Tick, Connected, ConnectFailed, vars
  <2>3. changes' = changes /\ (breaks' = breaks \/ breaks' = breaks + 1)
    BY <1>1 DEF Dispatch, Tick, Connected, ConnectFailed, vars
  <2>4. QED
    BY <2>1, <2>2, <2>3
<1>2. CASE Handshake
  <2>1. thread' \in {"pump", "sleep"} /\ UNCHANGED <<wire, listening, changes, breaks>>
    BY <1>2 DEF Handshake
  <2>2. QED
    BY <2>1
<1>3. CASE ReadFrame \/ QueueUpdate \/ ReadEnds \/ Retry
  BY <1>3 DEF ReadFrame, QueueUpdate, ReadEnds, Retry
<1>4. CASE WriteFrame
  <2>1. thread' = thread \/ thread' \in {"pump", "sleep"}
    BY <1>4 DEF WriteFrame
  <2>2. UNCHANGED <<wire, listening, changes, breaks>>
    BY <1>4 DEF WriteFrame
  <2>3. QED
    BY <2>1, <2>2
<1>5. CASE Break \/ ServerListens \/ ServerExecutes \/ Press
  <2>1. UNCHANGED <<thread, changes>> /\ (breaks' = breaks \/ breaks' = breaks + 1)
    BY <1>5 DEF Break, ServerListens, ServerExecutes, Press
  <2>2. (wire' = wire \/ wire' = "broken") /\ (listening' = listening \/ listening' \in BOOLEAN)
    BY <1>5 DEF Break, ServerListens, ServerExecutes, Press
  <2>3. QED
    BY <2>1, <2>2
<1>6. CASE \E a \in Attrs : Change(a)
  BY <1>6 DEF Change
<1>7. QED
  BY <1>1, <1>2, <1>3, <1>4, <1>5, <1>6 DEF Next, Transport

-----------------------------------------------------------------------------
(* Commands accounted for *)

LEMMA WireInit == Init => WireInv
BY DEF Init, WireInv

LEMMA WireStep == ASSUME TypeOK, WireInv, [Next]_vars PROVE WireInv'
<1> USE DEF WireInv, wireVars, deviceVars
<1>1. CASE Dispatch \/ Tick \/ Press \/ QueueUpdate \/ ReadFrame \/ (\E a \in Attrs : Change(a))
          \/ UNCHANGED vars
  <2>1. UNCHANGED <<thread, wire, toServer, breaks, lost>>
    BY <1>1 DEF Dispatch, Tick, Press, QueueUpdate, ReadFrame, Change, vars
  <2>2. QED
    BY <2>1
<1>2. CASE Connected
  BY <1>2 DEF Connected
<1>3. CASE ConnectFailed
  BY <1>3 DEF ConnectFailed
<1>4. CASE Handshake
  BY <1>4 DEF Handshake
<1>5. CASE ReadEnds
  BY <1>5 DEF ReadEnds, Pumping
<1>6. CASE WriteFrame
  <2>1. wire = "up" \/ wire = "broken"
    BY <1>6 DEF WriteFrame, Pumping, TypeOK
  <2>2. CASE wire = "up"
    BY <1>6, <2>2 DEF WriteFrame, Pumping
  <2>3. CASE wire = "broken"
    BY <1>6, <2>3 DEF WriteFrame, Pumping
  <2>4. QED
    BY <2>1, <2>2, <2>3
<1>7. CASE Retry
  BY <1>7 DEF Retry
<1>8. CASE Break
  BY <1>8 DEF Break
<1>9. CASE ServerListens \/ ServerExecutes
  BY <1>9 DEF ServerListens, ServerExecutes
<1>10. QED
  BY <1>1, <1>2, <1>3, <1>4, <1>5, <1>6, <1>7, <1>8, <1>9 DEF Next, Transport

LEMMA HeldAppend ==
  ASSUME NEW s \in Seq(Nat), NEW x \in Nat PROVE Held(Append(s, x)) = Held(s) \cup ({x} \ {Listen})
<1>1. /\ DOMAIN Append(s, x) = 1 .. Len(s) + 1 /\ DOMAIN s = 1 .. Len(s) /\ Len(s) \in Nat
      /\ \A i \in 1 .. Len(s) : Append(s, x)[i] = s[i]
      /\ Append(s, x)[Len(s) + 1] = x
  BY AppendProperties, LenProperties
<1>2. QED
  BY <1>1 DEF Held

LEMMA HeldTail ==
  ASSUME NEW s \in Seq(Nat), s # <<>> PROVE Held(s) = Held(Tail(s)) \cup ({Head(s)} \ {Listen})
<1>1. /\ DOMAIN Tail(s) = 1 .. Len(s) - 1 /\ DOMAIN s = 1 .. Len(s) /\ Len(s) \in Nat /\ Len(s) > 0
      /\ \A i \in 1 .. Len(s) - 1 : Tail(s)[i] = s[i + 1]
      /\ Head(s) = s[1]
  BY QueueShifts, LenProperties
<1>2. \A i \in 1 .. Len(s) : i = 1 \/ (i - 1 \in 1 .. Len(s) - 1 /\ s[i] = Tail(s)[i - 1])
  BY <1>1
<1>3. \A i \in 1 .. Len(s) - 1 : i + 1 \in 1 .. Len(s) /\ Tail(s)[i] = s[i + 1]
  BY <1>1
<1>4. 1 \in 1 .. Len(s)
  BY <1>1
<1>5. ASSUME NEW x \in Held(s) PROVE x \in Held(Tail(s)) \cup ({Head(s)} \ {Listen})
  <2>1. PICK i \in 1 .. Len(s) : x = s[i] /\ x # Listen
    BY <1>1, <1>5 DEF Held
  <2>2. CASE i = 1
    BY <1>1, <2>1, <2>2
  <2>3. CASE i # 1
    <3>1. i - 1 \in DOMAIN Tail(s) /\ x = Tail(s)[i - 1]
      BY <1>1, <1>2, <2>1, <2>3
    <3>2. QED
      BY <2>1, <3>1 DEF Held
  <2>4. QED
    BY <2>2, <2>3
<1>6. ASSUME NEW x \in Held(Tail(s)) \cup ({Head(s)} \ {Listen}) PROVE x \in Held(s)
  BY <1>1, <1>3, <1>4 DEF Held
<1>7. QED
  BY <1>5, <1>6

LEMMA EverythingStep ==
  ASSUME TypeOK, WireInv, Everything, [Next]_vars PROVE Everything'
<1> USE DEF Everything
<1>0. CommandsTyped /\ outbound \in Seq(Nat) /\ toServer \in Seq(Nat) /\ executed \in Seq(Nat)
  <2>1. CommandsTyped
    BY TypeOKParts
  <2>2. 1 .. issued \subseteq Nat /\ 0 .. issued \subseteq Nat
    BY <2>1 DEF CommandsTyped
  <2>3. QED
    BY <2>1, <2>2, SeqMonotonic DEF CommandsTyped
<1>1. CASE UNCHANGED commandTypes
  BY <1>1 DEF commandTypes, Held
<1>2. CASE Dispatch
  <2>1. Held(outbound') = Held(outbound) \cup {issued + 1}
    <3>1. issued + 1 \in Nat
      BY <1>0 DEF CommandsTyped
    <3>2. outbound' = Append(outbound, issued + 1)
      BY <1>2 DEF Dispatch
    <3>3. issued + 1 # Listen
      BY <1>0 DEF CommandsTyped, Listen
    <3>4. QED
      BY <1>0, <3>1, <3>2, <3>3, HeldAppend
  <2>2. 1 .. issued' = 1 .. issued \cup {issued + 1}
    BY <1>0, <1>2 DEF Dispatch, CommandsTyped
  <2>3. UNCHANGED <<toServer, executed, lost>>
    BY <1>2 DEF Dispatch, wireVars, deviceVars
  <2>4. QED
    BY <2>1, <2>2, <2>3
<1>3. CASE WriteFrame
  <2>1. outbound # <<>> /\ outbound' = Tail(outbound) /\ UNCHANGED <<issued, executed>>
    BY <1>3 DEF WriteFrame, deviceVars
  <2>2. /\ Held(outbound) = Held(Tail(outbound)) \cup ({Head(outbound)} \ {Listen})
        /\ Head(outbound) \in 1 .. issued /\ Head(outbound) \in Nat
    BY <1>0, <2>1, HeldTail, QueueShifts DEF CommandsTyped
  <2>3. Head(outbound) # Listen
    BY <2>2 DEF Listen
  <2>4. CASE wire = "up"
    <3>1. toServer' = Append(toServer, Head(outbound)) /\ lost' = lost
      BY <1>3, <2>4 DEF WriteFrame
    <3>2. Held(toServer') = Held(toServer) \cup ({Head(outbound)} \ {Listen})
      BY <1>0, <2>2, <3>1, HeldAppend
    <3>3. QED
      BY <2>1, <2>2, <3>1, <3>2
  <2>5. CASE wire # "up"
    <3>1. toServer' = toServer /\ lost' = lost \cup {Head(outbound)}
      BY <1>3, <2>5 DEF WriteFrame
    <3>2. QED
      BY <2>1, <2>2, <2>3, <3>1
  <2>6. QED
    BY <2>4, <2>5
<1>4. CASE Handshake
  <2>1. UNCHANGED <<issued, outbound, executed, lost>>
    BY <1>4 DEF Handshake, deviceVars
  <2>2. Held(toServer') = Held(toServer)
    <3>1. toServer' = toServer \/ toServer' = Append(toServer, Listen)
      BY <1>4 DEF Handshake
    <3>2. Listen \in Nat
      BY DEF Listen
    <3>3. Held(Append(toServer, Listen)) = Held(toServer) \cup ({Listen} \ {Listen})
      BY <1>0, <3>2, HeldAppend
    <3>4. QED
      BY <3>1, <3>3
  <2>3. QED
    BY <2>1, <2>2
<1>5. CASE Connected
  <2>1. toServer = <<>> /\ toServer' = <<>> /\ UNCHANGED <<issued, outbound, executed, lost>>
    BY <1>5 DEF Connected, WireInv, deviceVars
  <2>2. QED
    BY <2>1
<1>6. CASE Break
  <2>1. lost' = lost \cup Held(toServer) /\ toServer' = <<>> /\ UNCHANGED <<issued, outbound, executed>>
    BY <1>6 DEF Break, Held, deviceVars
  <2>2. Held(toServer') = {}
    BY <2>1 DEF Held
  <2>3. QED
    BY <2>1, <2>2
<1>7. CASE ServerListens
  <2>1. /\ toServer # <<>> /\ Head(toServer) = Listen /\ toServer' = Tail(toServer)
        /\ UNCHANGED <<issued, outbound, executed, lost>>
    BY <1>7 DEF ServerListens, deviceVars
  <2>2. Held(toServer) = Held(toServer')
    <3>1. Held(toServer) = Held(Tail(toServer)) \cup ({Head(toServer)} \ {Listen})
      BY <1>0, <2>1, HeldTail
    <3>2. {Head(toServer)} \ {Listen} = {}
      BY <2>1
    <3>3. QED
      BY <2>1, <3>1, <3>2
  <2>3. QED
    BY <2>1, <2>2
<1>8. CASE ServerExecutes
  <2>1. /\ toServer # <<>> /\ Head(toServer) # Listen /\ toServer' = Tail(toServer)
        /\ executed' = Append(executed, Head(toServer))
        /\ UNCHANGED <<issued, outbound, lost>>
    BY <1>8 DEF ServerExecutes
  <2>2. Held(toServer) = Held(toServer') \cup ({Head(toServer)} \ {Listen}) /\ Head(toServer) \in Nat
    BY <1>0, <2>1, HeldTail, QueueShifts
  <2>3. Held(executed') = Held(executed) \cup ({Head(toServer)} \ {Listen})
    BY <1>0, <2>1, <2>2, HeldAppend
  <2>4. QED
    BY <2>1, <2>2, <2>3
<1>9. CASE \/ Tick \/ ReadFrame \/ QueueUpdate \/ ReadEnds \/ Retry \/ ConnectFailed \/ Press
          \/ UNCHANGED vars \/ \E a \in Attrs : Change(a)
  BY <1>1, <1>9 DEF Tick, ReadFrame, QueueUpdate, ReadEnds, Retry, ConnectFailed, Press, Change, vars,
     wireVars, deviceVars, commandTypes
<1>10. QED
  BY <1>2, <1>3, <1>4, <1>5, <1>6, <1>7, <1>8, <1>9 DEF Next, Transport

-----------------------------------------------------------------------------
(* What is on its way *)

(* An update that says no less than is true now.                           *)
Latest(w) ==
  /\ w.attr \in Attrs => w.value >= device[w.attr]
  /\ w.attr = "scene" => w.value >= scene /\ (IsPress(w) => w.value > scene)

LEMMA UpdateFields ==
  \A u \in Update : u.value \in Nat /\ u.attr \in Attrs \cup {"scene"} /\ u.notification \in BOOLEAN
BY DEF Update

LEMMA LatestFresh ==
  ASSUME UpdatesTyped, NEW u \in Update, NEW w \in Update, Sent(u), Latest(w) PROVE Fresher(u, w)
<1>1. u.value \in Nat /\ w.value \in Nat /\ scene \in Nat /\ \A a \in Attrs : device[a] \in Nat
  BY UpdateFields DEF UpdatesTyped
<1>2. u.attr = w.attr => u.value <= w.value
  <2>1. CASE w.attr \in Attrs
    BY <1>1, <2>1 DEF Sent, Latest
  <2>2. CASE w.attr = "scene"
    BY <1>1, <2>2 DEF Sent, Latest
  <2>3. QED
    BY <2>1, <2>2, UpdateFields
<1>3. IsPress(u) /\ IsPress(w) => u.value < w.value
  BY <1>1 DEF IsPress, Sent, Latest
<1>4. QED
  BY <1>2, <1>3 DEF Fresher

LEMMA LatestNews ==
  ASSUME UpdatesTyped, Past, NEW w \in Update, Latest(w) PROVE News(w)
<1>1. w.value \in Nat /\ scene \in Nat /\ \A a \in Attrs : device[a] \in Nat
  BY UpdateFields DEF UpdatesTyped
<1>2. ASSUME w.attr \in Attrs, seen[w.attr] # NONE PROVE seen[w.attr] <= w.value
  <2>1. seen[w.attr] \in Nat /\ seen[w.attr] <= device[w.attr] /\ device[w.attr] <= w.value
    BY <1>1, <1>2 DEF UpdatesTyped, Seen, Past, Latest
  <2>2. QED
    BY <1>1, <1>2, <2>1
<1>3. ASSUME IsPress(w), NEW i \in DOMAIN acted PROVE acted[i] < w.value
  <2>1. acted[i] <= scene /\ scene < w.value
    BY <1>1, <1>3 DEF Past, Latest, IsPress
  <2>2. acted[i] \in Nat
    <3>1. i \in 1 .. Len(acted) /\ acted \in Seq(1 .. scene)
      BY LenProperties DEF UpdatesTyped
    <3>2. acted[i] \in 1 .. scene
      BY <3>1, ElementOfSeq
    <3>3. QED
      BY <3>2
  <2>3. QED
    BY <1>1, <2>1, <2>2
<1>4. QED
  BY <1>2, <1>3 DEF News

(* As the device counts on, what was true when it was sent stays so.       *)
LEMMA SentKept ==
  ASSUME UpdatesTyped, UpdatesTyped', scene <= scene', \A a \in Attrs : device[a] <= device'[a],
         NEW u \in Update, Sent(u)
  PROVE  Sent(u)'
<1>1. /\ u.value \in Nat /\ scene \in Nat /\ scene' \in Nat
      /\ \A a \in Attrs : device[a] \in Nat /\ device'[a] \in Nat
  BY UpdateFields DEF UpdatesTyped
<1>2. u.attr \in Attrs => u.value <= device'[u.attr]
  BY <1>1 DEF Sent
<1>3. u.attr = "scene" => u.value \in 1 .. scene'
  BY <1>1 DEF Sent
<1>4. QED
  BY <1>2, <1>3 DEF Sent

LEMMA FineKept ==
  ASSUME UpdatesTyped, UpdatesTyped', scene <= scene', \A a \in Attrs : device[a] <= device'[a],
         UNCHANGED <<seen, acted>>,
         NEW s \in Seq(Update), Fine(s)
  PROVE  Fine(s)'
<1>1. \A i \in DOMAIN s : s[i] \in Update
  BY LenProperties, ElementOfSeq
<1>2. \A i \in DOMAIN s : Sent(s[i])'
  BY <1>1, SentKept DEF Fine
<1>3. \A i \in DOMAIN s : News(s[i])'
  BY DEF Fine, News
<1>4. QED
  BY <1>2, <1>3 DEF Fine

(* What a frame that is sent now brings: what will have been true when it  *)
(* was sent, and was not yet known.                                        *)
Sending(u) ==
  /\ u.attr \in Attrs => u.value <= device'[u.attr]
  /\ u.attr = "scene" => u.value \in 1 .. scene'

Brought(f) ==
  /\ f \in Seq(Update) /\ Ordered(f)
  /\ \A i \in DOMAIN f : Latest(f[i]) /\ Sending(f[i])

LEMMA WayExtended ==
  ASSUME UpdatesTyped, UpdatesTyped', Way, Past,
         UNCHANGED <<inbound, parsed, seen, acted>>,
         scene <= scene', \A a \in Attrs : device[a] <= device'[a],
         NEW n \in Nat,
         \A k \in DOMAIN fromServer' : \/ k \in DOMAIN fromServer /\ fromServer'[k] = fromServer[k]
                                       \/ k > n /\ Brought(fromServer'[k]),
         \A k \in DOMAIN fromServer : k <= n,
         \A k, l \in DOMAIN fromServer' : n < k /\ k < l => Precedes(fromServer'[k], fromServer'[l])
  PROVE  Way'
<1>1. /\ inbound \in Seq(Update) /\ parsed \in Seq(Update)
      /\ \A k \in DOMAIN fromServer : fromServer[k] \in Seq(Update)
  <2>1. fromServer \in Seq(Seq(Update))
    BY DEF UpdatesTyped
  <2>2. QED
    BY <2>1, LenProperties, ElementOfSeq DEF UpdatesTyped
<1>2. ASSUME NEW s \in Seq(Update), Fine(s), NEW f, Brought(f) PROVE Precedes(s, f)
  <2>1. /\ \A i \in DOMAIN s : s[i] \in Update /\ Sent(s[i])
        /\ \A j \in DOMAIN f : f[j] \in Update /\ Latest(f[j])
    BY <1>2, LenProperties, ElementOfSeq DEF Fine, Brought
  <2>2. QED
    BY <2>1, LatestFresh DEF Precedes
<1>3. ASSUME NEW f, Brought(f) PROVE Fine(f)'
  <2>1. \A j \in DOMAIN f : f[j] \in Update /\ Latest(f[j])
    BY <1>3, LenProperties, ElementOfSeq DEF Brought
  <2>2. \A j \in DOMAIN f : News(f[j])
    BY <2>1, LatestNews
  <2>3. \A j \in DOMAIN f : News(f[j])'
    BY <2>2 DEF News
  <2>4. QED
    BY <1>3, <2>3 DEF Brought, Fine, Sending, Sent
<1>4. Fine(inbound)' /\ Fine(parsed)' /\ Precedes(inbound, parsed)'
  <2>1. Fine(inbound) /\ Fine(parsed) /\ Precedes(inbound, parsed)
    BY DEF Way
  <2>2. (\A s \in Seq(Update) : Fine(s) => Fine(s)')
    BY FineKept
  <2>3. inbound' = inbound /\ parsed' = parsed
    OBVIOUS
  <2>4. QED
    BY <1>1, <2>1, <2>2, <2>3 DEF Fine
<1>5. ASSUME NEW k \in DOMAIN fromServer'
      PROVE  (Fine(fromServer[k]) /\ Precedes(inbound, fromServer[k]) /\ Precedes(parsed, fromServer[k]))'
  <2>1. PICK f : f = fromServer'[k]
    OBVIOUS
  <2>2. Fine(f)' /\ Precedes(inbound, f) /\ Precedes(parsed, f)
    <3>1. CASE k \in DOMAIN fromServer /\ f = fromServer[k]
      <4>1. Fine(f) /\ f \in Seq(Update) /\ Precedes(inbound, f) /\ Precedes(parsed, f)
        BY <1>1, <3>1 DEF Way
      <4>2. QED
        BY <4>1, FineKept
    <3>2. CASE k > n /\ Brought(f)
      BY <1>1, <1>2, <1>3, <3>2 DEF Way
    <3>3. QED
      BY <2>1, <3>1, <3>2
  <2>3. Fine(fromServer[k])'
    BY <2>1, <2>2 DEF Fine, Sent, News
  <2>4. QED
    BY <2>1, <2>2, <2>3
<1>6. ASSUME NEW k \in DOMAIN fromServer', NEW l \in DOMAIN fromServer', k < l
      PROVE  Precedes(fromServer'[k], fromServer'[l])
  <2>0. k \in Nat /\ l \in Nat
    <3>1. DOMAIN fromServer' = 1 .. Len(fromServer') /\ Len(fromServer') \in Nat
      BY LenProperties DEF UpdatesTyped
    <3>2. QED
      BY <3>1
  <2>1. CASE k > n
    BY <1>6, <2>1
  <2>2. CASE k <= n /\ l > n /\ Brought(fromServer'[l])
    <3>1. k \in DOMAIN fromServer /\ fromServer'[k] = fromServer[k]
      BY <2>0, <2>2
    <3>2. Fine(fromServer[k]) /\ fromServer[k] \in Seq(Update)
      BY <1>1, <3>1 DEF Way
    <3>3. QED
      BY <1>2, <2>2, <3>1, <3>2
  <2>3. CASE k <= n /\ l \in DOMAIN fromServer /\ fromServer'[l] = fromServer[l]
    <3>1. k \in DOMAIN fromServer /\ fromServer'[k] = fromServer[k]
      BY <2>0, <2>3
    <3>2. QED
      BY <1>6, <2>3, <3>1 DEF Way
  <2>4. QED
    BY <2>0, <2>1, <2>2, <2>3
<1>7. QED
  BY <1>4, <1>5, <1>6 DEF Way, Precedes

(* Frames that are lost leave the others as they were.                     *)
LEMMA WayShrunk ==
  ASSUME UpdatesTyped, UpdatesTyped', Way, Past,
         UNCHANGED <<inbound, parsed, seen, acted, device, scene>>,
         \A k \in DOMAIN fromServer' : k \in DOMAIN fromServer /\ fromServer'[k] = fromServer[k]
  PROVE  Way'
<1>1. scene <= scene' /\ \A a \in Attrs : device[a] <= device'[a]
  BY DEF UpdatesTyped
<1>2. Len(fromServer) \in Nat /\ DOMAIN fromServer = 1 .. Len(fromServer)
  BY LenProperties DEF UpdatesTyped
<1>3. \A k \in DOMAIN fromServer : k <= Len(fromServer)
  BY <1>2
<1>4. \A k, l \in DOMAIN fromServer' : Len(fromServer) < k => FALSE
  BY <1>2
<1>5. QED
  BY <1>1, <1>2, <1>3, <1>4, WayExtended

(* The device changes and says so, or nobody listens.                      *)
LEMMA WayBecomes ==
  ASSUME UpdatesTyped, UpdatesTyped', Way, Past, UNCHANGED <<inbound, parsed, seen, acted, scene>>,
         NEW S \in SUBSET Attrs, NEW v \in Nat, Becomes(S, v), \A a \in Attrs : device[a] <= v
  PROVE  Way'
<1> DEFINE reports == [i \in DOMAIN Listed(S) |-> << Value(Listed(S)[i], v) >>]
<1>1. /\ reports \in Seq(Seq(Update))
      /\ \A k \in 1 .. Len(reports) : \E a \in S : reports[k] = << Value(a, v) >>
  BY ChangesType
<1>2. device' = [a \in Attrs |-> IF a \in S THEN v ELSE device[a]] /\ fromServer' = Reports(reports)
  BY DEF Becomes
<1> HIDE DEF reports
<1>3. scene <= scene' /\ \A a \in Attrs : device[a] <= device'[a]
  BY <1>2 DEF UpdatesTyped
<1>4. \A k \in 1 .. Len(reports) : Brought(reports[k])
  <2> SUFFICES ASSUME NEW k \in 1 .. Len(reports) PROVE Brought(reports[k])
    OBVIOUS
  <2>1. PICK a \in S : reports[k] = << Value(a, v) >>
    BY <1>1
  <2>2. PICK u : u = Value(a, v)
    OBVIOUS
  <2>3. u \in Update /\ u.attr = a /\ u.value = v /\ ~IsPress(u)
    BY <2>2, ValueType DEF Value
  <2>4. device'[a] = v
    BY <1>2
  <2>5. Latest(u) /\ Sending(u)
    BY <2>3, <2>4, BridgeAssumption DEF Latest, Sending
  <2>6. DOMAIN << u >> = {1} /\ << u >> \in Seq(Update) /\ << u >>[1] = u
    BY <2>3
  <2>7. Brought(<< u >>)
    BY <2>5, <2>6 DEF Brought, Ordered
  <2>8. QED
    BY <2>1, <2>2, <2>7
<1>5. \A k, l \in 1 .. Len(reports) : Precedes(reports[k], reports[l])
  <2> SUFFICES ASSUME NEW k \in 1 .. Len(reports), NEW l \in 1 .. Len(reports)
               PROVE  Precedes(reports[k], reports[l])
    OBVIOUS
  <2>1. PICK a \in S, b \in S : reports[k] = << Value(a, v) >> /\ reports[l] = << Value(b, v) >>
    BY <1>1
  <2>2. Fresher(Value(a, v), Value(b, v))
    BY ValueType DEF Fresher, Value
  <2>3. QED
    BY <2>1, <2>2 DEF Precedes
<1>6. Len(fromServer) \in Nat /\ DOMAIN fromServer = 1 .. Len(fromServer)
  BY LenProperties DEF UpdatesTyped
<1>7. CASE ~listening
  <2>1. fromServer' = fromServer
    BY <1>2, <1>7 DEF Reports
  <2>2. \A k \in DOMAIN fromServer' : k \in DOMAIN fromServer /\ fromServer'[k] = fromServer[k]
    BY <2>1
  <2>3. \A k, l \in DOMAIN fromServer' : Len(fromServer) < k => FALSE
    BY <1>6, <2>1
  <2>4. \A k \in DOMAIN fromServer : k <= Len(fromServer)
    BY <1>6
  <2>5. QED
    BY <1>3, <1>6, <2>2, <2>3, <2>4, WayExtended
<1>8. CASE listening
  <2>1. fromServer' = fromServer \o reports
    BY <1>2, <1>8 DEF Reports
  <2>2. Len(reports) \in Nat
    BY <1>1, LenProperties
  <2>3. /\ DOMAIN fromServer' = 1 .. Len(fromServer) + Len(reports)
        /\ \A k \in 1 .. Len(fromServer) + Len(reports) :
             fromServer'[k] = IF k <= Len(fromServer) THEN fromServer[k] ELSE reports[k - Len(fromServer)]
    BY <1>1, <2>1, ConcatProperties, LenProperties DEF UpdatesTyped
  <2>4. \A k \in DOMAIN fromServer' : k > Len(fromServer) =>
          k - Len(fromServer) \in 1 .. Len(reports) /\ fromServer'[k] = reports[k - Len(fromServer)]
    BY <1>6, <2>2, <2>3
  <2>5. \A k \in DOMAIN fromServer' : ~(k > Len(fromServer)) =>
          k \in DOMAIN fromServer /\ fromServer'[k] = fromServer[k]
    BY <1>6, <2>2, <2>3
  <2>6. \A k \in DOMAIN fromServer' :
          \/ k \in DOMAIN fromServer /\ fromServer'[k] = fromServer[k]
          \/ k > Len(fromServer) /\ Brought(fromServer'[k])
    BY <1>4, <2>4, <2>5
  <2>7. \A k, l \in DOMAIN fromServer' : Len(fromServer) < k /\ k < l => l > Len(fromServer)
    BY <1>6, <2>2, <2>3
  <2>8. \A k, l \in DOMAIN fromServer' :
          Len(fromServer) < k /\ k < l => Precedes(fromServer'[k], fromServer'[l])
    BY <1>5, <2>4, <2>7
  <2>9. \A k \in DOMAIN fromServer : k <= Len(fromServer)
    BY <1>6
  <2>10. QED
    BY <1>3, <1>6, <2>6, <2>8, <2>9, WayExtended
<1>9. QED
  BY <1>7, <1>8

(* One frame more.                                                         *)
LEMMA WayAppended ==
  ASSUME UpdatesTyped, UpdatesTyped', Way, Past, UNCHANGED <<inbound, parsed, seen, acted>>,
         scene <= scene', \A a \in Attrs : device[a] <= device'[a],
         NEW f, Brought(f), fromServer' = Append(fromServer, f)
  PROVE  Way'
<1>1. Len(fromServer) \in Nat /\ DOMAIN fromServer = 1 .. Len(fromServer)
  BY LenProperties DEF UpdatesTyped
<1>2. /\ DOMAIN fromServer' = 1 .. Len(fromServer) + 1
      /\ \A k \in 1 .. Len(fromServer) : fromServer'[k] = fromServer[k]
      /\ fromServer'[Len(fromServer) + 1] = f
  BY AppendProperties, LenProperties DEF UpdatesTyped, Brought
<1>3. \A k \in DOMAIN fromServer' :
        \/ k \in DOMAIN fromServer /\ fromServer'[k] = fromServer[k]
        \/ k > Len(fromServer) /\ Brought(fromServer'[k])
  BY <1>1, <1>2
<1>4. \A k, l \in DOMAIN fromServer' : Len(fromServer) < k /\ k < l => FALSE
  BY <1>1, <1>2
<1>5. \A k \in DOMAIN fromServer : k <= Len(fromServer)
  BY <1>1
<1>6. QED
  BY <1>1, <1>3, <1>4, <1>5, WayExtended

LEMMA WayListens ==
  ASSUME UpdatesTyped, UpdatesTyped', Way, Past, ServerListens PROVE Way'
<1>1. /\ fromServer' = Append(fromServer, Snapshot)
      /\ UNCHANGED <<inbound, parsed, seen, acted, device, scene>>
  BY DEF ServerListens, adapterVars, deviceVars
<1>2. Snapshot \in Seq(Update) /\ \A i \in 1 .. Len(Snapshot) : Said(Snapshot[i])
  BY SnapshotType DEF UpdatesTyped
<1>3. \A u \in Update : Said(u) => Latest(u) /\ Sending(u)
  <2> SUFFICES ASSUME NEW u \in Update, Said(u) PROVE Latest(u) /\ Sending(u)
    OBVIOUS
  <2>0. device \in [Attrs -> Nat] /\ scene \in Nat
    BY DEF UpdatesTyped
  <2>1. CASE u.attr \in Attrs /\ u = Value(u.attr, device[u.attr])
    <3>1. u.value = device[u.attr] /\ u.attr # "scene"
      BY <2>1, BridgeAssumption DEF Value
    <3>2. QED
      BY <1>1, <2>0, <2>1, <3>1 DEF Latest, Sending
  <2>2. CASE scene # 0 /\ u = Value("scene", scene)
    <3>1. u.attr = "scene" /\ u.value = scene /\ u.notification = FALSE
      BY <2>2 DEF Value
    <3>2. scene \in 1 .. scene
      BY <2>0, <2>2
    <3>3. QED
      BY <1>1, <2>0, <3>1, <3>2, BridgeAssumption DEF Latest, Sending, IsPress
  <2>3. QED
    BY <2>1, <2>2 DEF Said
<1>4. \A u, w \in Update : Said(u) /\ Said(w) => Fresher(u, w)
  <2> SUFFICES ASSUME NEW u \in Update, NEW w \in Update, Said(u), Said(w) PROVE Fresher(u, w)
    OBVIOUS
  <2>1. ~IsPress(u) /\ ~IsPress(w)
    BY DEF Said, Value, IsPress
  <2>2. u.attr = w.attr => u.value = w.value
    <3>1. \A z \in Update : Said(z) => z.value = IF z.attr \in Attrs THEN device[z.attr] ELSE scene
      BY BridgeAssumption DEF Said, Value
    <3>2. QED
      BY <3>1
  <2>3. QED
    BY <2>1, <2>2, UpdateFields DEF Fresher
<1>5. Brought(Snapshot)
  <2>1. DOMAIN Snapshot = 1 .. Len(Snapshot) /\ \A i \in 1 .. Len(Snapshot) : Snapshot[i] \in Update
    BY <1>2, LenProperties, ElementOfSeq
  <2>2. Ordered(Snapshot)
    BY <1>2, <1>4, <2>1 DEF Ordered
  <2>3. QED
    BY <1>2, <1>3, <2>1, <2>2 DEF Brought
<1>6. scene <= scene' /\ \A a \in Attrs : device[a] <= device'[a]
  BY <1>1 DEF UpdatesTyped
<1>7. QED
  BY <1>1, <1>5, <1>6, WayAppended

LEMMA WayPress ==
  ASSUME UpdatesTyped, UpdatesTyped', Way, Past, Press PROVE Way'
<1>1. /\ UNCHANGED <<inbound, parsed, seen, acted, device>> /\ scene' = scene + 1
      /\ fromServer' = Reports(<< << [attr |-> "scene", value |-> scene', notification |-> TRUE] >> >>)
  BY DEF Press, adapterVars
<1>2. PICK u : u = [attr |-> "scene", value |-> scene + 1, notification |-> TRUE]
  OBVIOUS
<1>3. scene \in Nat /\ device \in [Attrs -> Nat]
  BY DEF UpdatesTyped
<1>4. u \in Update /\ u.attr = "scene" /\ u.value = scene + 1
  BY <1>2, <1>3 DEF Update
<1>5. Latest(u) /\ Sending(u)
  BY <1>1, <1>3, <1>4, BridgeAssumption DEF Latest, Sending
<1>6. DOMAIN << u >> = {1} /\ << u >> \in Seq(Update) /\ << u >>[1] = u
  BY <1>4
<1>7. Brought(<< u >>)
  BY <1>5, <1>6 DEF Brought, Ordered
<1>8. scene <= scene' /\ \A a \in Attrs : device[a] <= device'[a]
  BY <1>1, <1>3
<1>9. CASE listening
  <2>1. fromServer' = fromServer \o << << u >> >>
    BY <1>1, <1>2, <1>9 DEF Reports
  <2>2. fromServer' = Append(fromServer, << u >>)
    BY <1>6, <2>1 DEF UpdatesTyped
  <2>3. QED
    BY <1>1, <1>7, <1>8, <2>2, WayAppended
<1>10. CASE ~listening
  <2>1. fromServer' = fromServer
    BY <1>1, <1>10 DEF Reports
  <2>2. Len(fromServer) \in Nat /\ DOMAIN fromServer = 1 .. Len(fromServer)
    BY LenProperties DEF UpdatesTyped
  <2>3. \A k \in DOMAIN fromServer' : k \in DOMAIN fromServer /\ fromServer'[k] = fromServer[k]
    BY <2>1
  <2>4. \A k \in DOMAIN fromServer : k <= Len(fromServer)
    BY <2>2
  <2>5. \A k, l \in DOMAIN fromServer' : Len(fromServer) < k => FALSE
    BY <2>1, <2>2
  <2>6. QED
    BY <1>1, <1>8, <2>2, <2>3, <2>4, <2>5, WayExtended
<1>11. QED
  BY <1>9, <1>10

(* The steps of the transport pass updates on in order.                    *)
LEMMA WayRead ==
  ASSUME UpdatesTyped, Way, ReadFrame PROVE Way'
<1>1. /\ parsed = <<>> /\ fromServer # <<>> /\ fromServer \in Seq(Seq(Update))
      /\ parsed' = Head(fromServer) /\ fromServer' = Tail(fromServer)
      /\ UNCHANGED <<inbound, seen, acted, device, scene>>
  BY DEF ReadFrame, Pumping, UpdatesTyped, adapterVars, deviceVars
<1>2. /\ parsed' = fromServer[1] /\ DOMAIN fromServer = 1 .. Len(fromServer) /\ Len(fromServer) \in Nat
      /\ 1 \in 1 .. Len(fromServer)
      /\ DOMAIN fromServer' = 1 .. Len(fromServer) - 1
      /\ \A k \in DOMAIN fromServer' : k + 1 \in DOMAIN fromServer /\ fromServer'[k] = fromServer[k + 1]
  BY <1>1, QueueShifts, LenProperties
<1>3. \A s : Fine(s)' <=> Fine(s)
  BY <1>1 DEF Fine, Sent, News
<1>4. Fine(inbound) /\ Fine(fromServer[1]) /\ Precedes(inbound, fromServer[1])
  BY <1>2 DEF Way
<1>5. Fine(inbound)' /\ Fine(parsed)' /\ Precedes(inbound, parsed)'
  BY <1>1, <1>2, <1>4 DEF Fine, Sent, News
<1>6. ASSUME NEW k \in DOMAIN fromServer'
      PROVE  (Fine(fromServer[k]) /\ Precedes(inbound, fromServer[k]) /\ Precedes(parsed, fromServer[k]))'
  <2>1. PICK f : f = fromServer'[k]
    OBVIOUS
  <2>2. k + 1 \in DOMAIN fromServer /\ f = fromServer[k + 1] /\ 1 < k + 1
    BY <1>2, <2>1
  <2>3. Fine(f) /\ Precedes(inbound, f) /\ Precedes(parsed', f)
    BY <1>2, <2>2 DEF Way
  <2>4. Fine(f)'
    BY <1>3, <2>3
  <2>5. QED
    BY <1>1, <2>1, <2>3, <2>4 DEF Fine, Sent, News
<1>7. ASSUME NEW k \in DOMAIN fromServer', NEW l \in DOMAIN fromServer', k < l
      PROVE  Precedes(fromServer'[k], fromServer'[l])
  <2>1. /\ k + 1 \in DOMAIN fromServer /\ l + 1 \in DOMAIN fromServer /\ k + 1 < l + 1
        /\ fromServer'[k] = fromServer[k + 1] /\ fromServer'[l] = fromServer[l + 1]
    BY <1>2, <1>7
  <2>2. QED
    BY <2>1 DEF Way
<1>8. QED
  BY <1>5, <1>6, <1>7 DEF Way

LEMMA WayQueue ==
  ASSUME UpdatesTyped, Way, QueueUpdate PROVE Way'
<1>1. /\ parsed # <<>> /\ parsed \in Seq(Update) /\ inbound \in Seq(Update)
      /\ inbound' = Append(inbound, Head(parsed)) /\ parsed' = Tail(parsed)
      /\ UNCHANGED <<fromServer, seen, acted, device, scene>>
  BY DEF QueueUpdate, UpdatesTyped, adapterVars, wireVars, deviceVars
<1>2. /\ Head(parsed) = parsed[1] /\ Head(parsed) \in Update /\ 1 \in DOMAIN parsed
      /\ DOMAIN parsed = 1 .. Len(parsed) /\ Len(parsed) \in Nat
      /\ DOMAIN parsed' = 1 .. Len(parsed) - 1
      /\ \A i \in DOMAIN parsed' : i + 1 \in DOMAIN parsed /\ parsed'[i] = parsed[i + 1] /\ i \in Nat /\ 1 < i + 1
  BY <1>1, QueueShifts, LenProperties
<1>3. /\ DOMAIN inbound = 1 .. Len(inbound) /\ Len(inbound) \in Nat
      /\ DOMAIN inbound' = 1 .. Len(inbound) + 1
      /\ \A i \in DOMAIN inbound : i \in DOMAIN inbound' /\ inbound'[i] = inbound[i]
      /\ inbound'[Len(inbound) + 1] = parsed[1]
  BY <1>1, <1>2, AppendProperties, LenProperties
<1>4. \A i \in DOMAIN inbound' :
        \/ i \in DOMAIN inbound /\ inbound'[i] = inbound[i]
        \/ i = Len(inbound) + 1 /\ inbound'[i] = parsed[1]
  BY <1>3
<1>5. \A i, j \in DOMAIN inbound' : i < j => i \in DOMAIN inbound
  BY <1>3
<1>6. Fine(inbound) /\ Fine(parsed) /\ Precedes(inbound, parsed)
  BY DEF Way
<1>7. Fine(inbound)'
  <2>1. Ordered(inbound')
    <3>1. ASSUME NEW i \in DOMAIN inbound', NEW j \in DOMAIN inbound', i < j
          PROVE  Fresher(inbound'[i], inbound'[j])
      <4>1. i \in DOMAIN inbound /\ inbound'[i] = inbound[i]
        BY <1>3, <1>5, <3>1
      <4>2. CASE j \in DOMAIN inbound /\ inbound'[j] = inbound[j]
        BY <1>6, <3>1, <4>1, <4>2 DEF Fine, Ordered
      <4>3. CASE inbound'[j] = parsed[1]
        BY <1>2, <1>6, <4>1, <4>3 DEF Precedes
      <4>4. QED
        BY <1>4, <4>2, <4>3
    <3>2. QED
      BY <3>1 DEF Ordered
  <2>2. \A i \in DOMAIN inbound' : Sent(inbound'[i]) /\ News(inbound'[i])
    BY <1>2, <1>4, <1>6 DEF Fine
  <2>3. QED
    BY <1>1, <2>1, <2>2 DEF Fine, Sent, News
<1>8. Fine(parsed)'
  <2>1. Ordered(parsed')
    <3>1. \A i, j \in DOMAIN parsed' : i < j => i + 1 < j + 1
      BY <1>2
    <3>2. QED
      BY <1>2, <1>6, <3>1 DEF Fine, Ordered
  <2>2. \A i \in DOMAIN parsed' : Sent(parsed'[i]) /\ News(parsed'[i])
    BY <1>2, <1>6 DEF Fine
  <2>3. QED
    BY <1>1, <2>1, <2>2 DEF Fine, Sent, News
<1>9. Precedes(inbound', parsed')
  BY <1>2, <1>4, <1>6 DEF Fine, Ordered, Precedes
<1>10. ASSUME NEW k \in DOMAIN fromServer
       PROVE  /\ Fine(fromServer[k])
              /\ Precedes(inbound', fromServer[k]) /\ Precedes(parsed', fromServer[k])
  <2>1. Fine(fromServer[k]) /\ Precedes(inbound, fromServer[k]) /\ Precedes(parsed, fromServer[k])
    BY DEF Way
  <2>2. QED
    BY <1>2, <1>4, <2>1 DEF Precedes
<1>11. \A k \in DOMAIN fromServer : Fine(fromServer[k])'
  BY <1>1, <1>10 DEF Fine, Sent, News
<1>12. QED
  BY <1>1, <1>7, <1>8, <1>9, <1>10, <1>11 DEF Way

(* A tick acts on the presses that are in, each newer than the one before, *)
(* and folds the values, and what comes later is newer.                    *)
LEMMA TickFolds ==
  ASSUME UpdatesTyped, Way, Past, Tick, NEW a \in Attrs
  PROVE  /\ seen[a] # NONE => seen'[a] # NONE /\ seen'[a] >= seen[a]
         /\ seen'[a] # NONE => seen'[a] <= device[a]
         /\ \A u \in Update :
              u.attr = a /\ News(u) /\ seen'[a] # NONE /\ (\A i \in DOMAIN inbound : Fresher(inbound[i], u))
                => seen'[a] <= u.value
<1>1. seen' = Folded(seen, inbound) /\ seen \in Seen /\ inbound \in Seq(Update)
  BY DEF Tick, UpdatesTyped
<1>2. seen[a] \in Nat \cup {NONE} /\ device[a] \in Nat
  BY <1>1 DEF Seen, UpdatesTyped
<1>3. CASE seen'[a] = seen[a]
  BY <1>2, <1>3 DEF Past, News
<1>4. ASSUME NEW i \in 1 .. Len(inbound), inbound[i].attr = a, seen'[a] = inbound[i].value
      PROVE  /\ seen[a] # NONE => seen'[a] # NONE /\ seen'[a] >= seen[a]
             /\ seen'[a] # NONE => seen'[a] <= device[a]
             /\ \A u \in Update :
                  u.attr = a /\ News(u) /\ seen'[a] # NONE /\ (\A j \in DOMAIN inbound : Fresher(inbound[j], u))
                    => seen'[a] <= u.value
  <2>1. i \in DOMAIN inbound /\ inbound[i] \in Update
    BY <1>1, LenProperties, ElementOfSeq
  <2>2. Sent(inbound[i]) /\ News(inbound[i])
    BY <2>1 DEF Way, Fine
  <2>3. inbound[i].value \in Nat
    BY <2>1, UpdateFields
  <2>4. seen'[a] <= device[a] /\ seen'[a] # NONE
    BY <1>4, <2>2, <2>3, BridgeAssumption DEF Sent
  <2>5. seen[a] # NONE => seen'[a] >= seen[a]
    BY <1>2, <1>4, <2>2, <2>3 DEF News
  <2>6. \A u \in Update : u.attr = a /\ Fresher(inbound[i], u) => seen'[a] <= u.value
    BY <1>4 DEF Fresher
  <2>7. QED
    BY <2>1, <2>4, <2>5, <2>6
<1>5. QED
  BY <1>1, <1>3, <1>4, FoldedCases

LEMMA TickActs ==
  ASSUME UpdatesTyped, Way, Past, Tick
  PROVE  /\ Increasing(acted')
         /\ \A i \in DOMAIN acted' :
              \/ i \in DOMAIN acted /\ acted'[i] = acted[i]
              \/ \E j \in DOMAIN inbound : IsPress(inbound[j]) /\ acted'[i] = inbound[j].value
<1>1. inbound \in Seq(Update) /\ acted \in Seq(1 .. scene) /\ scene \in Nat
  BY DEF UpdatesTyped
<1>2. DOMAIN inbound = 1 .. Len(inbound) /\ DOMAIN acted = 1 .. Len(acted) /\ Len(acted) \in Nat
  BY <1>1, LenProperties
<1>3. PICK n \in Nat : \E place \in [1 .. n -> Nat] :
           /\ Presses(inbound) = [k \in 1 .. n |-> inbound[place[k]].value]
           /\ \A k \in 1 .. n : place[k] \in 1 .. Len(inbound) /\ IsPress(inbound[place[k]])
           /\ \A k, l \in 1 .. n : k < l => place[k] < place[l]
  BY <1>1, PressesInOrder
<1>4. PICK place \in [1 .. n -> Nat] :
           /\ Presses(inbound) = [k \in 1 .. n |-> inbound[place[k]].value]
           /\ \A k \in 1 .. n : place[k] \in 1 .. Len(inbound) /\ IsPress(inbound[place[k]])
           /\ \A k, l \in 1 .. n : k < l => place[k] < place[l]
  BY <1>3
<1>5. PICK pressed : pressed = Presses(inbound)
  OBVIOUS
<1>6. /\ \A k \in 1 .. n : place[k] \in DOMAIN inbound /\ pressed[k] = inbound[place[k]].value
      /\ pressed \in [1 .. n -> Nat]
  <2>1. \A j \in 1 .. Len(inbound) : inbound[j] \in Update
    BY <1>1, ElementOfSeq
  <2>2. \A j \in 1 .. Len(inbound) : inbound[j].value \in Nat
    BY <2>1, UpdateFields
  <2>3. QED
    BY <1>2, <1>4, <1>5, <2>2
<1>7. pressed \in Seq(Nat) /\ Len(pressed) = n
  BY <1>6, FunctionIsSeq
<1>8. acted \in Seq(Nat)
  <2>1. 1 .. scene \subseteq Nat
    BY <1>1
  <2>2. QED
    BY <1>1, <2>1, SeqMonotonic
<1>9. acted' = acted \o pressed
  BY <1>5 DEF Tick
<1>10. /\ DOMAIN acted' = 1 .. Len(acted) + n
       /\ \A i \in 1 .. Len(acted) + n : acted'[i] = IF i <= Len(acted) THEN acted[i] ELSE pressed[i - Len(acted)]
  <2>1. Len(pressed) = n /\ n \in Nat
    BY <1>7
  <2>2. /\ acted \o pressed \in Seq(Nat)
        /\ Len(acted \o pressed) = Len(acted) + Len(pressed)
        /\ \A i \in 1 .. Len(acted) + Len(pressed) :
             (acted \o pressed)[i] = IF i <= Len(acted) THEN acted[i] ELSE pressed[i - Len(acted)]
    BY <1>7, <1>8, ConcatProperties
  <2>3. DOMAIN (acted \o pressed) = 1 .. Len(acted) + Len(pressed)
    BY <2>2, LenProperties
  <2>4. QED
    BY <1>9, <2>1, <2>2, <2>3
<1>11. \A i \in DOMAIN acted' :
         \/ i \in DOMAIN acted /\ acted'[i] = acted[i]
         \/ /\ i - Len(acted) \in 1 .. n /\ i > Len(acted)
            /\ acted'[i] = pressed[i - Len(acted)]
  BY <1>2, <1>10
<1>12. ASSUME NEW i \in DOMAIN acted', NEW j \in DOMAIN acted', i < j PROVE acted'[i] < acted'[j]
  <2>0. i \in Nat /\ j \in Nat
    BY <1>2, <1>10
  <2>1. CASE i \in DOMAIN acted /\ j \in DOMAIN acted
    <3>1. acted'[i] = acted[i] /\ acted'[j] = acted[j]
      BY <1>2, <1>10, <2>1
    <3>2. acted[i] < acted[j]
      BY <1>12, <2>1 DEF Past, Increasing
    <3>3. QED
      BY <3>1, <3>2
  <2>2. CASE i \in DOMAIN acted /\ j > Len(acted)
    <3>0. j - Len(acted) \in 1 .. n /\ acted'[j] = pressed[j - Len(acted)]
      BY <1>2, <1>10, <1>11, <2>0, <2>2
    <3>1. PICK p \in DOMAIN inbound : IsPress(inbound[p]) /\ acted'[j] = inbound[p].value
      BY <1>4, <1>6, <3>0
    <3>2. News(inbound[p])
      BY <3>1 DEF Way, Fine
    <3>3. acted[i] < inbound[p].value
      BY <2>2, <3>1, <3>2 DEF News
    <3>4. acted'[i] = acted[i]
      BY <1>2, <1>10, <2>0, <2>2
    <3>5. QED
      BY <3>1, <3>3, <3>4
  <2>3. CASE i > Len(acted)
    <3>1. PICK k \in 1 .. n, l \in 1 .. n : k < l /\ acted'[i] = pressed[k] /\ acted'[j] = pressed[l]
      <4>1. /\ i - Len(acted) \in 1 .. n /\ j - Len(acted) \in 1 .. n
            /\ i - Len(acted) < j - Len(acted)
            /\ acted'[i] = pressed[i - Len(acted)] /\ acted'[j] = pressed[j - Len(acted)]
        BY <1>2, <1>10, <1>11, <1>12, <2>0, <2>3
      <4>2. QED
        BY <4>1
    <3>2. /\ place[k] \in DOMAIN inbound /\ place[l] \in DOMAIN inbound /\ place[k] < place[l]
          /\ IsPress(inbound[place[k]]) /\ IsPress(inbound[place[l]])
      BY <1>4, <1>6, <3>1
    <3>3. Fresher(inbound[place[k]], inbound[place[l]])
      BY <3>2 DEF Way, Fine, Ordered
    <3>4. QED
      BY <1>6, <3>1, <3>2, <3>3 DEF Fresher
  <2>4. QED
    BY <1>2, <1>10, <1>12, <2>0, <2>1, <2>2, <2>3
<1>13. Increasing(acted')
  BY <1>12 DEF Increasing
<1>14. ASSUME NEW i \in DOMAIN acted'
       PROVE  \/ i \in DOMAIN acted /\ acted'[i] = acted[i]
              \/ \E j \in DOMAIN inbound : IsPress(inbound[j]) /\ acted'[i] = inbound[j].value
  BY <1>2, <1>4, <1>6, <1>11
<1>15. QED
  BY <1>13, <1>14

LEMMA WayTick ==
  ASSUME UpdatesTyped, Way, Past, Tick PROVE Way'
<1>1. /\ inbound' = <<>> /\ UNCHANGED <<parsed, fromServer, device, scene>>
      /\ parsed \in Seq(Update) /\ fromServer \in Seq(Seq(Update))
  BY DEF Tick, UpdatesTyped, wireVars, deviceVars
<1>2. ASSUME NEW u \in Update, News(u), \A i \in DOMAIN inbound : Fresher(inbound[i], u) PROVE News(u)'
  <2>1. ASSUME u.attr \in Attrs, seen'[u.attr] # NONE PROVE seen'[u.attr] <= u.value
    BY <1>2, <2>1, TickFolds
  <2>2. ASSUME IsPress(u), NEW i \in DOMAIN acted' PROVE acted'[i] < u.value
    <3>1. CASE i \in DOMAIN acted /\ acted'[i] = acted[i]
      BY <1>2, <2>2, <3>1 DEF News
    <3>2. CASE \E j \in DOMAIN inbound : IsPress(inbound[j]) /\ acted'[i] = inbound[j].value
      BY <1>2, <2>2, <3>2 DEF Fresher
    <3>3. QED
      BY <3>1, <3>2, TickActs
  <2>3. QED
    BY <2>1, <2>2 DEF News
<1>3. ASSUME NEW s \in Seq(Update), Fine(s), Precedes(inbound, s) PROVE Fine(s)'
  <2>1. \A i \in DOMAIN s : s[i] \in Update
    BY LenProperties, ElementOfSeq
  <2>2. \A i \in DOMAIN s : News(s[i])'
    BY <1>2, <1>3, <2>1 DEF Fine, Precedes
  <2>3. \A i \in DOMAIN s : Sent(s[i])'
    BY <1>1, <1>3 DEF Fine, Sent
  <2>4. QED
    BY <1>3, <2>2, <2>3 DEF Fine
<1>4. Fine(parsed)'
  <2>1. PICK p : p = parsed
    OBVIOUS
  <2>2. Fine(p)'
    BY <1>1, <1>3, <2>1 DEF Way
  <2>3. QED
    BY <1>1, <2>1, <2>2 DEF Fine, Sent, News
<1>5. ASSUME NEW k \in DOMAIN fromServer PROVE Fine(fromServer[k])'
  <2>1. PICK f : f = fromServer[k]
    OBVIOUS
  <2>2. f \in Seq(Update)
    BY <1>1, <2>1, LenProperties, ElementOfSeq
  <2>3. Fine(f)'
    BY <1>3, <2>1, <2>2 DEF Way
  <2>4. QED
    BY <1>1, <2>1, <2>3
<1>6. DOMAIN inbound' = {}
  BY <1>1
<1>7. (Fine(inbound) /\ Precedes(inbound, parsed))'
  BY <1>6 DEF Fine, Ordered, Precedes
<1>8. \A k \in DOMAIN fromServer : Precedes(inbound', fromServer[k]) /\ Precedes(parsed, fromServer[k])
  BY <1>6 DEF Precedes, Way
<1>9. \A k, l \in DOMAIN fromServer : k < l => Precedes(fromServer[k], fromServer[l])
  BY DEF Way
<1>10. QED
  BY <1>1, <1>4, <1>5, <1>7, <1>8, <1>9 DEF Way

LEMMA WayInit == Init => Way
BY DEF Init, Way, Fine, Ordered, Precedes

LEMMA WayStep ==
  ASSUME TypeOK, TypeOK', Way, Past, [Next]_vars PROVE Way'
<1>1. UpdatesTyped /\ UpdatesTyped'
  BY DEF TypeOK, UpdatesTyped
<1>2. ASSUME UNCHANGED <<inbound, parsed, fromServer, seen, acted, device, scene>> PROVE Way'
  BY <1>1, <1>2, WayShrunk
<1>3. CASE Dispatch \/ Handshake \/ ReadEnds \/ WriteFrame \/ ConnectFailed \/ UNCHANGED vars
  <2>1. UNCHANGED <<inbound, parsed, fromServer, seen, acted, device, scene>>
    BY <1>3 DEF Dispatch, Handshake, ReadEnds, WriteFrame, ConnectFailed, vars, adapterVars, wireVars, deviceVars
  <2>2. QED
    BY <1>2, <2>1
<1>4. CASE Connected \/ Retry
  <2>1. UNCHANGED <<inbound, parsed, seen, acted, device, scene>> /\ fromServer' = <<>>
    BY <1>4 DEF Connected, Retry, adapterVars, deviceVars
  <2>2. DOMAIN fromServer' = {}
    BY <2>1
  <2>3. QED
    BY <1>1, <2>1, <2>2, WayShrunk
<1>5. CASE Break
  <2>1. /\ UNCHANGED <<inbound, parsed, seen, acted, device, scene>>
        /\ \E n \in 0 .. Len(fromServer) : fromServer' = SubSeq(fromServer, 1, n)
    BY <1>5 DEF Break, adapterVars, deviceVars
  <2>2. PICK n \in 0 .. Len(fromServer) : fromServer' = SubSeq(fromServer, 1, n)
    BY <2>1
  <2>3. DOMAIN fromServer = 1 .. Len(fromServer) /\ Len(fromServer) \in Nat
    BY <1>1, LenProperties DEF UpdatesTyped
  <2>4. \A k \in DOMAIN fromServer' : k \in DOMAIN fromServer /\ fromServer'[k] = fromServer[k]
    BY <2>2, <2>3
  <2>5. QED
    BY <1>1, <2>1, <2>4, WayShrunk
<1>6. CASE ServerListens
  BY <1>1, <1>6, WayListens
<1>7. CASE ServerExecutes
  <2>1. /\ executed' = Append(executed, Head(toServer)) /\ Becomes(Attrs, Len(executed') + changes)
        /\ UNCHANGED <<inbound, parsed, seen, acted, scene>>
    BY <1>7 DEF ServerExecutes, adapterVars
  <2>2. Len(executed) \in Nat /\ Len(executed') = Len(executed) + 1 /\ changes \in Nat
    BY <2>1, LenProperties, AppendProperties DEF TypeOK
  <2>3. PICK v : v = Len(executed') + changes
    OBVIOUS
  <2>4. v \in Nat /\ Becomes(Attrs, v)
    BY <2>1, <2>2, <2>3
  <2>5. \A a \in Attrs : device[a] <= v
    <3>1. \A a \in Attrs : device[a] \in Nat /\ device[a] <= Len(executed) + changes
      BY <1>1 DEF UpdatesTyped, Past
    <3>2. QED
      BY <2>2, <2>3, <3>1
  <2>6. QED
    BY <1>1, <2>1, <2>4, <2>5, WayBecomes
<1>8. CASE \E a \in Attrs : Change(a)
  <2>1. PICK b \in Attrs : Change(b)
    BY <1>8
  <2>2. /\ changes' = changes + 1 /\ Becomes({b}, Len(executed) + changes')
        /\ UNCHANGED <<inbound, parsed, seen, acted, scene>>
    BY <2>1 DEF Change, adapterVars
  <2>3. Len(executed) \in Nat /\ changes \in Nat
    BY LenProperties DEF TypeOK
  <2>4. PICK v : v = Len(executed) + changes'
    OBVIOUS
  <2>5. v \in Nat /\ Becomes({b}, v) /\ {b} \subseteq Attrs
    BY <2>1, <2>2, <2>3, <2>4
  <2>6. \A a \in Attrs : device[a] <= v
    <3>1. \A a \in Attrs : device[a] \in Nat /\ device[a] <= Len(executed) + changes
      BY <1>1 DEF UpdatesTyped, Past
    <3>2. QED
      BY <2>2, <2>3, <2>4, <3>1
  <2>7. QED
    BY <1>1, <2>2, <2>5, <2>6, WayBecomes
<1>9. CASE Press
  BY <1>1, <1>9, WayPress
<1>10. CASE ReadFrame
  BY <1>1, <1>10, WayRead
<1>11. CASE QueueUpdate
  BY <1>1, <1>11, WayQueue
<1>12. CASE Tick
  BY <1>1, <1>12, WayTick
<1>13. QED
  BY <1>3, <1>4, <1>5, <1>6, <1>7, <1>8, <1>9, <1>10, <1>11, <1>12 DEF Next, Transport

LEMMA PastInit == Init => Past
BY BridgeAssumption DEF Init, Past, Increasing

LEMMA PastStep ==
  ASSUME TypeOK, TypeOK', Way, Past, [Next]_vars PROVE Past'
<1>1. /\ UpdatesTyped /\ UpdatesTyped'
      /\ changes \in Nat /\ changes' \in Nat /\ scene \in Nat /\ scene' \in Nat
      /\ Len(executed) \in Nat /\ Len(executed') \in Nat
  BY LenProperties DEF TypeOK, UpdatesTyped
<1>2. \A a \in Attrs : device[a] \in Nat /\ device'[a] \in Nat /\ seen[a] \in Nat \cup {NONE}
  BY <1>1 DEF UpdatesTyped, Seen
<1>3. \A i \in DOMAIN acted : acted[i] \in Nat
  <2>1. \A i \in DOMAIN acted : acted[i] \in 1 .. scene
    BY <1>1, LenProperties, ElementOfSeq DEF UpdatesTyped
  <2>2. QED
    BY <1>1, <2>1
<1>4. ASSUME UNCHANGED <<seen, acted>>, scene <= scene',
             Len(executed) + changes <= Len(executed') + changes',
             \A a \in Attrs : device'[a] # device[a] =>
               device[a] <= device'[a] /\ device'[a] <= Len(executed') + changes'
      PROVE  Past'
  <2>1. \A a \in Attrs : device'[a] <= Len(executed') + changes'
    BY <1>1, <1>2, <1>4 DEF Past
  <2>2. \A a \in Attrs : seen'[a] # NONE => seen'[a] <= device'[a]
    BY <1>2, <1>4 DEF Past
  <2>3. \A i \in DOMAIN acted' : acted'[i] <= scene'
    BY <1>1, <1>3, <1>4 DEF Past
  <2>4. Increasing(acted')
    BY <1>4 DEF Past
  <2>5. QED
    BY <1>1, <2>1, <2>2, <2>3, <2>4 DEF Past, Increasing
<1>5. CASE \/ Dispatch \/ Connected \/ Retry \/ Break \/ Handshake \/ ReadEnds \/ ReadFrame \/ QueueUpdate
           \/ WriteFrame \/ ConnectFailed \/ ServerListens \/ UNCHANGED vars
  <2>1. UNCHANGED <<seen, acted, device, scene, executed, changes>>
    BY <1>5 DEF Dispatch, Connected, Retry, Break, Handshake, ReadEnds, ReadFrame, QueueUpdate, WriteFrame,
                ConnectFailed, ServerListens, vars, adapterVars, deviceVars
  <2>2. scene <= scene' /\ Len(executed) + changes <= Len(executed') + changes'
    BY <1>1, <2>1
  <2>3. UNCHANGED <<seen, acted>> /\ \A a \in Attrs : device'[a] = device[a]
    BY <2>1
  <2>4. QED
    BY <1>4, <2>2, <2>3
<1>6. CASE Press
  <2>1. scene' = scene + 1 /\ UNCHANGED <<seen, acted, device, executed, changes>>
    BY <1>6 DEF Press, adapterVars
  <2>2. scene <= scene' /\ Len(executed) + changes <= Len(executed') + changes'
    BY <1>1, <2>1
  <2>3. \A a \in Attrs : device'[a] = device[a]
    BY <2>1
  <2>4. QED
    BY <1>4, <2>1, <2>2, <2>3
<1>7. CASE ServerExecutes
  <2>1. /\ executed' = Append(executed, Head(toServer)) /\ Becomes(Attrs, Len(executed') + changes)
        /\ UNCHANGED <<seen, acted, scene, changes>>
    BY <1>7 DEF ServerExecutes, adapterVars
  <2>2. Len(executed') = Len(executed) + 1
    BY <2>1, AppendProperties DEF TypeOK
  <2>3. \A a \in Attrs : device'[a] = Len(executed') + changes /\ device[a] <= Len(executed) + changes
    BY <2>1 DEF Becomes, Past
  <2>4. QED
    BY <1>1, <1>2, <1>4, <2>1, <2>2, <2>3
<1>8. CASE \E a \in Attrs : Change(a)
  <2>1. PICK b \in Attrs : Change(b)
    BY <1>8
  <2>2. /\ changes' = changes + 1 /\ Becomes({b}, Len(executed) + changes')
        /\ UNCHANGED <<seen, acted, scene, executed>>
    BY <2>1 DEF Change, adapterVars
  <2>3. \A a \in Attrs : device'[a] # device[a] =>
          device'[a] = Len(executed) + changes' /\ device[a] <= Len(executed) + changes
    BY <2>2 DEF Becomes, Past
  <2>4. QED
    BY <1>1, <1>2, <1>4, <2>2, <2>3
<1>9. CASE Tick
  <2>1. UNCHANGED <<device, scene, executed, changes>>
    BY <1>9 DEF Tick, deviceVars
  <2>2. \A a \in Attrs : seen'[a] # NONE => seen'[a] <= device'[a]
    BY <1>1, <1>9, <2>1, TickFolds
  <2>3. Increasing(acted')
    BY <1>1, <1>9, TickActs
  <2>4. ASSUME NEW i \in DOMAIN acted' PROVE acted'[i] <= scene'
    <3>1. CASE i \in DOMAIN acted /\ acted'[i] = acted[i]
      BY <2>1, <3>1 DEF Past
    <3>2. CASE \E j \in DOMAIN inbound : IsPress(inbound[j]) /\ acted'[i] = inbound[j].value
      <4>1. PICK j \in DOMAIN inbound : IsPress(inbound[j]) /\ acted'[i] = inbound[j].value
        BY <3>2
      <4>2. inbound[j].value \in 1 .. scene
        BY <4>1 DEF Way, Fine, Sent, IsPress
      <4>3. QED
        BY <1>1, <2>1, <4>1, <4>2
    <3>3. QED
      BY <1>1, <1>9, <3>1, <3>2, TickActs
  <2>5. QED
    BY <1>1, <2>1, <2>2, <2>3, <2>4 DEF Past, Increasing
<1>10. QED
  BY <1>5, <1>6, <1>7, <1>8, <1>9 DEF Next, Transport

-----------------------------------------------------------------------------
(* The theorems *)

(* The inductive invariant: commands are somewhere, and whatever is on its *)
(* way to the engine is ordered, true when it was sent, and news.          *)
IInv == TypeOK /\ WireInv /\ Everything /\ Way /\ Past

LEMMA BridgeTypesStep == ASSUME TypeOK, Way, [Next]_vars PROVE TypeOK'
<1>1. CommandsTyped /\ UpdatesTyped /\ ControlTyped
  BY TypeOKParts
<1>2. CommandsTyped'
  BY <1>1, CommandsTypedStep
<1>3. UpdatesTyped'
  BY UpdatesTypedStep
<1>4. ControlTyped'
  BY <1>1, ControlTypedStep
<1>5. QED
  BY <1>2, <1>3, <1>4 DEF TypeOK, CommandsTyped, UpdatesTyped, ControlTyped

(* The invariant holds in every state: each part is kept by every step     *)
(* that the others allow.                                                  *)
LEMMA Inductive == Spec => []IInv
<1>1. Init => IInv
  <2>1. Init => Everything
    BY DEF Init, Everything, Held
  <2>2. QED
    BY <2>1, BridgeTypesInit, WireInit, WayInit, PastInit DEF IInv
<1>2. IInv /\ [Next]_vars => IInv'
  <2>1. SUFFICES ASSUME IInv, [Next]_vars PROVE IInv'
    OBVIOUS
  <2>2. TypeOK'
    BY <2>1, BridgeTypesStep DEF IInv
  <2>3. WireInv' /\ Everything'
    BY <2>1, WireStep, EverythingStep DEF IInv
  <2>4. Way' /\ Past'
    BY <2>1, <2>2, WayStep, PastStep DEF IInv
  <2>5. QED
    BY <2>2, <2>3, <2>4 DEF IInv
<1>3. QED
  BY <1>1, <1>2, PTL DEF Spec

(* Types are respected by every step of transport, server and adapter.     *)
THEOREM TypesCorrect == Spec => []TypeOK
<1>1. IInv => TypeOK
  BY DEF IInv
<1>2. QED
  BY <1>1, Inductive, PTL

(* Whatever breaks and however often, a command that dispatch accepted is  *)
(* queued, on its way or executed, or was handed to a connection that      *)
(* broke (run_connection's queue outlives the connection).                 *)
THEOREM AccountsCorrect == Spec => []CommandsAccounted
<1>1. IInv => CommandsAccounted
  BY DEF IInv, CommandsAccounted, Everything, WireInv
<1>2. QED
  BY <1>1, Inductive, PTL

(* A press fires at most once, and presses fire in order, although every   *)
(* snapshot repeats the last (ValueUpdate.notification).                   *)
THEOREM PressesCorrect == Spec => []PressesOnce
<1>1. IInv => PressesOnce
  BY DEF IInv, Past, PressesOnce
<1>2. QED
  BY <1>1, Inductive, PTL

(* What the adapter believes of an attribute never goes back: updates are  *)
(* folded in the order in which they were true (fold_hue_sat, tick).       *)
THEOREM FreshCorrect == Spec => NeverRegresses
<1> DEFINE Forward == \A a \in Attrs : seen[a] # NONE => seen'[a] # NONE /\ seen'[a] >= seen[a]
<1>1. IInv /\ [Next]_vars => [Forward]_vars
  <2>1. SUFFICES ASSUME IInv, [Next]_vars PROVE Forward
    OBVIOUS
  <2>2. UpdatesTyped
    BY <2>1, TypeOKParts DEF IInv
  <2>3. CASE Tick
    BY <2>1, <2>2, <2>3, TickFolds DEF IInv
  <2>4. CASE seen' = seen
    <3>1. \A a \in Attrs : seen[a] \in Nat \cup {NONE}
      BY <2>2 DEF UpdatesTyped, Seen
    <3>2. QED
      BY <2>4, <3>1
  <2>5. Tick \/ seen' = seen
    BY <2>1 DEF Next, Transport, Dispatch, Connected, Retry, Break, Handshake, ReadEnds, ReadFrame, QueueUpdate,
                WriteFrame, ConnectFailed, ServerListens, ServerExecutes, Change, Press, vars, adapterVars
  <2>6. QED
    BY <2>3, <2>4, <2>5
<1>2. QED
  BY <1>1, Inductive, PTL DEF Spec, NeverRegresses

-----------------------------------------------------------------------------
(* The link implements Delivery *)

(* What Delivery sees of the link.                                         *)
linkVars == <<wire = "broken", 1 .. issued, Underway, executed>>

(* Nothing is under way at first.                                          *)
LEMMA DeliveryInit == Init => Commands!Init
BY DEF Init, Commands!Init, Underway, Held

(* Steps of updates, and those that only move the thread, are stutters.    *)
LEMMA DeliveryStutter ==
  ASSUME UNCHANGED <<wire, issued, outbound, toServer, executed>> PROVE UNCHANGED linkVars
BY DEF linkVars, Underway, Held

(* dispatch sends: the new command has the highest number.                 *)
LEMMA DispatchSends == ASSUME TypeOK, OrderInv, Dispatch PROVE Commands!Send
<1>1. /\ issued \in Nat /\ issued' = issued + 1
      /\ outbound \in Seq(Nat) /\ outbound' = Append(outbound, issued + 1)
      /\ UNCHANGED <<wire, toServer, executed>>
  BY DEF Dispatch, wireVars, deviceVars, OrderInv, CommandTypes
<1>2. /\ issued + 1 \in (1 .. issued') \ (1 .. issued)
      /\ \A m \in 1 .. issued : m < issued + 1
      /\ 1 .. issued' = 1 .. issued \cup {issued + 1}
  BY <1>1
<1>3. Held(outbound') = Held(outbound) \cup {issued + 1}
  <2>1. Held(outbound') = Held(outbound) \cup ({issued + 1} \ {Listen})
    BY <1>1, HeldAppend
  <2>2. issued + 1 # Listen
    BY <1>1 DEF Listen
  <2>3. QED
    BY <2>1, <2>2
<1>4. Underway' = Underway \cup {issued + 1}
  BY <1>1, <1>3 DEF Underway
<1>5. QED
  BY <1>1, <1>2, <1>4 DEF Commands!Send

(* The frame at the head of the socket is older than all that is under     *)
(* way, and is executed.                                                   *)
LEMMA ExecutesDelivers ==
  ASSUME TypeOK, OrderInv, ServerExecutes PROVE \E n \in Underway : Commands!Deliver(n)
<1> DEFINE n == Head(toServer)
<1>1. /\ toServer \in Seq(Nat) /\ toServer # <<>> /\ n # Listen /\ toServer' = Tail(toServer)
      /\ executed' = Append(executed, n)
      /\ UNCHANGED <<wire, issued, outbound>>
  BY DEF ServerExecutes, OrderInv, CommandTypes
<1>2. /\ n \in Nat /\ n = toServer[1] /\ 1 \in DOMAIN toServer
      /\ \A i \in DOMAIN toServer : i = 1 \/ 1 < i
      /\ \A i \in DOMAIN Tail(toServer) : i + 1 \in DOMAIN toServer /\ 1 < i + 1 /\ Tail(toServer)[i] = toServer[i + 1]
  BY <1>1, TailShifts
<1>3. Held(toServer) = Held(toServer') \cup {n}
  BY <1>1, HeldTail
<1>4. \A m \in Held(outbound) : n < m
  BY <1>1, <1>2 DEF OrderInv, Before, Held
<1>5. \A m \in Held(toServer') : n < m
  <2>1. ASSUME NEW m \in Held(toServer') PROVE n < m
    <3>1. PICK i \in DOMAIN Tail(toServer) : m = Tail(toServer)[i] /\ m # Listen
      BY <1>1, <2>1 DEF Held
    <3>2. QED
      BY <1>1, <1>2, <3>1 DEF OrderInv, OnWire
  <2>2. QED
    BY <2>1
<1>6. Underway' = Underway \ {n} /\ n \in Underway
  <2>1. n \notin Held(outbound) /\ n \notin Held(toServer')
    BY <1>2, <1>4, <1>5
  <2>2. QED
    BY <1>1, <1>3, <2>1 DEF Underway
<1>7. \A m \in Underway : n <= m
  <2>1. \A m \in Underway : m = n \/ m \in Held(outbound) \/ m \in Held(toServer')
    BY <1>3 DEF Underway
  <2>2. Held(outbound) \subseteq Nat /\ Held(toServer') \subseteq Nat
    BY <1>1, <1>2 DEF Held, OrderInv, CommandTypes
  <2>3. QED
    BY <1>2, <1>4, <1>5, <2>1, <2>2
<1>8. Commands!Deliver(n)
  BY <1>1, <1>6, <1>7 DEF Commands!Deliver
<1>9. QED
  BY <1>6, <1>8

(* A connection that breaks takes along what the socket holds.             *)
LEMMA BreakIsOutage == ASSUME TypeOK, Break PROVE Commands!Outage
<1>1. /\ wire' = "broken" /\ toServer' = <<>> /\ UNCHANGED <<issued, outbound, executed>>
  BY DEF Break, deviceVars
<1>2. Underway' \subseteq Underway
  BY <1>1 DEF Underway, Held
<1>3. QED
  BY <1>1, <1>2 DEF Commands!Outage

(* A frame moves from the queue to the socket, or is lost on a broken one. *)
LEMMA WriteMovesOrLoses ==
  ASSUME TypeOK, WireInv, OrderInv, WriteFrame PROVE Commands!Lose \/ UNCHANGED linkVars
<1>1. /\ outbound \in Seq(Nat) /\ toServer \in Seq(Nat) /\ outbound # <<>> /\ outbound' = Tail(outbound)
      /\ UNCHANGED <<wire, issued, executed>>
  BY DEF WriteFrame, OrderInv, CommandTypes, deviceVars
<1>2. /\ Head(outbound) \in Nat
      /\ Held(outbound) = Held(outbound') \cup ({Head(outbound)} \ {Listen})
  BY <1>1, TailShifts, HeldTail
<1>3. CASE wire = "up"
  <2>1. Held(toServer') = Held(toServer) \cup ({Head(outbound)} \ {Listen})
    BY <1>1, <1>2, <1>3, HeldAppend DEF WriteFrame
  <2>2. Underway' = Underway
    BY <1>2, <2>1 DEF Underway
  <2>3. QED
    BY <1>1, <2>2 DEF linkVars
<1>4. CASE wire # "up"
  <2>1. wire = "broken" /\ toServer' = toServer
    BY <1>4 DEF WriteFrame, Pumping, WireInv, TypeOK
  <2>2. Underway' \subseteq Underway
    BY <1>2, <2>1 DEF Underway
  <2>3. Commands!Lose
    BY <1>1, <2>1, <2>2 DEF Commands!Lose
  <2>4. QED
    BY <2>3
<1>5. QED
  BY <1>3, <1>4

(* Every step of transport, server and adapter is one of Delivery's, or a  *)
(* stutter: start_listening is no command, and a new socket is as empty as *)
(* the broken one was.                                                     *)
LEMMA DeliveryStep ==
  ASSUME TypeOK, WireInv, OrderInv, [Next]_vars PROVE Commands!Next \/ UNCHANGED linkVars
<1>1. CASE Dispatch
  BY <1>1, DispatchSends DEF Commands!Next
<1>2. CASE ServerExecutes
  BY <1>2, ExecutesDelivers DEF Commands!Next
<1>3. CASE Break
  BY <1>3, BreakIsOutage DEF Commands!Next
<1>4. CASE WriteFrame
  BY <1>4, WriteMovesOrLoses DEF Commands!Next
<1>5. CASE Retry
  <2>1. wire' = "none" /\ UNCHANGED <<issued, outbound, toServer, executed>>
    BY <1>5 DEF Retry, deviceVars
  <2>2. Underway' = Underway
    BY <2>1 DEF Underway, Held
  <2>3. CASE wire = "broken"
    BY <2>1, <2>2, <2>3 DEF Commands!Next, Commands!Lose
  <2>4. CASE wire # "broken"
    BY <2>1, <2>2, <2>4 DEF linkVars
  <2>5. QED
    BY <2>3, <2>4
<1>6. CASE Connected
  <2>1. toServer = <<>>
    BY <1>6 DEF Connected, WireInv
  <2>2. wire' = "up" /\ toServer' = toServer /\ UNCHANGED <<issued, outbound, executed>>
    BY <1>6, <2>1 DEF Connected, deviceVars
  <2>3. Underway' = Underway
    BY <2>2 DEF Underway, Held
  <2>4. CASE wire = "broken"
    BY <2>2, <2>3, <2>4 DEF Commands!Next, Commands!Lose
  <2>5. CASE wire # "broken"
    BY <2>2, <2>3, <2>5 DEF linkVars
  <2>6. QED
    BY <2>4, <2>5
<1>7. CASE Handshake \/ ServerListens
  <2>1. UNCHANGED <<wire, issued, outbound, executed>>
    BY <1>7 DEF Handshake, ServerListens, deviceVars
  <2>2. Held(toServer') = Held(toServer)
    <3>1. toServer \in Seq(Nat) /\ Listen \in Nat
      BY DEF OrderInv, CommandTypes, Listen
    <3>2. CASE toServer' = toServer
      BY <3>2
    <3>3. CASE toServer' = Append(toServer, Listen)
      <4>1. Held(toServer') = Held(toServer) \cup ({Listen} \ {Listen})
        BY <3>1, <3>3, HeldAppend
      <4>2. QED
        BY <4>1
    <3>4. CASE toServer # <<>> /\ Head(toServer) = Listen /\ toServer' = Tail(toServer)
      <4>1. Held(toServer) = Held(toServer') \cup ({Listen} \ {Listen})
        BY <3>1, <3>4, HeldTail
      <4>2. QED
        BY <4>1
    <3>5. QED
      BY <1>7, <3>2, <3>3, <3>4 DEF Handshake, ServerListens
  <2>3. QED
    BY <2>1, <2>2 DEF linkVars, Underway
<1>8. CASE \/ Tick \/ ReadFrame \/ QueueUpdate \/ ReadEnds \/ ConnectFailed \/ Press
          \/ UNCHANGED vars \/ \E a \in Attrs : Change(a)
  <2>1. UNCHANGED <<wire, issued, outbound, toServer, executed>>
    BY <1>8 DEF Tick, ReadFrame, QueueUpdate, ReadEnds, ConnectFailed, Press, Change, vars, wireVars, deviceVars
  <2>2. QED
    BY <2>1, DeliveryStutter
<1>9. QED
  BY <1>1, <1>2, <1>3, <1>4, <1>5, <1>6, <1>7, <1>8 DEF Next, Transport

(* The transport's threads, queues and sockets do what Delivery promises:  *)
(* commands arrive once, in the order of dispatch, and none is lost while  *)
(* the connection is up (run_connection).                                  *)
THEOREM DeliversCorrect == Spec => DeliversOnce
<1>1. TypeOK /\ WireInv /\ OrderInv /\ [Next]_vars => [Commands!Next]_linkVars
  BY DeliveryStep
<1>2. [Commands!Next]_linkVars
        <=> [Commands!Next]_<<wire = "broken", 1 .. issued, Underway, Underway, executed>>
  BY DEF linkVars
<1>3. Spec => [](TypeOK /\ WireInv) /\ []OrderInv
  <2>1. IInv => TypeOK /\ WireInv
    BY DEF IInv
  <2>2. QED
    BY <2>1, Inductive, OrderInit, OrderStep, PTL DEF Spec
<1>4. QED
  BY <1>1, <1>2, <1>3, DeliveryInit, PTL DEF Spec, DeliversOnce, Commands!Spec
=============================================================================
