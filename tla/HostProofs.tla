----------------------------- MODULE HostProofs -----------------------------
(***************************************************************************)
(* Proofs about the host and the clock, for every number of transports,    *)
(* every schedule and offset and every bound: a queued message never waits *)
(* for a timeout, virtual time falls behind by less than a millisecond in  *)
(* each advance and never runs ahead, every occurrence of a schedule is    *)
(* fired once and in order, the pump never plans to sleep past one, and    *)
(* the clock's report is of the present minute.                            *)
(***************************************************************************)
EXTENDS HostProperties, SequenceTheorems, FiniteSetTheorems, WellFoundedInduction, TLAPS

-----------------------------------------------------------------------------
(* Queued messages *)

(* NoLostWakeup is about the wait only; a message must be accounted for    *)
(* from the moment the pump has finished the tick that missed it.          *)
Accounted ==
  /\ wakeups \in Nat
  /\ source \in [Sources -> {"idle", "queued"}]
  /\ inbound > 0 /\ pump \in {"start", "loop", "wait"} =>
       wakeups > 0 \/ \E s \in Sources : source[s] = "queued"

LEMMA AccountedInit == Init => Accounted
  BY DEF Init, Accounted

LEMMA AccountedStep == Accounted /\ [Next]_vars => Accounted'
<1> SUFFICES ASSUME Accounted, [Next]_vars PROVE Accounted'
  OBVIOUS
<1> USE DEF Accounted
<1>1. CASE Start
  BY <1>1 DEF Start, sourceVars
<1>2. CASE EnterLoop
  BY <1>2 DEF EnterLoop, sourceVars
<1>3. CASE Plan
  BY <1>3 DEF Plan, sourceVars
<1>4. CASE Signaled
  BY <1>4 DEF Signaled, sourceVars
<1>5. CASE TimedOut
  BY <1>5 DEF TimedOut, sourceVars
<1>6. CASE CheckShutdown
  BY <1>6 DEF CheckShutdown, sourceVars
<1>7. CASE Advance
  BY <1>7 DEF Advance, sourceVars
<1>8. ASSUME NEW s \in Sources, Queue(s) PROVE Accounted'
  <2>1. source'[s] = "queued" /\ wakeups' = wakeups
    BY <1>8 DEF Queue
  <2>2. source' \in [Sources -> {"idle", "queued"}]
    BY <1>8 DEF Queue
  <2> QED
    BY <2>1, <2>2
<1>9. ASSUME NEW s \in Sources, Wake(s) PROVE Accounted'
  <2>1. wakeups' > 0 /\ wakeups' \in Nat
    BY <1>9 DEF Wake
  <2>2. source' \in [Sources -> {"idle", "queued"}]
    BY <1>9 DEF Wake
  <2> QED
    BY <2>1, <2>2
<1>10. CASE Signal
  BY <1>10 DEF Signal, sourceVars
<1>11. CASE SignalWake
  BY <1>11 DEF SignalWake, pumpVars, sourceVars
<1>12. CASE Pass
  BY <1>12 DEF Pass, pumpVars, sourceVars
<1>13. CASE UNCHANGED vars
  BY <1>13 DEF vars, pumpVars, sourceVars
<1> QED
  BY <1>1, <1>2, <1>3, <1>4, <1>5, <1>6, <1>7, <1>8, <1>9, <1>10, <1>11, <1>12, <1>13 DEF Next, Pump

(* The pump is never asleep on a queued message without a wakeup in the    *)
(* channel or on its way (wake.rs; the transports of the adapters).        *)
THEOREM WakeupsCorrect == Spec => []NoLostWakeup
<1>1. Accounted => NoLostWakeup
  BY DEF Accounted, NoLostWakeup
<1> QED
  BY <1>1, AccountedInit, AccountedStep, PTL DEF Spec

-----------------------------------------------------------------------------
(* Virtual and real time *)

(* as_millis drops less than a millisecond.                                *)
LEMMA MillisDropped ==
  ASSUME NEW span \in Nat
  PROVE  /\ AsMillis(span) \in Nat
         /\ 0 =< span - Sub * AsMillis(span)
         /\ span - Sub * AsMillis(span) =< Sub - 1
  BY HostAssumption DEF AsMillis

(* LagBounded with what it needs: virtual time has not begun before the    *)
(* loop is entered, and the pump has not read a clock of the future.       *)
LagInv ==
  /\ real \in Nat /\ now \in Nat /\ last \in Nat /\ began \in Nat /\ advances \in Nat
  /\ last =< real
  /\ pump \in {"build", "start"} => now = 0 /\ last = began /\ advances = 0
  /\ LagBounded

LEMMA LagInit == Init => LagInv
  BY HostAssumption DEF Init, LagInv, LagBounded, Lag

LEMMA LagStep == LagInv /\ [Next]_vars => LagInv'
<1> SUFFICES ASSUME LagInv, [Next]_vars PROVE LagInv'
  OBVIOUS
<1> USE HostAssumption DEF LagInv, LagBounded, Lag
<1>1. CASE Start
  BY <1>1 DEF Start
<1>2. CASE EnterLoop
  BY <1>2 DEF EnterLoop
<1>3. CASE Plan
  BY <1>3 DEF Plan
<1>4. CASE Signaled
  BY <1>4 DEF Signaled
<1>5. CASE TimedOut
  BY <1>5 DEF TimedOut
<1>6. CASE CheckShutdown
  BY <1>6 DEF CheckShutdown
<1>7. CASE Advance
  <2> DEFINE span == real - last
             ms == AsMillis(span)
  <2>1. span \in Nat
    OBVIOUS
  <2>2. ms \in Nat /\ 0 =< span - Sub * ms /\ span - Sub * ms =< Sub - 1
    BY <2>1, MillisDropped
  <2>3. /\ now' = now + ms /\ last' = real /\ advances' = advances + 1
        /\ UNCHANGED <<real, began>> /\ pump' = "loop"
    BY <1>7 DEF Advance
  <2> HIDE DEF ms
  <2>4. Lag' = Lag + (span - Sub * ms)
    <3>1. Sub * (now + ms) = Sub * now + Sub * ms
      BY <2>2
    <3> QED
      BY <2>2, <2>3, <3>1
  <2>5. (Sub - 1) * advances' = (Sub - 1) * advances + (Sub - 1)
    BY <2>3
  <2>6. Lag \in Int /\ span - Sub * ms \in Int /\ (Sub - 1) * advances \in Int
    BY <2>2
  <2>7. LagBounded'
    <3> HIDE DEF Lag, span
    <3> QED
      BY <2>2, <2>4, <2>5, <2>6
  <2> QED
    BY <2>2, <2>3, <2>7
<1>8. ASSUME NEW s \in Sources, Queue(s) PROVE LagInv'
  BY <1>8 DEF Queue, pumpVars
<1>9. ASSUME NEW s \in Sources, Wake(s) PROVE LagInv'
  BY <1>9 DEF Wake, pumpVars
<1>10. CASE Signal
  BY <1>10 DEF Signal
<1>11. CASE SignalWake
  BY <1>11 DEF SignalWake, pumpVars
<1>12. CASE Pass
  BY <1>12 DEF Pass, pumpVars
<1>13. CASE UNCHANGED vars
  BY <1>13 DEF vars, pumpVars
<1> QED
  BY <1>1, <1>2, <1>3, <1>4, <1>5, <1>6, <1>7, <1>8, <1>9, <1>10, <1>11, <1>12, <1>13 DEF Next, Pump

(* Virtual time is never ahead of real time, and is behind by less than a  *)
(* millisecond for every advance so far: the best bound the code has.      *)
THEOREM LagCorrect == Spec => []LagBounded
<1>1. LagInv => LagBounded
  BY DEF LagInv
<1> QED
  BY <1>1, LagInit, LagStep, PTL DEF Spec
-----------------------------------------------------------------------------
(* The operators of the clock *)

LEMMA MinIs ==
  ASSUME NEW S, S \subseteq Nat, S # {}
  PROVE  FS!Min(S) \in S /\ \A x \in S : FS!Min(S) =< x
<1>1. PICK m \in S : \A x \in S : <<x, m>> \notin OpToRel(<, Nat)
  BY NatLessThanWellFounded, WFMin
<1>2. \A x \in S : m =< x
  <2>1. \A x \in S : ~(x < m)
    BY <1>1 DEF OpToRel
  <2>2. QED
    BY <2>1
<1>3. QED
  BY <1>2 DEF FS!Min

LEMMA OccurrencesNat ==
  ASSUME NEW s \in Schedules
  PROVE  /\ Occurrences[s] \subseteq Instants
         /\ Occurrences[s] \subseteq Nat /\ NONE \notin Occurrences[s]
  BY ClockAssumption DEF Instants

(* The occurrence after an instant is the first there is, if there is any. *)
LEMMA NextIs ==
  ASSUME NEW s \in Schedules, NEW t \in Nat
  PROVE  \/ /\ NextOccurrence(s, t) = NONE
            /\ \A o \in Occurrences[s] : o =< t
         \/ /\ NextOccurrence(s, t) \in Occurrences[s] /\ NextOccurrence(s, t) > t
            /\ \A o \in Occurrences[s] : o > t => NextOccurrence(s, t) =< o
<1> DEFINE later == {o \in Occurrences[s] : o > t}
<1>1. later \subseteq Nat
  BY OccurrencesNat
<1>2. CASE later = {}
  <2>1. NextOccurrence(s, t) = NONE
    BY <1>2 DEF NextOccurrence
  <2>2. \A o \in Occurrences[s] : o =< t
    BY <1>2, OccurrencesNat
  <2>3. QED
    BY <2>1, <2>2
<1>3. CASE later # {}
  <2>1. NextOccurrence(s, t) = FS!Min(later)
    BY <1>3 DEF NextOccurrence
  <2>2. FS!Min(later) \in later /\ \A o \in later : FS!Min(later) =< o
    BY <1>1, <1>3, MinIs
  <2>3. QED
    BY <2>1, <2>2
<1>4. QED
  BY <1>2, <1>3

(* What the loop of fire_due_schedules leaves and fires, in one formula.   *)
Due(s, from, t) == {o \in Occurrences[s] : from # NONE /\ from =< o /\ o =< t}
Left(s, from, t) == IF from = NONE \/ from > t THEN from ELSE NextOccurrence(s, t)
Loops(s, from, t) == [due |-> {<<o, s>> : o \in Due(s, from, t)}, next |-> Left(s, from, t)]

LEMMA LoopsStep ==
  ASSUME NEW s \in Schedules, NEW t \in Nat, NEW n \in Occurrences[s], n =< t
  PROVE  Loops(s, n, t) =
           [Loops(s, NextOccurrence(s, n), t) EXCEPT !.due = @ \cup {<<n, s>>}]
<1> DEFINE m == NextOccurrence(s, n)
<1>1. n \in Nat /\ n # NONE /\ Occurrences[s] \subseteq Nat
  BY OccurrencesNat
<1>2. \/ m = NONE /\ \A o \in Occurrences[s] : o =< n
      \/ m \in Occurrences[s] /\ m > n /\ \A o \in Occurrences[s] : o > n => m =< o
  BY <1>1, NextIs
<1>3. \/ NextOccurrence(s, t) = NONE /\ \A o \in Occurrences[s] : o =< t
      \/ /\ NextOccurrence(s, t) \in Occurrences[s] /\ NextOccurrence(s, t) > t
         /\ \A o \in Occurrences[s] : o > t => NextOccurrence(s, t) =< o
  BY NextIs
<1> HIDE DEF m
<1>4. Due(s, n, t) = Due(s, m, t) \cup {n}
  BY <1>1, <1>2, OccurrencesNat DEF Due
<1>5. Left(s, n, t) = Left(s, m, t)
  BY <1>1, <1>2, <1>3, OccurrencesNat DEF Left
<1>6. Loops(s, n, t).due = Loops(s, m, t).due \cup {<<n, s>>}
  BY <1>4 DEF Loops
<1>7. Loops(s, n, t) = [Loops(s, m, t) EXCEPT !.due = @ \cup {<<n, s>>}]
  <2>1. Loops(s, n, t) = [due |-> Loops(s, n, t).due, next |-> Left(s, n, t)]
    BY DEF Loops
  <2>2. Loops(s, m, t) = [due |-> Loops(s, m, t).due, next |-> Left(s, m, t)]
    BY DEF Loops
  <2>3. [Loops(s, m, t) EXCEPT !.due = @ \cup {<<n, s>>}]
          = [due |-> Loops(s, m, t).due \cup {<<n, s>>}, next |-> Left(s, m, t)]
    BY <2>2
  <2>4. QED
    BY <1>5, <1>6, <2>1, <2>3
<1>8. QED
  BY <1>7 DEF m

(* A tick before the next occurrence fires nothing.                        *)
LEMMA LoopsEnd ==
  ASSUME NEW s \in Schedules, NEW t \in Nat, NEW n \in Occurrences[s] \cup {NONE},
         n = NONE \/ n > t
  PROVE  Loops(s, n, t) = [due |-> {}, next |-> n]
<1>1. Due(s, n, t) = {}
  <2>1. CASE n = NONE
    BY <2>1 DEF Due
  <2>2. CASE n # NONE /\ n > t
    BY <2>2, OccurrencesNat DEF Due
  <2>3. QED
    BY <2>1, <2>2
<1>2. Left(s, n, t) = n
  BY DEF Left
<1>3. {<<o, s>> : o \in Due(s, n, t)} = {}
  BY <1>1
<1>4. QED
  BY <1>2, <1>3 DEF Loops

LEMMA CatchUpIs ==
  ASSUME NEW s \in Schedules, NEW t \in Nat, NEW from \in Occurrences[s] \cup {NONE}
  PROVE  CatchUp(s, from, t) = Loops(s, from, t)
<1> DEFINE D == Occurrences[s] \cup {NONE}
           Body(f) == [n \in D |->
             IF n = NONE \/ n > t THEN [due |-> {}, next |-> n]
             ELSE [f[NextOccurrence(s, n)] EXCEPT !.due = @ \cup {<<n, s>>}]]
           Loop == CHOOSE f : f = Body(f)
           closed == [n \in D |-> Loops(s, n, t)]
<1>1. \A n \in D : n # NONE => NextOccurrence(s, n) \in D
  BY NextIs, OccurrencesNat
<1>2. closed = Body(closed)
  <2>1. ASSUME NEW n \in D, n = NONE \/ n > t
        PROVE  Loops(s, n, t) = [due |-> {}, next |-> n]
    BY <2>1, LoopsEnd
  <2>2. ASSUME NEW n \in D, ~(n = NONE \/ n > t)
        PROVE  Loops(s, n, t) =
                 [closed[NextOccurrence(s, n)] EXCEPT !.due = @ \cup {<<n, s>>}]
    BY <2>2, <1>1, LoopsStep, OccurrencesNat
  <2>3. ASSUME NEW n \in D PROVE closed[n] = Body(closed)[n]
    <3>1. closed[n] = Loops(s, n, t)
      OBVIOUS
    <3>2. CASE n = NONE \/ n > t
      BY <2>1, <3>1, <3>2
    <3>3. CASE ~(n = NONE \/ n > t)
      BY <2>2, <3>1, <3>3
    <3>4. QED
      BY <3>2, <3>3
  <2>4. DOMAIN closed = D /\ DOMAIN Body(closed) = D /\ closed = [n \in D |-> closed[n]]
        /\ Body(closed) = [n \in D |-> Body(closed)[n]]
    OBVIOUS
  <2> HIDE DEF closed, Body
  <2>5. QED
    BY <2>3, <2>4
<1>3. Loop = Body(Loop)
  BY <1>2
<1>4. CatchUp(s, from, t) = Loop[from]
  BY DEF CatchUp
<1> HIDE DEF Loop
<1>5. ASSUME NEW f, f = Body(f) PROVE \A n \in D : f[n] = Loops(s, n, t)
  <2> DEFINE B == {n \in D : f[n] # Loops(s, n, t)}
             R == {Boot + MaxTime - n : n \in B}
  <2>1. SUFFICES ASSUME B # {} PROVE FALSE
    OBVIOUS
  <2>2. NONE \notin B /\ \A n \in B : n =< t
    <3>1. ASSUME NEW n \in D, n = NONE \/ n > t PROVE f[n] = Loops(s, n, t)
      <4>1. f[n] = [due |-> {}, next |-> n]
        BY <1>5, <3>1
      <4>2. closed[n] = [due |-> {}, next |-> n]
        BY <1>2, <3>1
      <4>3. QED
        BY <4>1, <4>2
    <3>2. \A n \in B : ~(n = NONE \/ n > t)
      BY <3>1
    <3>3. QED
      BY <3>2, OccurrencesNat
  <2>3. R \subseteq Nat /\ R # {}
    <3>1. \A n \in B : Boot + MaxTime - n \in Nat
      BY <2>2, OccurrencesNat, ClockAssumption DEF Instants
    <3>2. QED
      BY <2>1, <3>1
  <2>4. PICK n \in B : FS!Min(R) = Boot + MaxTime - n
    BY <2>3, MinIs
  <2>5. \A m \in B : m =< n
    <3>1. \A m \in B : Boot + MaxTime - n =< Boot + MaxTime - m
      BY <2>3, <2>4, MinIs
    <3>2. Boot \in Nat /\ MaxTime \in Nat
      BY ClockAssumption
    <3>3. n \in Nat /\ \A m \in B : m \in Nat
      BY <2>2, OccurrencesNat
    <3>4. \A m \in Nat : Boot + MaxTime - n =< Boot + MaxTime - m => m =< n
      BY <3>2, <3>3
    <3>5. QED
      BY <3>1, <3>3, <3>4
  <2>6. NextOccurrence(s, n) \notin B
    BY <2>2, <2>5, NextIs, OccurrencesNat
  <2>7. f[n] = [f[NextOccurrence(s, n)] EXCEPT !.due = @ \cup {<<n, s>>}]
    <3>1. n \in D /\ ~(n = NONE \/ n > t)
      BY <2>2, OccurrencesNat
    <3>2. QED
      BY <1>5, <3>1
  <2>8. QED
    BY <1>1, <2>2, <2>6, <2>7, LoopsStep, OccurrencesNat
<1>6. \A n \in D : Loop[n] = Loops(s, n, t)
  BY <1>3, <1>5
<1>7. QED
  BY <1>4, <1>6

(* The order of fires *)

Pairs(fires) == fires \subseteq Nat \X Nat /\ IsFiniteSet(fires)
Sorted(q) == \A i, j \in DOMAIN q : i < j => Earlier(q[i], q[j])

LEMMA FirstExists ==
  ASSUME NEW fires, Pairs(fires), fires # {}
  PROVE  \E a \in fires : \A b \in fires \ {a} : Earlier(a, b)
<1> DEFINE times == {f[1] : f \in fires}
           early == {f \in fires : f[1] = FS!Min(times)}
           ids   == {f[2] : f \in early}
<1>1. \A f \in fires : f[1] \in Nat /\ f[2] \in Nat /\ f = <<f[1], f[2]>>
  BY DEF Pairs
<1>2. times \subseteq Nat /\ times # {}
  BY <1>1
<1>3. FS!Min(times) \in times /\ \A x \in times : FS!Min(times) =< x
  BY <1>2, MinIs
<1>4. ids \subseteq Nat /\ ids # {}
  BY <1>1, <1>3
<1>5. FS!Min(ids) \in ids /\ \A x \in ids : FS!Min(ids) =< x
  BY <1>4, MinIs
<1>6. PICK a \in early : a[2] = FS!Min(ids)
  BY <1>5
<1>7. ASSUME NEW b \in fires \ {a} PROVE Earlier(a, b)
  <2>1. a[1] =< b[1]
    BY <1>3, <1>6
  <2>2. b[1] = a[1] => a[2] =< b[2]
    BY <1>5, <1>6
  <2>3. b[1] # a[1] \/ b[2] # a[2]
    BY <1>1, <1>6
  <2>4. QED
    BY <1>1, <1>6, <2>1, <2>2, <2>3 DEF Earlier
<1>8. QED
  BY <1>6, <1>7

Lists(q, fires) == q \in [1 .. Cardinality(fires) -> fires] /\ Sorted(q)

LEMMA OrderExists ==
  ASSUME NEW fires, Pairs(fires)
  PROVE  \E q : Lists(q, fires)
<1> DEFINE None(S) == \A q : ~Lists(q, S)
           sizes == {Cardinality(S) : S \in {S \in SUBSET fires : None(S)}}
<1>1. \A S \in SUBSET fires : Pairs(S) /\ Cardinality(S) \in Nat
  BY FS_Subset, FS_CardinalityType DEF Pairs
<1>2. SUFFICES ASSUME sizes # {} PROVE FALSE
  OBVIOUS
<1>3. sizes \subseteq Nat
  BY <1>1
<1>4. PICK S \in SUBSET fires : None(S) /\ Cardinality(S) = FS!Min(sizes)
  BY <1>2, <1>3, MinIs
<1>5. \A T \in SUBSET fires : Cardinality(T) < Cardinality(S) => ~None(T)
  <2>1. \A T \in SUBSET fires : None(T) => FS!Min(sizes) =< Cardinality(T)
    BY <1>2, <1>3, MinIs
  <2>2. QED
    BY <1>1, <1>4, <2>1
<1>6. S # {}
  <2>1. SUFFICES ASSUME S = {} PROVE FALSE
    OBVIOUS
  <2>2. Cardinality(S) = 0
    BY <2>1, FS_EmptySet
  <2>3. <<>> \in [1 .. 0 -> S] /\ Sorted(<<>>)
    BY DEF Sorted
  <2>4. QED
    BY <1>4, <2>2, <2>3 DEF Lists
<1>7. PICK a \in S : \A b \in S \ {a} : Earlier(a, b)
  BY <1>1, <1>6, FirstExists
<1>8. Cardinality(S \ {a}) = Cardinality(S) - 1 /\ Cardinality(S) \in Nat \ {0}
  BY <1>1, <1>6, FS_RemoveElement, FS_EmptySet DEF Pairs
<1>9. PICK q : Lists(q, S \ {a})
  BY <1>5, <1>8
<1> PICK n \in Nat \ {0} : n = Cardinality(S)
  BY <1>8
<1> DEFINE r == [i \in 1 .. n |-> IF i = 1 THEN a ELSE q[i - 1]]
<1>10. q \in [1 .. n - 1 -> S \ {a}]
  BY <1>8, <1>9 DEF Lists
<1>11. r \in [1 .. n -> S]
  BY <1>10
<1>12. ASSUME NEW i \in 1 .. n, NEW j \in 1 .. n, i < j PROVE Earlier(r[i], r[j])
  <2>1. r[j] = q[j - 1] /\ j - 1 \in 1 .. n - 1
    BY <1>12
  <2>2. CASE i = 1
    BY <1>7, <1>10, <2>1, <2>2
  <2>3. CASE i # 1
    <3>1. r[i] = q[i - 1] /\ i - 1 \in 1 .. n - 1 /\ i - 1 < j - 1
      BY <1>12, <2>3
    <3>2. Earlier(q[i - 1], q[j - 1])
      BY <1>9, <1>10, <2>1, <3>1 DEF Lists, Sorted
    <3>3. QED
      BY <2>1, <3>1, <3>2
  <2>4. QED
    BY <2>2, <2>3
<1>13. Lists(r, S)
  <2>1. Sorted(r)
    BY <1>11, <1>12 DEF Sorted
  <2>2. QED
    BY <1>11, <2>1 DEF Lists
<1>14. QED
  BY <1>4, <1>13

(* The sort lists every fire once.                                         *)
LEMMA InOrderIs ==
  ASSUME NEW fires, Pairs(fires)
  PROVE  /\ InOrder(fires) \in Seq(fires)
         /\ Sorted(InOrder(fires))
         /\ {InOrder(fires)[i] : i \in DOMAIN InOrder(fires)} = fires
<1> DEFINE n == Cardinality(fires)
           I == 1 .. n
<1>1. n \in Nat
  BY FS_CardinalityType DEF Pairs
<1>2. \E q \in [I -> fires] : \A i, j \in DOMAIN q : i < j => Earlier(q[i], q[j])
  BY OrderExists DEF Lists, Sorted
<1>3. PICK q : q = InOrder(fires)
  OBVIOUS
<1>4. q \in [I -> fires] /\ \A i, j \in DOMAIN q : i < j => Earlier(q[i], q[j])
  BY <1>2, <1>3 DEF InOrder
<1> DEFINE image == {q[i] : i \in I}
<1>5. \A i, j \in I : q[i] = q[j] => i = j
  <2>1. \A i \in I : q[i] \in fires /\ q[i][1] \in Nat /\ q[i][2] \in Nat
    BY <1>4 DEF Pairs
  <2>2. \A i, j \in I : i < j => q[i] # q[j]
    BY <1>4, <2>1 DEF Earlier
  <2>3. \A i, j \in I : i < j \/ i = j \/ j < i
    BY <1>1
  <2>4. QED
    BY <2>2, <2>3
<1>6. IsFiniteSet(I) /\ Cardinality(I) = n
  BY <1>1, FS_Interval
<1>7. image \subseteq fires
  BY <1>4
<1>8. Cardinality(image) = n
  <2>1. q \in [I -> image]
    BY <1>4
  <2>2. q \in Bijection(I, image)
    <3>1. \A x \in image : \E i \in I : q[i] = x
      OBVIOUS
    <3> HIDE DEF image, I
    <3>2. QED
      BY <1>5, <2>1, <3>1 DEF Bijection, Injection, Surjection, IsInjective
  <2>3. ExistsBijection(I, image)
    BY <2>2 DEF ExistsBijection
  <2>4. QED
    BY <1>6, <2>3, FS_Bijection
<1>9. image = fires
  BY <1>7, <1>8, FS_Subset DEF Pairs
<1>10. Sorted(q)
  BY <1>4 DEF Sorted
<1>11. q \in Seq(fires)
  BY <1>1, <1>4
<1>12. QED
  BY <1>3, <1>4, <1>9, <1>10, <1>11

-----------------------------------------------------------------------------
(* What a tick of the clock fires *)

Passed(m) == {f \in Instants \X Schedules :
                f[1] \in Occurrences[f[2]] /\ Boot < f[1] /\ f[1] =< WallAt(m)}
Span(m, n) == {f \in Instants \X Schedules :
                f[1] \in Occurrences[f[2]] /\ WallAt(m) < f[1] /\ f[1] =< WallAt(n)}

(* Before the boot tick too, everything up to the present has been fired   *)
(* in order, and afterwards every schedule waits for its next occurrence.  *)
Caught ==
  /\ fired \in Seq(Instants \X Schedules)
  /\ {fired[i] : i \in DOMAIN fired} = Passed(now)
  /\ Sorted(fired)
  /\ nextFire = [s \in Schedules |-> IF armed THEN NextOccurrence(s, WallAt(now)) ELSE NONE]

LEMMA SpanPairs ==
  ASSUME NEW m, NEW n
  PROVE  Pairs(Span(m, n))
<1>1. Instants \subseteq Nat /\ Schedules \subseteq Nat
  BY ClockAssumption DEF Instants
<1>2. IsFiniteSet(Instants)
  BY ClockAssumption, FS_Interval DEF Instants
<1>3. IsFiniteSet(Instants \X Schedules)
  BY <1>2, ClockAssumption, FS_Product
<1>4. Span(m, n) \subseteq Instants \X Schedules
  BY DEF Span
<1>5. IsFiniteSet(Span(m, n))
  BY <1>3, <1>4, FS_Subset
<1>6. Span(m, n) \subseteq Nat \X Nat
  BY <1>1, <1>4
<1>7. QED
  BY <1>5, <1>6 DEF Pairs

(* From the occurrence after one instant, the loop fires what lies between *)
(* that instant and a later one, and stops at the occurrence after that.   *)
LEMMA LoopsFromNext ==
  ASSUME NEW s \in Schedules, NEW u \in Nat, NEW t \in Nat, u =< t
  PROVE  /\ CatchUp(s, NextOccurrence(s, u), t).next = NextOccurrence(s, t)
         /\ CatchUp(s, NextOccurrence(s, u), t).due
              = {<<o, s>> : o \in {o \in Occurrences[s] : u < o /\ o =< t}}
<1>1. PICK n : n = NextOccurrence(s, u)
  OBVIOUS
<1>2. \/ n = NONE /\ \A o \in Occurrences[s] : o =< u
      \/ n \in Occurrences[s] /\ n > u /\ \A o \in Occurrences[s] : o > u => n =< o
  BY <1>1, NextIs
<1>3. PICK m : m = NextOccurrence(s, t)
  OBVIOUS
<1>4. \/ m = NONE /\ \A o \in Occurrences[s] : o =< t
      \/ m \in Occurrences[s] /\ m > t /\ \A o \in Occurrences[s] : o > t => m =< o
  BY <1>3, NextIs
<1>5. Occurrences[s] \subseteq Nat /\ NONE \notin Occurrences[s]
  BY OccurrencesNat
<1>6. Left(s, n, t) = m
  BY <1>2, <1>3, <1>4, <1>5 DEF Left
<1>7. Due(s, n, t) = {o \in Occurrences[s] : u < o /\ o =< t}
  BY <1>2, <1>5 DEF Due
<1>8. CatchUp(s, n, t) = Loops(s, n, t)
  BY <1>2, CatchUpIs
<1>9. QED
  BY <1>1, <1>3, <1>6, <1>7, <1>8 DEF Loops

(* Every entry of p comes before every entry of q; the entries of q.      *)
AllBefore(p, q) == \A i \in DOMAIN p, j \in DOMAIN q : Earlier(p[i], q[j])
Entries(q) == {q[i] : i \in DOMAIN q}

LEMMA SortedConcat ==
  ASSUME NEW S, NEW p \in Seq(S), NEW q \in Seq(S), Sorted(p), Sorted(q), AllBefore(p, q)
  PROVE  /\ p \o q \in Seq(S) /\ Sorted(p \o q)
         /\ Entries(p \o q) = Entries(p) \cup Entries(q)
<1>1. PICK r : r = p \o q
  OBVIOUS
<1>2. /\ r \in Seq(S) /\ Len(r) = Len(p) + Len(q)
      /\ \A i \in 1 .. Len(r) : r[i] = IF i =< Len(p) THEN p[i] ELSE q[i - Len(p)]
  BY <1>1, ConcatProperties
<1>3. /\ DOMAIN p = 1 .. Len(p) /\ DOMAIN q = 1 .. Len(q) /\ DOMAIN r = 1 .. Len(r)
      /\ Len(p) \in Nat /\ Len(q) \in Nat
  BY <1>2, LenProperties
<1>4. \A i \in DOMAIN p : i \in DOMAIN r /\ r[i] = p[i]
  BY <1>2, <1>3
<1>5. \A i \in DOMAIN q : i + Len(p) \in DOMAIN r /\ r[i + Len(p)] = q[i]
  BY <1>2, <1>3
<1>6. \A i \in DOMAIN r : \/ i \in DOMAIN p
                          \/ i > Len(p) /\ i - Len(p) \in DOMAIN q /\ r[i] = q[i - Len(p)]
  BY <1>2, <1>3
<1>7. {r[i] : i \in DOMAIN r} = {p[i] : i \in DOMAIN p} \cup {q[i] : i \in DOMAIN q}
  <2>1. \A i \in DOMAIN r : r[i] \in {p[k] : k \in DOMAIN p} \cup {q[k] : k \in DOMAIN q}
    BY <1>4, <1>6
  <2>2. \A i \in DOMAIN p : p[i] \in {r[k] : k \in DOMAIN r}
    BY <1>4
  <2>3. \A i \in DOMAIN q : q[i] \in {r[k] : k \in DOMAIN r}
    BY <1>5
  <2>4. QED
    BY <2>1, <2>2, <2>3
<1>8. ASSUME NEW i \in DOMAIN r, NEW j \in DOMAIN r, i < j PROVE Earlier(r[i], r[j])
  <2>1. CASE j \in DOMAIN p
    <3>1. i \in DOMAIN p
      BY <1>3, <1>8, <2>1
    <3>2. Earlier(p[i], p[j])
      BY <1>8, <2>1, <3>1 DEF Sorted
    <3>3. QED
      BY <1>4, <2>1, <3>1, <3>2
  <2>2. CASE j \notin DOMAIN p
    <3>1. j > Len(p) /\ j - Len(p) \in DOMAIN q /\ r[j] = q[j - Len(p)]
      BY <1>6, <2>2
    <3>2. CASE i \in DOMAIN p
      BY <1>4, <3>1, <3>2 DEF AllBefore
    <3>3. CASE i \notin DOMAIN p
      <4>1. i > Len(p) /\ i - Len(p) \in DOMAIN q /\ r[i] = q[i - Len(p)]
        BY <1>6, <3>3
      <4>2. i - Len(p) < j - Len(p)
        BY <1>3, <1>8
      <4>3. Earlier(q[i - Len(p)], q[j - Len(p)])
        BY <3>1, <4>1, <4>2 DEF Sorted
      <4>4. QED
        BY <3>1, <4>1, <4>3
    <3>4. QED
      BY <3>2, <3>3
  <2>3. QED
    BY <2>1, <2>2
<1>9. Sorted(r)
  BY <1>8 DEF Sorted
<1>10. QED
  BY <1>1, <1>2, <1>7, <1>9 DEF Entries

(* One tick, however far it moves the clock, is as good as many.           *)
LEMMA TickCatchesUp ==
  ASSUME Caught, now \in Nat, NEW m \in Nat, now =< m, armed \/ (now = 0 /\ m = 0),
         ClockTick(m)
  PROVE  /\ fired' \in Seq(Instants \X Schedules)
         /\ {fired'[i] : i \in DOMAIN fired'} = Passed(m)
         /\ Sorted(fired')
         /\ nextFire' = [s \in Schedules |-> NextOccurrence(s, WallAt(m))]
<1> DEFINE from == [s \in Schedules |-> IF armed THEN nextFire[s] ELSE NextOccurrence(s, WallAt(m))]
           ran  == [s \in Schedules |-> CatchUp(s, from[s], WallAt(m))]
           dues == UNION {ran[s].due : s \in Schedules}
<1>1. WallAt(now) \in Nat /\ WallAt(m) \in Nat /\ WallAt(now) =< WallAt(m) /\ Boot =< WallAt(now)
  BY ClockAssumption DEF WallAt
<1>2. \A s \in Schedules : from[s] = NextOccurrence(s, WallAt(now))
  BY DEF Caught
<1>3. \A s \in Schedules :
        /\ ran[s].next = NextOccurrence(s, WallAt(m))
        /\ ran[s].due = {<<o, s>> : o \in {o \in Occurrences[s] : WallAt(now) < o /\ o =< WallAt(m)}}
  BY <1>1, <1>2, LoopsFromNext
<1>4. /\ nextFire' = [s \in Schedules |-> ran[s].next]
      /\ fired' = fired \o InOrder(dues)
  BY DEF ClockTick
<1> HIDE DEF from, ran
<1>5. nextFire' = [s \in Schedules |-> NextOccurrence(s, WallAt(m))]
  BY <1>3, <1>4
<1>6. dues = Span(now, m)
  <2>1. ASSUME NEW f \in dues PROVE f \in Span(now, m)
    <3>1. PICK s \in Schedules : f \in ran[s].due
      OBVIOUS
    <3>2. PICK o \in Occurrences[s] : f = <<o, s>> /\ WallAt(now) < o /\ o =< WallAt(m)
      BY <1>3, <3>1
    <3>3. QED
      BY <3>2, OccurrencesNat DEF Span
  <2>2. ASSUME NEW f \in Span(now, m) PROVE f \in dues
    <3>1. /\ f[2] \in Schedules /\ f = <<f[1], f[2]>> /\ f[1] \in Occurrences[f[2]]
          /\ WallAt(now) < f[1] /\ f[1] =< WallAt(m)
      BY DEF Span
    <3>2. f \in ran[f[2]].due
      BY <1>3, <3>1
    <3>3. QED
      BY <3>1, <3>2
  <2>3. QED
    BY <2>1, <2>2
<1> HIDE DEF dues
<1>7. PICK q : q = InOrder(Span(now, m))
  OBVIOUS
<1>8. q \in Seq(Span(now, m)) /\ Sorted(q) /\ {q[i] : i \in DOMAIN q} = Span(now, m)
  BY <1>7, SpanPairs, InOrderIs
<1>9. q \in Seq(Instants \X Schedules)
  <2>1. Span(now, m) \subseteq Instants \X Schedules
    BY DEF Span
  <2>2. QED
    BY <1>8, <2>1
<1>10. \A i \in DOMAIN fired, j \in DOMAIN q : Earlier(fired[i], q[j])
  <2>1. \A i \in DOMAIN fired : fired[i] \in Passed(now)
    BY DEF Caught
  <2>2. \A j \in DOMAIN q : q[j] \in Span(now, m)
    BY <1>8
  <2>3. \A f \in Passed(now), g \in Span(now, m) : Earlier(f, g)
    BY <1>1, ClockAssumption DEF Passed, Span, Earlier, Instants
  <2>4. QED
    BY <2>1, <2>2, <2>3
<1>11. Passed(m) = Passed(now) \cup Span(now, m)
  BY <1>1, ClockAssumption DEF Passed, Span, Instants
<1>12. fired' = fired \o q
  BY <1>4, <1>6, <1>7
<1>13. /\ fired \o q \in Seq(Instants \X Schedules) /\ Sorted(fired \o q)
       /\ {(fired \o q)[i] : i \in DOMAIN (fired \o q)}
            = {fired[i] : i \in DOMAIN fired} \cup {q[i] : i \in DOMAIN q}
  <2>1. fired \in Seq(Instants \X Schedules) /\ Sorted(fired) /\ Sorted(q)
    BY <1>8 DEF Caught
  <2>2. PICK S : S = Instants \X Schedules
    OBVIOUS
  <2>3. PICK p : p = fired
    OBVIOUS
  <2>4. p \in Seq(S) /\ q \in Seq(S) /\ Sorted(p) /\ Sorted(q)
    BY <1>9, <2>1, <2>2, <2>3
  <2>5. AllBefore(p, q)
    BY <1>10, <2>3 DEF AllBefore
  <2>6. /\ p \o q \in Seq(S) /\ Sorted(p \o q)
        /\ Entries(p \o q) = Entries(p) \cup Entries(q)
    BY <2>4, <2>5, SortedConcat
  <2>7. QED
    BY <2>2, <2>3, <2>6 DEF Entries
<1>14. /\ fired' \in Seq(Instants \X Schedules) /\ Sorted(fired')
       /\ {fired'[i] : i \in DOMAIN fired'} = {fired[i] : i \in DOMAIN fired} \cup {q[i] : i \in DOMAIN q}
  BY <1>12, <1>13
<1>15. QED
  BY <1>5, <1>8, <1>11, <1>14 DEF Caught

-----------------------------------------------------------------------------
(* The pump plans its sleep *)

(* next_wake is no later than the next minute and any pending schedule.    *)
LEMMA WakeIs ==
  ASSUME now \in Nat, nextFire \in [Schedules -> Instants \cup {NONE}]
  PROVE  /\ NextWake(now) \in Nat
         /\ NextWake(now) =< MinuteMs - (WallAt(now) % MinuteMs)
         /\ \A s \in Schedules :
              nextFire[s] # NONE /\ nextFire[s] >= WallAt(now) => WallAt(now) + NextWake(now) =< nextFire[s]
<1> DEFINE t == WallAt(now)
           waits == {nextFire[s] - t : s \in {s \in Schedules : nextFire[s] # NONE}}
           minute == MinuteMs - (t % MinuteMs)
           all == {minute} \cup {IF w < 0 THEN 0 ELSE w : w \in waits}
<1>1. t \in Nat /\ Instants \subseteq Nat
  BY ClockAssumption DEF WallAt, Instants
<1>2. minute \in Nat
  <2>1. t % MinuteMs \in 0 .. MinuteMs - 1
    BY <1>1, ClockAssumption
  <2>2. QED
    BY <2>1, ClockAssumption
<1>3. waits \subseteq Int
  <2>1. \A s \in Schedules : nextFire[s] # NONE => nextFire[s] \in Nat
    BY <1>1
  <2>2. \A s \in Schedules : nextFire[s] # NONE => nextFire[s] - t \in Int
    BY <1>1, <2>1
  <2>3. QED
    BY <2>2
<1>4. all \subseteq Nat /\ all # {}
  <2>1. \A w \in waits : (IF w < 0 THEN 0 ELSE w) \in Nat
    BY <1>3
  <2>2. QED
    BY <1>2, <2>1
<1>5. NextWake(now) = FS!Min(all)
  BY DEF NextWake
<1> HIDE DEF all
<1>6. FS!Min(all) \in Nat /\ \A x \in all : FS!Min(all) =< x
  BY <1>4, MinIs
<1>7. minute \in all /\ \A w \in waits : w >= 0 => w \in all
  <2>1. \A w \in waits : (IF w < 0 THEN 0 ELSE w) \in all
    BY DEF all
  <2>2. minute \in all
    BY DEF all
  <2> HIDE DEF waits, all
  <2>3. ASSUME NEW w \in waits, w >= 0 PROVE w \in all
    <3>1. (IF w < 0 THEN 0 ELSE w) = w
      BY <1>3, <2>3
    <3>2. QED
      BY <2>1, <3>1
  <2>4. QED
    BY <2>2, <2>3
<1>8. ASSUME NEW s \in Schedules, nextFire[s] # NONE, nextFire[s] >= t
      PROVE  t + NextWake(now) =< nextFire[s]
  <2>1. nextFire[s] - t \in waits /\ nextFire[s] \in Nat
    BY <1>1, <1>8
  <2>2. NextWake(now) =< nextFire[s] - t
    BY <1>1, <1>5, <1>6, <1>7, <1>8, <2>1
  <2>3. QED
    BY <1>1, <1>5, <1>6, <2>1, <2>2
<1>9. QED
  BY <1>5, <1>6, <1>7, <1>8

LEMMA TimeoutIs ==
  ASSUME NextWake(now) \in Nat
  PROVE  Timeout \in Nat /\ Timeout =< NextWake(now)
  BY HostAssumption DEF Timeout

(* The present *)

Present ==
  /\ LagInv
  /\ real =< Sub * MaxTime
  /\ until \in Nat
  /\ pump \in {"build", "start", "loop", "wait", "check", "advance", "exited"}
  /\ armed = (pump # "build")
  /\ wakeups \in Nat /\ inbound \in Nat
  /\ source \in [Sources -> {"idle", "queued"}] /\ received \in Nat
  /\ shutdown \in BOOLEAN /\ signals \in {"idle", "flagged"} /\ signalled \in Nat

(* Virtual time being behind real time, it is within the bound of the run. *)
LEMMA MillisWithinRun ==
  ASSUME NEW n \in Nat, Sub * n =< Sub * MaxTime
  PROVE  n =< MaxTime /\ WallAt(n) \in Instants
<1>1. n =< MaxTime
  <2>1. SUFFICES ASSUME n >= MaxTime + 1 PROVE FALSE
    BY ClockAssumption
  <2>2. PICK k \in Nat : n = MaxTime + 1 + k
    <3>1. n - MaxTime - 1 \in Nat
      BY <2>1, ClockAssumption
    <3>2. n = MaxTime + 1 + (n - MaxTime - 1)
      BY ClockAssumption
    <3>3. QED
      BY <3>1, <3>2
  <2>3. Sub * n = Sub * MaxTime + Sub + Sub * k /\ Sub * k \in Nat
    BY <2>2, ClockAssumption, HostAssumption
  <2>4. QED
    BY <2>3, ClockAssumption, HostAssumption
<1>2. QED
  BY <1>1, ClockAssumption DEF WallAt, Instants

LEMMA WithinRun ==
  Present => now \in Nat /\ now =< MaxTime /\ WallAt(now) \in Instants
<1>1. SUFFICES ASSUME Present PROVE now \in Nat /\ Sub * now =< Sub * MaxTime
  BY MillisWithinRun
<1>2. PICK x \in Nat : x = Sub * now
  BY HostAssumption, <1>1 DEF Present, LagInv
<1>3. PICK y \in Nat : y = Sub * MaxTime
  BY HostAssumption, ClockAssumption
<1>4. 0 =< last - began - x
  BY <1>1, <1>2 DEF Present, LagInv, LagBounded, Lag
<1>5. x =< y
  BY <1>1, <1>3, <1>4 DEF Present, LagInv
<1>6. QED
  BY <1>1, <1>2, <1>3, <1>5 DEF Present, LagInv

LEMMA WithinRunNext == Present' => (now =< MaxTime)'
<1>1. Present => now =< MaxTime
  BY WithinRun
<1>2. QED
  BY <1>1, PTL

(* The reading reported last has the present minute of the day, though     *)
(* perhaps of an earlier instant.                                          *)
Reported ==
  reported # NONE =>
    \E t \in Instants :
      /\ t =< WallAt(now)
      /\ MinuteOf(t) = MinuteOf(WallAt(now))
      /\ reported = Reading(t)

(* The clock has done its work up to the present.                          *)
IInv == Present /\ Caught /\ Reported

LEMMA HostInit == Init => IInv
<1> SUFFICES ASSUME Init PROVE IInv
  OBVIOUS
<1>1. Present
  <2>1. 0 =< Sub * MaxTime
    BY ClockAssumption, HostAssumption
  <2>2. QED
    BY <2>1, LagInit DEF Init, ClockInit, Present
<1>2. Passed(0) = {}
  BY ClockAssumption DEF Passed, WallAt, Instants
<1>3. fired = <<>> /\ now = 0 /\ armed = FALSE /\ nextFire = [s \in Schedules |-> NONE] /\ reported = NONE
  BY DEF Init, ClockInit
<1>4. Caught
  BY <1>2, <1>3 DEF Caught, Sorted
<1>5. QED
  BY <1>1, <1>3, <1>4 DEF IInv, Reported

LEMMA PresentStep == IInv /\ [Next]_vars => Present'
<1> SUFFICES ASSUME IInv, [Next]_vars PROVE Present'
  OBVIOUS
<1>1. Present /\ LagInv'
  BY LagStep DEF IInv, Present
<1> USE <1>1 DEF Present
<1>2. CASE Start
  BY <1>2 DEF Start, ClockTick, sourceVars, signalVars
<1>3. CASE EnterLoop
  BY <1>3 DEF EnterLoop, clockVars, sourceVars, signalVars
<1>4. CASE Plan
  <2>1. nextFire \in [Schedules -> Instants \cup {NONE}]
    <3>1. \A s \in Schedules : NextOccurrence(s, WallAt(now)) \in Instants \cup {NONE}
      BY NextIs, OccurrencesNat, WithinRun, ClockAssumption DEF WallAt
    <3>2. QED
      BY <3>1 DEF IInv, Caught
  <2>2. Timeout \in Nat
    BY <2>1, WakeIs, TimeoutIs DEF LagInv
  <2>3. real + Sub * Timeout \in Nat
    BY <2>2, HostAssumption DEF LagInv
  <2>4. QED
    BY <1>4, <2>3 DEF Plan, clockVars, sourceVars, signalVars
<1>5. CASE Signaled
  BY <1>5 DEF Signaled, clockVars, sourceVars, signalVars
<1>6. CASE TimedOut
  BY <1>6 DEF TimedOut, clockVars, sourceVars, signalVars
<1>7. CASE CheckShutdown
  BY <1>7 DEF CheckShutdown, clockVars, sourceVars, signalVars
<1>8. CASE Advance
  BY <1>8 DEF Advance, ClockTick, sourceVars, signalVars
<1>9. ASSUME NEW s \in Sources, Queue(s) PROVE Present'
  BY <1>9 DEF Queue, clockVars, pumpVars, signalVars
<1>10. ASSUME NEW s \in Sources, Wake(s) PROVE Present'
  BY <1>10 DEF Wake, clockVars, pumpVars, signalVars
<1>11. CASE Signal
  BY <1>11 DEF Signal, clockVars, sourceVars
<1>12. CASE SignalWake
  BY <1>12 DEF SignalWake, clockVars, pumpVars, sourceVars
<1>13. CASE Pass
  <2>1. real < Sub * MaxTime /\ real' = real + 1 /\ Sub * MaxTime \in Nat
    BY <1>13, ClockAssumption, HostAssumption DEF Pass
  <2>2. real' =< Sub * MaxTime
    BY <2>1 DEF LagInv
  <2>3. QED
    BY <1>13, <2>2 DEF Pass, clockVars, pumpVars, sourceVars, signalVars
<1>14. CASE UNCHANGED vars
  BY <1>14 DEF vars, clockVars, pumpVars, sourceVars, signalVars
<1> QED
  BY <1>2, <1>3, <1>4, <1>5, <1>6, <1>7, <1>8, <1>9, <1>10, <1>11, <1>12, <1>13, <1>14 DEF Next, Pump

(* Every step leaves the clock alone or is one tick at the new time.       *)
LEMMA TickOrNot ==
  ASSUME Present, [Next]_vars
  PROVE  \/ UNCHANGED <<clockVars, now>>
         \/ /\ ClockTick(now') /\ now' \in Nat /\ now =< now'
            /\ armed \/ (now = 0 /\ now' = 0)
<1>1. CASE Start
  BY <1>1 DEF Start, Present, LagInv
<1>2. CASE Advance
  <2>1. now' = now + AsMillis(real - last) /\ ClockTick(now')
    BY <1>2 DEF Advance
  <2>2. armed
    BY <1>2 DEF Advance, Present
  <2>3. now \in Nat /\ real - last \in Nat
    BY DEF Present, LagInv
  <2>4. AsMillis(real - last) \in Nat
    BY <2>3, MillisDropped
  <2>5. now' \in Nat /\ now =< now'
    BY <2>1, <2>3, <2>4
  <2>6. QED
    BY <2>1, <2>2, <2>5
<1>3. CASE UNCHANGED <<clockVars, now>>
  BY <1>3
<1>4. QED
  BY <1>1, <1>2, <1>3
  DEF Next, Pump, EnterLoop, Plan, Signaled, TimedOut, CheckShutdown, Queue, Wake, Signal,
      SignalWake, Pass, pumpVars, vars

LEMMA CaughtStep == IInv /\ [Next]_vars => Caught'
<1> SUFFICES ASSUME IInv, [Next]_vars PROVE Caught'
  OBVIOUS
<1>1. Present /\ Caught
  BY DEF IInv
<1>2. CASE UNCHANGED <<clockVars, now>>
  BY <1>1, <1>2 DEF Caught, clockVars, Passed, Sorted
<1>3. CASE /\ ClockTick(now') /\ now' \in Nat /\ now =< now'
           /\ armed \/ (now = 0 /\ now' = 0)
  <2>1. armed' = TRUE
    BY <1>3 DEF ClockTick
  <2>2. PICK m \in Nat : m = now'
    BY <1>3
  <2>3. /\ fired' \in Seq(Instants \X Schedules)
        /\ {fired'[i] : i \in DOMAIN fired'} = Passed(m)
        /\ Sorted(fired')
        /\ nextFire' = [s \in Schedules |-> NextOccurrence(s, WallAt(m))]
    BY <1>1, <1>3, <2>2, TickCatchesUp DEF Present, LagInv
  <2>4. Sorted(fired)' /\ Passed(now)' = Passed(m)
    BY <2>2, <2>3 DEF Sorted, Passed
  <2>5. QED
    BY <2>1, <2>2, <2>3, <2>4 DEF Caught
<1>4. QED
  BY <1>1, <1>2, <1>3, TickOrNot

LEMMA ReportedStep == IInv /\ [Next]_vars => Reported'
<1> SUFFICES ASSUME IInv, [Next]_vars PROVE Reported'
  OBVIOUS
<1>1. Present /\ Reported /\ Present'
  BY PresentStep DEF IInv
<1>2. CASE UNCHANGED <<clockVars, now>>
  BY <1>1, <1>2 DEF Reported, clockVars
<1>3. CASE ClockTick(now') /\ now' \in Nat /\ now =< now'
  <2>1. PICK m \in Nat : m = now'
    BY <1>3
  <2>2. WallAt(m) \in Instants /\ WallAt(now) =< WallAt(m) /\ Instants \subseteq Nat
    <3>1. (now =< MaxTime)'
      BY <1>1, WithinRunNext
    <3>2. m =< MaxTime /\ now \in Nat /\ now =< m
      <4>1. now' =< MaxTime
        BY <3>1, ClockAssumption
      <4>2. QED
        BY <1>1, <1>3, <2>1, <4>1 DEF Present, LagInv
    <3>3. Boot \in Nat /\ MaxTime \in Nat
      BY ClockAssumption
    <3>4. QED
      BY <3>2, <3>3 DEF WallAt, Instants
  <2>3. CASE MinuteChanged(WallAt(m))
    <3>1. reported' = Reading(WallAt(m))
      BY <1>3, <2>1, <2>3 DEF ClockTick
    <3>2. WallAt(now') = WallAt(m)
      BY <2>1
    <3>3. WallAt(m) =< WallAt(m)
      <4>1. PICK x \in Nat : x = WallAt(m)
        BY <2>2
      <4>2. QED
        BY <4>1
    <3>4. QED
      BY <2>2, <3>1, <3>2, <3>3 DEF Reported
  <2>4. CASE ~MinuteChanged(WallAt(m))
    <3>1. reported' = reported /\ reported # NONE /\ MinuteOf(WallAt(m)) = reported.minute
      BY <1>3, <2>1, <2>4 DEF ClockTick, MinuteChanged
    <3>2. PICK t \in Instants : t =< WallAt(now) /\ reported = Reading(t)
      BY <1>1, <3>1 DEF Reported
    <3>3. MinuteOf(t) = MinuteOf(WallAt(m))
      BY <3>1, <3>2 DEF Reading
    <3>4. t =< WallAt(m)
      BY <1>1, <2>1, <2>2, <3>2, ClockAssumption DEF WallAt, Present, LagInv
    <3>5. QED
      BY <2>1, <3>1, <3>2, <3>3, <3>4 DEF Reported
  <2>5. QED
    BY <2>3, <2>4
<1>4. QED
  BY <1>1, <1>2, <1>3, TickOrNot

LEMMA HostStep == IInv /\ [Next]_vars => IInv'
  BY PresentStep, CaughtStep, ReportedStep DEF IInv

(* A minute of the day is one.                                             *)
LEMMA ReadingType ==
  ASSUME NEW t \in Instants
  PROVE  Reading(t) \in [minute : 0 .. DayMinutes - 1, sun : BOOLEAN]
<1>1. t + Offset[t] \in Int
  BY ClockAssumption DEF Instants
<1>2. PICK x \in Int : x = (t + Offset[t]) \div MinuteMs
  BY <1>1, ClockAssumption
<1>3. x % DayMinutes \in 0 .. DayMinutes - 1
  BY <1>2, ClockAssumption
<1>4. MinuteOf(t) \in 0 .. DayMinutes - 1
  BY <1>2, <1>3 DEF MinuteOf
<1>5. (t \in Daylight) \in BOOLEAN
  OBVIOUS
<1>6. QED
  BY <1>4, <1>5 DEF Reading

LEMMA NextFireType ==
  IInv => nextFire \in [Schedules -> Instants \cup {NONE}]
<1> SUFFICES ASSUME IInv PROVE nextFire \in [Schedules -> Instants \cup {NONE}]
  OBVIOUS
<1>1. WallAt(now) \in Nat
  BY ClockAssumption DEF IInv, Present, LagInv, WallAt
<1>2. \A s \in Schedules : NextOccurrence(s, WallAt(now)) \in Instants \cup {NONE}
  BY <1>1, NextIs, OccurrencesNat
<1>3. QED
  BY <1>2 DEF IInv, Caught

(* The device reports a minute of the day, and every variable keeps its    *)
(* type (clock.rs, tick; main.rs, run_engine).                             *)
THEOREM TypesCorrect == Spec => []TypeOK
<1>1. IInv => TypeOK
  <2> SUFFICES ASSUME IInv PROVE TypeOK
    OBVIOUS
  <2>1. reported \in [minute : 0 .. DayMinutes - 1, sun : BOOLEAN] \cup {NONE}
    BY ReadingType DEF IInv, Reported
  <2>2. nextFire \in [Schedules -> Instants \cup {NONE}]
    BY NextFireType
  <2>3. fired \in Seq(Instants \X Schedules)
    BY DEF IInv, Caught
  <2>4. QED
    BY <2>1, <2>2, <2>3 DEF IInv, Present, LagInv, TypeOK
<1> QED
  BY <1>1, HostInit, HostStep, PTL DEF Spec

(* However irregularly the pump runs, every occurrence of every schedule   *)
(* after boot is fired once, and in order (clock.rs, fire_due_schedules).  *)
THEOREM SchedulesCorrect == Spec => []FiredExactly
<1>1. IInv => FiredExactly
  BY DEF IInv, Caught, Passed, Sorted, FiredExactly
<1> QED
  BY <1>1, HostInit, HostStep, PTL DEF Spec

(* Wherever the schedules and the minutes fall, the pump wakes up in time  *)
(* (clock.rs, next_wake; main.rs, next_wake_delay and MAX_SLEEP).          *)
THEOREM SleepCorrect == Spec => []NeverOversleeps
<1>1. IInv => NeverOversleeps
  <2> SUFFICES ASSUME IInv, pump = "wait"
               PROVE  LET wake == WallAt(now) + Timeout
                      IN  /\ \A s \in Schedules : \A o \in Occurrences[s] : o > WallAt(now) => wake =< o
                          /\ wake \div MinuteMs =< (WallAt(now) \div MinuteMs) + 1
    BY DEF NeverOversleeps
  <2>1. now \in Nat /\ armed
    BY DEF IInv, Present, LagInv
  <2>2. nextFire \in [Schedules -> Instants \cup {NONE}]
    BY NextFireType
  <2>3. PICK w \in Nat : w = NextWake(now)
    BY <2>1, <2>2, WakeIs
  <2>4. PICK t \in Nat : t = WallAt(now)
    BY <2>1, ClockAssumption DEF WallAt
  <2>5. /\ w =< MinuteMs - (t % MinuteMs)
        /\ \A s \in Schedules : nextFire[s] # NONE /\ nextFire[s] >= t => t + w =< nextFire[s]
    BY <2>1, <2>2, <2>3, <2>4, WakeIs
  <2>6. PICK d \in Nat : d = Timeout /\ d =< w
    BY <2>3, TimeoutIs
  <2>7. ASSUME NEW s \in Schedules, NEW o \in Occurrences[s], o > t PROVE t + d =< o
    <3>1. nextFire[s] = NextOccurrence(s, t)
      BY <2>1, <2>4 DEF IInv, Caught
    <3>2. o \in Nat /\ Occurrences[s] \subseteq Nat /\ NONE \notin Occurrences[s]
      BY OccurrencesNat
    <3>3. nextFire[s] \in Occurrences[s] /\ nextFire[s] > t /\ nextFire[s] =< o
      BY <2>7, <3>1, <3>2, NextIs
    <3>4. QED
      BY <2>5, <2>6, <3>2, <3>3
  <2>8. (t + d) \div MinuteMs =< (t \div MinuteMs) + 1
    <3>1. PICK q \in Nat : q = t \div MinuteMs
      BY ClockAssumption
    <3>2. PICK x \in Nat : x = t % MinuteMs
      BY ClockAssumption
    <3>3. t = MinuteMs * q + x
      BY <3>1, <3>2, ClockAssumption
    <3>4. t + d =< MinuteMs * q + MinuteMs
      BY <2>5, <2>6, <3>2, <3>3, ClockAssumption
    <3>5. t + d < MinuteMs * (q + 2)
      BY <3>4, ClockAssumption
    <3>6. (t + d) \div MinuteMs < q + 2
      BY <3>5, ClockAssumption
    <3>7. QED
      BY <3>1, <3>6, ClockAssumption
  <2>9. QED
    BY <2>4, <2>6, <2>7, <2>8
<1> QED
  BY <1>1, HostInit, HostStep, PTL DEF Spec

-----------------------------------------------------------------------------
(* The clock's report *)

(* What the code relies on to repeat the report: no single advance moves   *)
(* to another minute with the same minute of the day, as one of exactly a  *)
(* day would, or of an hour when the clocks go back.                       *)
NoLap ==
  MinuteOf(WallAt(now')) = MinuteOf(WallAt(now)) =>
    WallAt(now') \div MinuteMs = WallAt(now) \div MinuteMs

(* ClockCurrent, and that the reported minute is that of the present.      *)
Recent ==
  reported # NONE =>
    \E t \in Instants :
      /\ t =< WallAt(now)
      /\ t \div MinuteMs = WallAt(now) \div MinuteMs
      /\ MinuteOf(t) = MinuteOf(WallAt(now))
      /\ reported = Reading(t)

LEMMA RecentStep == IInv /\ Recent /\ [Next]_vars /\ [NoLap]_vars => Recent'
<1> SUFFICES ASSUME IInv, Recent, [Next]_vars, [NoLap]_vars PROVE Recent'
  OBVIOUS
<1>1. Present /\ Present'
  BY PresentStep DEF IInv
<1>2. CASE UNCHANGED <<clockVars, now>>
  BY <1>2 DEF Recent, clockVars
<1>3. CASE ClockTick(now') /\ now' \in Nat /\ now =< now'
  <2>1. PICK m \in Nat : m = now'
    BY <1>3
  <2>2. WallAt(m) \in Instants /\ WallAt(now) =< WallAt(m) /\ Instants \subseteq Nat
    <3>1. (now =< MaxTime)'
      BY <1>1, WithinRunNext
    <3>2. m =< MaxTime /\ now \in Nat /\ now =< m
      <4>1. now' =< MaxTime
        BY <3>1, ClockAssumption
      <4>2. QED
        BY <1>1, <1>3, <2>1, <4>1 DEF Present, LagInv
    <3>3. Boot \in Nat /\ MaxTime \in Nat
      BY ClockAssumption
    <3>4. QED
      BY <3>2, <3>3 DEF WallAt, Instants
  <2>3. CASE MinuteChanged(WallAt(m))
    <3>1. reported' = Reading(WallAt(m))
      BY <1>3, <2>1, <2>3 DEF ClockTick
    <3>2. WallAt(now') = WallAt(m)
      BY <2>1
    <3>3. WallAt(m) =< WallAt(m)
      <4>1. PICK x \in Nat : x = WallAt(m)
        BY <2>2
      <4>2. QED
        BY <4>1
    <3>4. QED
      BY <2>2, <3>1, <3>2, <3>3 DEF Recent
  <2>4. CASE ~MinuteChanged(WallAt(m))
    <3>1. reported' = reported /\ reported # NONE /\ MinuteOf(WallAt(m)) = reported.minute
      BY <1>3, <2>1, <2>4 DEF ClockTick, MinuteChanged
    <3>2. PICK t \in Instants : /\ t =< WallAt(now) /\ t \div MinuteMs = WallAt(now) \div MinuteMs
                                /\ MinuteOf(t) = MinuteOf(WallAt(now)) /\ reported = Reading(t)
      BY <3>1 DEF Recent
    <3>3. MinuteOf(t) = MinuteOf(WallAt(m))
      BY <3>1, <3>2 DEF Reading
    <3>4. WallAt(m) \div MinuteMs = WallAt(now) \div MinuteMs
      <4>1. CASE UNCHANGED vars
        BY <2>1, <4>1 DEF vars, pumpVars
      <4>2. CASE NoLap
        BY <2>1, <3>2, <3>3, <4>2 DEF NoLap
      <4>3. QED
        BY <4>1, <4>2
    <3>5. t =< WallAt(m)
      BY <1>1, <2>1, <2>2, <3>2, ClockAssumption DEF WallAt, Present, LagInv
    <3>6. QED
      BY <2>1, <3>1, <3>2, <3>3, <3>4, <3>5 DEF Recent
  <2>5. QED
    BY <2>3, <2>4
<1>4. QED
  BY <1>1, <1>2, <1>3, TickOrNot

(* Unless an advance laps the minute of the day, the report the engine has *)
(* is one of the present minute (clock.rs, tick, last_emit_min).           *)
THEOREM ReportsCorrect == Spec /\ [][NoLap]_vars => []ClockCurrent
<1>1. Init => Recent
  BY DEF Init, ClockInit, Recent
<1>2. Recent => ClockCurrent
  BY DEF Recent, ClockCurrent
<1> QED
  BY <1>1, <1>2, HostInit, HostStep, RecentStep, PTL DEF Spec
=============================================================================
