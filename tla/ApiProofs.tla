----------------------------- MODULE ApiProofs ------------------------------
(***************************************************************************)
(* Proofs about the compiler and the API, for every set of configurations  *)
(* and requests: every faulty place of a configuration is reported and no  *)
(* other, what is built runs what the configuration declares, and the API  *)
(* hands the engine just what a client may ask for.                        *)
(***************************************************************************)
EXTENDS ApiProperties, SequenceTheorems, FiniteSetTheorems, WellFoundedInduction, TLAPS

-----------------------------------------------------------------------------
(* Positions *)

(* Counting up is a bijection from a finite set of positions to 1..n, and  *)
(* Nth its inverse: ids are positions, and none is skipped or used twice.  *)
LEMMA PlaceIs ==
  ASSUME NEW I, I \subseteq Nat, IsFiniteSet(I)
  PROVE  /\ Cardinality(I) \in Nat
         /\ \A i \in I : Place(i, I) \in 1..Cardinality(I) /\ Nth(Place(i, I), I) = i
         /\ \A k \in 1..Cardinality(I) : Nth(k, I) \in I /\ Place(Nth(k, I), I) = k
<1> DEFINE UpTo(i) == {j \in I : j =< i}
           n == Cardinality(I)
           place == [i \in I |-> Place(i, I)]
<1>1. n \in Nat
  BY FS_CardinalityType
<1>2. \A i \in I : IsFiniteSet(UpTo(i)) /\ Cardinality(UpTo(i)) \in Nat /\ UpTo(i) \subseteq I
  <2>1. \A i \in I : UpTo(i) \in SUBSET I
    OBVIOUS
  <2>2. QED
    BY <2>1, FS_Subset, FS_CardinalityType
<1>3. ASSUME NEW i \in I PROVE Cardinality(UpTo(i)) \in 1..n
  <2>1. i \in UpTo(i)
    OBVIOUS
  <2>2. Cardinality(UpTo(i)) # 0
    BY <1>2, <2>1, FS_EmptySet
  <2>3. Cardinality(UpTo(i)) =< n
    BY <1>2, FS_Subset
  <2> HIDE DEF UpTo, n
  <2>4. QED
    BY <1>1, <1>2, <2>2, <2>3
<1>4. ASSUME NEW i \in I, NEW j \in I, i < j PROVE Cardinality(UpTo(i)) < Cardinality(UpTo(j))
  <2>1. UpTo(i) \subseteq UpTo(j)
    <3>1. ASSUME NEW k \in I, k =< i PROVE k =< j
      <4>1. i \in Nat /\ j \in Nat /\ k \in Nat
        OBVIOUS
      <4>2. QED
        BY <1>4, <3>1, <4>1
    <3>2. QED
      BY <3>1
  <2>2. j \in UpTo(j) /\ j \notin UpTo(i)
    <3>1. i \in Nat /\ j \in Nat
      OBVIOUS
    <3>2. QED
      BY <1>4, <3>1
  <2>3. UpTo(i) # UpTo(j)
    BY <2>2
  <2> HIDE DEF UpTo
  <2>4. QED
    BY <1>2, <2>1, <2>3, FS_Subset
<1>5. \A i \in I : Place(i, I) = Cardinality(UpTo(i))
  BY DEF Place
<1> HIDE DEF UpTo, n
<1>6. \A i \in I : Place(i, I) \in 1..n
  BY <1>3, <1>5
<1>7. \A i, j \in I : Place(i, I) = Place(j, I) => i = j
  <2>1. \A i, j \in I : i = j \/ i < j \/ j < i
    OBVIOUS
  <2>2. \A i \in I : Place(i, I) \in Nat
    BY <1>2, <1>5
  <2>3. \A i, j \in I : i < j => Place(i, I) < Place(j, I)
    BY <1>4, <1>5
  <2>4. QED
    BY <2>1, <2>2, <2>3
<1>8. \A k \in 1..n : \E i \in I : Place(i, I) = k
  <2>1. place \in Injection(I, 1..n)
    BY <1>6, <1>7 DEF Injection, IsInjective
  <2>2. IsFiniteSet(1..n) /\ Cardinality(1..n) = n
    BY <1>1, FS_Interval
  <2>3. place \in Surjection(I, 1..n)
    BY <2>1, <2>2, FS_Injection DEF n
  <2>4. QED
    BY <2>3 DEF Surjection
<1>9. \A k \in 1..n : Nth(k, I) \in I /\ Place(Nth(k, I), I) = k
  BY <1>8 DEF Nth
<1>10. \A i \in I : Nth(Place(i, I), I) = i
  BY <1>6, <1>7, <1>9
<1>11. QED
  BY <1>1, <1>6, <1>9, <1>10 DEF n

(* The positions of an initial segment are themselves.                     *)
LEMMA NthOfInterval ==
  ASSUME NEW n \in Nat
  PROVE  Cardinality(1..n) = n /\ \A k \in 1..n : Nth(k, 1..n) = k
<1>1. IsFiniteSet(1..n) /\ Cardinality(1..n) = n /\ 1..n \subseteq Nat
  BY FS_Interval
<1>2. \A i \in 1..n : Place(i, 1..n) = i
  <2> SUFFICES ASSUME NEW i \in 1..n PROVE Place(i, 1..n) = i
    OBVIOUS
  <2>1. {j \in 1..n : j =< i} = 1..i
    OBVIOUS
  <2>2. Cardinality(1..i) = i
    BY FS_Interval
  <2>3. QED
    BY <2>1, <2>2 DEF Place
<1>3. QED
  <2>1. PICK I : I = 1..n
    OBVIOUS
  <2>2. \A k \in 1..Cardinality(I) : Nth(k, I) \in I /\ Place(Nth(k, I), I) = k
    BY <1>1, <2>1, PlaceIs
  <2>3. QED
    BY <1>1, <1>2, <2>1, <2>2

-----------------------------------------------------------------------------
(* Names *)

(* A name's position is where the sorted list has it.                      *)
LEMMA NameOrderIs ==
  /\ DOMAIN NameOrder = 1..Len(NameOrder) /\ Len(NameOrder) \in Nat
  /\ \A n \in Names : Position(n) \in DOMAIN NameOrder /\ NameOrder[Position(n)] = n
  /\ \A i \in DOMAIN NameOrder : NameOrder[i] \in Names /\ Position(NameOrder[i]) = i
<1>1. NameOrder \in Seq(Names)
  BY CompileAssumption DEF IsSeq, Names
<1>2. DOMAIN NameOrder = 1..Len(NameOrder) /\ Len(NameOrder) \in Nat
  BY <1>1, LenProperties
<1>3. \A n \in Names : Position(n) \in DOMAIN NameOrder /\ NameOrder[Position(n)] = n
  BY DEF Names, Position
<1>4. \A i \in DOMAIN NameOrder : NameOrder[i] \in Names
  BY DEF Names
<1>5. \A i \in DOMAIN NameOrder : Position(NameOrder[i]) = i
  BY <1>3, <1>4, CompileAssumption
<1>6. QED
  BY <1>2, <1>3, <1>4, <1>5

(* A section is listed in full and without repetition, and a name's rank   *)
(* is where it is listed.                                                  *)
LEMMA SortedIs ==
  ASSUME NEW S, S \subseteq Names
  PROVE  /\ Cardinality(Places(S)) \in Nat
         /\ DOMAIN Sorted(S) = 1..Cardinality(Places(S))
         /\ \A k \in DOMAIN Sorted(S) : Sorted(S)[k] \in S /\ Rank(Sorted(S)[k], S) = k
         /\ \A n \in S : Rank(n, S) \in DOMAIN Sorted(S) /\ Sorted(S)[Rank(n, S)] = n
<1>1. Places(S) \subseteq Nat /\ IsFiniteSet(Places(S))
  <2>1. Places(S) \in SUBSET (1..Len(NameOrder))
    BY NameOrderIs DEF Places
  <2>2. IsFiniteSet(1..Len(NameOrder))
    BY NameOrderIs, FS_Interval
  <2>3. IsFiniteSet(Places(S))
    BY <2>1, <2>2, FS_Subset
  <2>4. QED
    BY <2>1, <2>3
<1>2. PICK I : I = Places(S)
  OBVIOUS
<1>3. /\ Cardinality(I) \in Nat
      /\ \A i \in I : Place(i, I) \in 1..Cardinality(I) /\ Nth(Place(i, I), I) = i
      /\ \A k \in 1..Cardinality(I) : Nth(k, I) \in I /\ Place(Nth(k, I), I) = k
  BY <1>1, <1>2, PlaceIs
<1>4. \A i \in I : i \in DOMAIN NameOrder /\ NameOrder[i] \in S
  BY <1>2 DEF Places
<1>5. \A n \in S : Position(n) \in I /\ Rank(n, S) = Place(Position(n), I)
  BY <1>2, NameOrderIs DEF Places, Rank
<1>6. DOMAIN Sorted(S) = 1..Cardinality(I) /\ \A k \in 1..Cardinality(I) : Sorted(S)[k] = NameOrder[Nth(k, I)]
  BY <1>2 DEF Sorted
<1>7. ASSUME NEW k \in 1..Cardinality(I) PROVE Sorted(S)[k] \in S /\ Rank(Sorted(S)[k], S) = k
  <2>1. Nth(k, I) \in I /\ Place(Nth(k, I), I) = k
    BY <1>3
  <2>2. Position(NameOrder[Nth(k, I)]) = Nth(k, I) /\ NameOrder[Nth(k, I)] \in S
    BY <1>4, <2>1, NameOrderIs
  <2>3. QED
    BY <1>5, <1>6, <2>1, <2>2
<1>8. ASSUME NEW n \in S PROVE Rank(n, S) \in 1..Cardinality(I) /\ Sorted(S)[Rank(n, S)] = n
  <2>1. n \in Names
    OBVIOUS
  <2>2. QED
    BY <1>3, <1>5, <1>6, <2>1, NameOrderIs
<1>9. QED
  BY <1>2, <1>3, <1>6, <1>7, <1>8

-----------------------------------------------------------------------------
(* Checks *)

AllOk(checks) == \A i \in DOMAIN checks : checks[i].ok

(* A set of positions has a first one.                                     *)
LEMMA LeastIs ==
  ASSUME NEW S, S \subseteq Nat, S # {}
  PROVE  \E m \in S : \A x \in S : m =< x
<1>1. PICK m \in S : \A x \in S : <<x, m>> \notin OpToRel(<, Nat)
  BY NatLessThanWellFounded, WFMin
<1>2. \A x \in S : ~(x < m)
  BY <1>1 DEF OpToRel
<1>3. QED
  BY <1>2

(* An early return hides errors, but not that there is one.                *)
LEMMA ErrorsIs ==
  ASSUME NEW checks, DOMAIN checks \subseteq Nat
  PROVE  /\ Errors(checks) = {} <=> AllOk(checks)
         /\ AllOk(checks) => Lowers(checks)
<1>1. CASE AllOk(checks)
  <2>1. Failing(checks) = {}
    BY <1>1 DEF AllOk, Failing
  <2>2. Stopping(checks) = {} /\ Errors(checks) = {}
    BY <2>1 DEF Stopping, Errors
  <2>3. QED
    BY <1>1, <2>2 DEF Lowers
<1>2. CASE ~AllOk(checks)
  <2>1. Failing(checks) # {} /\ Failing(checks) \subseteq Nat
    BY <1>2 DEF AllOk, Failing
  <2>2. PICK m \in Failing(checks) : \A x \in Failing(checks) : m =< x
    BY <2>1, LeastIs
  <2>3. \A k \in Stopping(checks) : m =< k
    BY <2>2 DEF Stopping
  <2>4. checks[m].code \in Errors(checks)
    BY <2>3 DEF Errors
  <2>5. QED
    BY <1>2, <2>4
<1>3. QED
  BY <1>1, <1>2

Needs(checks, cond) == DOMAIN checks \subseteq Nat /\ (AllOk(checks) <=> cond)

(* The lists of checks that nodes have, member by member.                  *)
LEMMA AllOkOf ==
  /\ DOMAIN << >> \subseteq Nat /\ AllOk(<< >>)
  /\ \A a : DOMAIN <<a>> \subseteq Nat /\ (AllOk(<<a>>) <=> a.ok)
  /\ \A a, b : DOMAIN <<a, b>> \subseteq Nat /\ (AllOk(<<a, b>>) <=> a.ok /\ b.ok)
  /\ \A a, b, c : DOMAIN <<a, b, c>> \subseteq Nat /\ (AllOk(<<a, b, c>>) <=> a.ok /\ b.ok /\ c.ok)
  /\ \A a, b, c, d : DOMAIN <<a, b, c, d>> \subseteq Nat /\ (AllOk(<<a, b, c, d>>) <=> a.ok /\ b.ok /\ c.ok /\ d.ok)
<1>1. ASSUME NEW a PROVE DOMAIN <<a>> \subseteq Nat /\ (AllOk(<<a>>) <=> a.ok)
  BY DEF AllOk
<1>2. ASSUME NEW a, NEW b PROVE DOMAIN <<a, b>> \subseteq Nat /\ (AllOk(<<a, b>>) <=> a.ok /\ b.ok)
  BY DEF AllOk
<1>3. ASSUME NEW a, NEW b, NEW c
      PROVE  DOMAIN <<a, b, c>> \subseteq Nat /\ (AllOk(<<a, b, c>>) <=> a.ok /\ b.ok /\ c.ok)
  BY DEF AllOk
<1>4. ASSUME NEW a, NEW b, NEW c, NEW d
      PROVE  DOMAIN <<a, b, c, d>> \subseteq Nat /\ (AllOk(<<a, b, c, d>>) <=> a.ok /\ b.ok /\ c.ok /\ d.ok)
  BY DEF AllOk
<1>5. DOMAIN << >> \subseteq Nat /\ AllOk(<< >>)
  BY DEF AllOk
<1>6. QED
  BY <1>1, <1>2, <1>3, <1>4, <1>5

Carries(lw, n, kind) == n \in DOMAIN lw.devices /\ kind \in lw.devices[n].capabilities

(* The single checks, and what they check.                                 *)
LEMMA KnownOk == ASSUME NEW lw, NEW n PROVE Known(lw, n).ok <=> n \in DOMAIN lw.devices
  BY DEF Known, Stops

LEMMA HasOk ==
  ASSUME NEW lw, NEW n, NEW kind
  PROVE  Has(lw, n, kind).ok <=> (n \in DOMAIN lw.devices => kind \in lw.devices[n].capabilities)
  BY DEF Has, Reports

LEMMA CapabilityOk ==
  ASSUME NEW name, NEW kinds, NEW code
  PROVE  Capability(name, kinds, code).ok <=> name \in Declarable \cap kinds
<1>1. CASE name \in Declarable
  BY <1>1 DEF Capability, Stops
<1>2. CASE name \notin Declarable
  BY <1>2 DEF Capability, Stops
<1>3. QED
  BY <1>1, <1>2

LEMMA FadeOk ==
  ASSUME NEW v
  PROVE  Fade(v).ok <=> (v.transition # NONE => parse_duration(v.transition) # NONE)
  BY DEF Fade, Stops

(* Literals have a value if they are within their bounds.                  *)
LEMMA TimeParses ==
  ASSUME NEW t, IsTime(t)
  PROVE  parse_time(t) # NONE <=> t[1] =< 23 /\ t[2] =< 59
<1>1. t[1] \in Nat /\ t[2] \in Nat
  BY DEF IsTime
<1>2. CASE t[1] < 24 /\ t[2] < 60
  <2>1. t[1] * 60 + t[2] \in Int
    BY <1>1
  <2>2. parse_time(t) # NONE
    BY <1>2, <2>1, LoweringAssumption DEF parse_time
  <2>3. QED
    BY <1>1, <1>2, <2>2
<1>3. CASE ~(t[1] < 24 /\ t[2] < 60)
  BY <1>1, <1>3 DEF parse_time
<1>4. QED
  BY <1>2, <1>3

LEMMA ColorParses ==
  ASSUME NEW c, c # NONE PROVE parse_color(c) # NONE <=> \A i \in 1..3 : c[i] \in 0..255
<1> DEFINE ok == \A i \in 1..3 : c[i] \in 0..255
<1>1. parse_color(c) = IF ok THEN c ELSE NONE
  BY DEF parse_color
<1> HIDE DEF ok
<1>2. parse_color(c) # NONE <=> ok
  BY <1>1
<1>3. QED
  BY <1>2 DEF ok

LEMMA ColorTemperatureParses ==
  ASSUME NEW v
  PROVE  parse_color_temperature(v) # NONE => (v.kelvin # NONE) # (v.mireds # NONE)
<1> DEFINE kelvin == IF v.kelvin \in 1000..10000 THEN 1000000 \div v.kelvin ELSE NONE
           mireds == IF v.mireds \in 100..1000 THEN v.mireds ELSE NONE
<1>1. parse_color_temperature(v) = IF (v.kelvin = NONE) = (v.mireds = NONE) THEN NONE
                                   ELSE IF v.kelvin # NONE THEN kelvin ELSE mireds
  BY DEF parse_color_temperature
<1> HIDE DEF kelvin, mireds
<1>2. QED
  BY <1>1

-----------------------------------------------------------------------------
(* Nodes *)

(* The fields of the nodes that serde lets through.                        *)
LEMMA TriggerFields ==
  ASSUME NEW v, IsNode(v)
  PROVE  /\ v.verb = "event" => DOMAIN v = {"verb", "device", "event"}
         /\ v.verb = "changed" => DOMAIN v = {"verb", "device", "capability"}
         /\ v.verb = "crosses" => DOMAIN v = {"verb", "device", "capability", "above", "below"}
         /\ v.verb = "reports" => DOMAIN v = {"verb", "device", "capability"}
         /\ v.verb = "timer" => DOMAIN v = {"verb", "key"}
         /\ v.verb = "schedule" => DOMAIN v = {"verb", "name"}
         /\ v.verb = "command_failed" => DOMAIN v = {"verb", "device"}
<1>1. "event" \in DOMAIN PayloadFields /\ PayloadFields["event"] = {"device", "event"}
  BY DEF PayloadFields
<1>2. "changed" \in DOMAIN PayloadFields /\ PayloadFields["changed"] = {"device", "capability"}
  BY DEF PayloadFields
<1>3. "crosses" \in DOMAIN PayloadFields /\ PayloadFields["crosses"] = {"device", "capability", "above", "below"}
  BY DEF PayloadFields
<1>4. "reports" \in DOMAIN PayloadFields /\ PayloadFields["reports"] = {"device", "capability"}
  BY DEF PayloadFields
<1>5. "timer" \in DOMAIN PayloadFields /\ PayloadFields["timer"] = {"key"}
  BY DEF PayloadFields
<1>6. "schedule" \in DOMAIN PayloadFields /\ PayloadFields["schedule"] = {"name"}
  BY DEF PayloadFields
<1>7. "command_failed" \in DOMAIN PayloadFields /\ PayloadFields["command_failed"] = {"device"}
  BY DEF PayloadFields
<1> QED
  BY <1>1, <1>2, <1>3, <1>4, <1>5, <1>6, <1>7 DEF IsNode

LEMMA ConditionFields ==
  ASSUME NEW v, IsNode(v)
  PROVE  /\ v.verb = "all" => DOMAIN v = {"verb"}
         /\ v.verb = "any" => DOMAIN v = {"verb"}
         /\ v.verb = "not" => DOMAIN v = {"verb"}
         /\ v.verb = "sun_up" => DOMAIN v = {"verb"}
         /\ v.verb = "switch" => DOMAIN v = {"verb", "device"}
         /\ v.verb = "occupancy_is" => DOMAIN v = {"verb", "device"}
         /\ v.verb = "compare" => DOMAIN v = {"verb", "device", "capability", "op"}
         /\ v.verb = "color_is" => DOMAIN v = {"verb", "device", "color"}
         /\ v.verb = "time_after" => DOMAIN v = {"verb", "time"}
         /\ v.verb = "time_before" => DOMAIN v = {"verb", "time"}
<1>1. "all" \in DOMAIN PayloadFields /\ PayloadFields["all"] = {}
  BY DEF PayloadFields
<1>2. "any" \in DOMAIN PayloadFields /\ PayloadFields["any"] = {}
  BY DEF PayloadFields
<1>3. "not" \in DOMAIN PayloadFields /\ PayloadFields["not"] = {}
  BY DEF PayloadFields
<1>4. "sun_up" \in DOMAIN PayloadFields /\ PayloadFields["sun_up"] = {}
  BY DEF PayloadFields
<1>5. "switch" \in DOMAIN PayloadFields /\ PayloadFields["switch"] = {"device"}
  BY DEF PayloadFields
<1>6. "occupancy_is" \in DOMAIN PayloadFields /\ PayloadFields["occupancy_is"] = {"device"}
  BY DEF PayloadFields
<1>7. "compare" \in DOMAIN PayloadFields /\ PayloadFields["compare"] = {"device", "capability", "op"}
  BY DEF PayloadFields
<1>8. "color_is" \in DOMAIN PayloadFields /\ PayloadFields["color_is"] = {"device", "color"}
  BY DEF PayloadFields
<1>9. "time_after" \in DOMAIN PayloadFields /\ PayloadFields["time_after"] = {"time"}
  BY DEF PayloadFields
<1>10. "time_before" \in DOMAIN PayloadFields /\ PayloadFields["time_before"] = {"time"}
  BY DEF PayloadFields
<1> QED
  BY <1>1, <1>2, <1>3, <1>4, <1>5, <1>6, <1>7, <1>8, <1>9, <1>10 DEF IsNode

LEMMA CommandFields ==
  ASSUME NEW v, IsNode(v)
  PROVE  /\ v.verb = "turn_on" => DOMAIN v = {"verb", "device"}
         /\ v.verb = "turn_off" => DOMAIN v = {"verb", "device"}
         /\ v.verb = "toggle" => DOMAIN v = {"verb", "device"}
         /\ v.verb = "send_ir_code" => DOMAIN v = {"verb", "device"}
         /\ v.verb = "decrease_brightness" => DOMAIN v = {"verb", "device"}
         /\ v.verb = "increase_brightness" => DOMAIN v = {"verb", "device"}
         /\ v.verb = "set_brightness" => DOMAIN v = {"verb", "device", "transition"}
         /\ v.verb = "set_color" => DOMAIN v = {"verb", "device", "color", "transition"}
         /\ v.verb = "set_color_temperature" => DOMAIN v = {"verb", "device", "kelvin", "mireds", "transition"}
         /\ v.verb = "activate_scene" => DOMAIN v = {"verb", "name"}
         /\ v.verb = "schedule_timer" => DOMAIN v = {"verb", "key", "after"}
         /\ v.verb = "cancel_timer" => DOMAIN v = {"verb", "key"}
<1>1. "turn_on" \in DOMAIN PayloadFields /\ PayloadFields["turn_on"] = {"device"}
  BY DEF PayloadFields
<1>2. "turn_off" \in DOMAIN PayloadFields /\ PayloadFields["turn_off"] = {"device"}
  BY DEF PayloadFields
<1>3. "toggle" \in DOMAIN PayloadFields /\ PayloadFields["toggle"] = {"device"}
  BY DEF PayloadFields
<1>4. "send_ir_code" \in DOMAIN PayloadFields /\ PayloadFields["send_ir_code"] = {"device"}
  BY DEF PayloadFields
<1>5. "decrease_brightness" \in DOMAIN PayloadFields /\ PayloadFields["decrease_brightness"] = {"device"}
  BY DEF PayloadFields
<1>6. "increase_brightness" \in DOMAIN PayloadFields /\ PayloadFields["increase_brightness"] = {"device"}
  BY DEF PayloadFields
<1>7. "set_brightness" \in DOMAIN PayloadFields /\ PayloadFields["set_brightness"] = {"device", "transition"}
  BY DEF PayloadFields
<1>8. "set_color" \in DOMAIN PayloadFields /\ PayloadFields["set_color"] = {"device", "color", "transition"}
  BY DEF PayloadFields
<1>9. /\ "set_color_temperature" \in DOMAIN PayloadFields
      /\ PayloadFields["set_color_temperature"] = {"device", "kelvin", "mireds", "transition"}
  BY DEF PayloadFields
<1>10. "activate_scene" \in DOMAIN PayloadFields /\ PayloadFields["activate_scene"] = {"name"}
  BY DEF PayloadFields
<1>11. "schedule_timer" \in DOMAIN PayloadFields /\ PayloadFields["schedule_timer"] = {"key", "after"}
  BY DEF PayloadFields
<1>12. "cancel_timer" \in DOMAIN PayloadFields /\ PayloadFields["cancel_timer"] = {"key"}
  BY DEF PayloadFields
<1> QED
  BY <1>1, <1>2, <1>3, <1>4, <1>5, <1>6, <1>7, <1>8, <1>9, <1>10, <1>11, <1>12 DEF IsNode

(* Optional fields, and those a node has for sure.                         *)
LEMMA FieldIs ==
  ASSUME NEW v, IsNode(v), v.verb \in DOMAIN PayloadFields, NEW f \in DOMAIN v
  PROVE  /\ Field(v, f) = v[f] /\ (Given(v, f) <=> v[f] # NONE)
         /\ f \in {"device", "event", "capability", "op", "name", "color"} => v[f] # NONE
         /\ f \in {"kelvin", "mireds"} => v[f] \in Nat \cup {NONE}
         /\ f = "time" => IsTime(v[f])
         /\ f = "after" => IsDuration(v[f])
  BY DEF IsNode, Field, Given

LEMMA NotGiven == ASSUME NEW v, NEW f, f \notin DOMAIN v PROVE ~Given(v, f) /\ Field(v, f) = NONE
  BY DEF Field, Given

FadeFits(v)  == v.transition # NONE => parse_duration(v.transition) # NONE
ColorFits(v) == \A i \in 1..3 : v.color[i] \in 0..255

LEMMA PayloadKnown == DOMAIN PayloadFields =
  {"event", "changed", "crosses", "reports", "timer", "schedule", "command_failed",
   "all", "any", "not", "sun_up", "switch", "occupancy_is", "compare", "color_is", "time_after", "time_before",
   "turn_on", "turn_off", "toggle", "send_ir_code", "decrease_brightness", "increase_brightness",
   "set_brightness", "set_color", "set_color_temperature", "activate_scene", "schedule_timer", "cancel_timer"}
  BY DEF PayloadFields

LEMMA NoneIs ==
  /\ NONE # "switch" /\ NONE # "occupancy" /\ NONE # "brightness" /\ NONE # "color"
  /\ NONE # "color_temperature" /\ NONE # "ir_transmitter" /\ NONE # "time_of_day" /\ NONE # "sun_up"
  BY LoweringAssumption DEF Kind, BoolKinds, NumericKinds

(* What it takes for each trigger, condition and command to be sound.      *)
LEMMA SoundTriggers ==
  ASSUME NEW v, IsNode(v)
  PROVE  /\ v.verb = "event" => (Sound(v, TriggerVerbs) <=> v.device \in DOMAIN raw.devices
              /\ v.event \in raw.devices[v.device].events)
         /\ v.verb = "changed" => (Sound(v, TriggerVerbs) <=> Declares(v.device, v.capability)
              /\ v.capability \in BoolKinds)
         /\ v.verb = "crosses" => (Sound(v, TriggerVerbs) <=> Declares(v.device, v.capability)
              /\ v.capability \in NumericKinds /\ (v.above = NONE) # (v.below = NONE))
         /\ v.verb = "reports" => (Sound(v, TriggerVerbs) <=> Declares(v.device, v.capability))
         /\ v.verb = "timer" => (Sound(v, TriggerVerbs) <=> TRUE)
         /\ v.verb = "schedule" => (Sound(v, TriggerVerbs) <=> v.name \in DOMAIN raw.schedules)
         /\ v.verb = "command_failed" => (Sound(v, TriggerVerbs)
              <=> v.device = "*" \/ v.device \in DOMAIN raw.devices)
<1>1. ASSUME v.verb = "event"
      PROVE  Sound(v, TriggerVerbs) <=> v.device \in DOMAIN raw.devices
               /\ v.event \in raw.devices[v.device].events
  <2>1. DOMAIN v = {"verb", "device", "event"}
    BY <1>1, TriggerFields
  <2>2. v.device # NONE /\ v.event # NONE
    BY <1>1, <2>1, PayloadKnown DEF IsNode
  <2>3. QED
    BY <1>1, <2>1, <2>2 DEF Sound, TriggerVerbs, KindOf, NeededBy, Field, Given
<1>2. ASSUME v.verb = "changed"
      PROVE  Sound(v, TriggerVerbs) <=> Declares(v.device, v.capability) /\ v.capability \in BoolKinds
  <2>1. DOMAIN v = {"verb", "device", "capability"}
    BY <1>2, TriggerFields
  <2>2. v.device # NONE /\ v.capability # NONE
    BY <1>2, <2>1, PayloadKnown DEF IsNode
  <2>3. KindOf(v) = v.capability /\ KindOf(v) # NONE
    BY <1>2, <2>1, <2>2, NoneIs DEF KindOf, NeededBy, Field
  <2>4. v.verb \in TriggerVerbs
    BY <1>2 DEF TriggerVerbs
  <2>5. QED
    BY <1>2, <2>1, <2>2, <2>3, <2>4 DEF Sound, Field, Given, Declares
<1>3. ASSUME v.verb = "crosses"
      PROVE  Sound(v, TriggerVerbs) <=> Declares(v.device, v.capability) /\ v.capability \in NumericKinds
               /\ (v.above = NONE) # (v.below = NONE)
  <2>1. DOMAIN v = {"verb", "device", "capability", "above", "below"}
    BY <1>3, TriggerFields
  <2>2. v.device # NONE /\ v.capability # NONE
    BY <1>3, <2>1, PayloadKnown DEF IsNode
  <2>3. KindOf(v) = v.capability /\ KindOf(v) # NONE
    BY <1>3, <2>1, <2>2, NoneIs DEF KindOf, NeededBy, Field
  <2>4. v.verb \in TriggerVerbs
    BY <1>3 DEF TriggerVerbs
  <2>5. QED
    BY <1>3, <2>1, <2>2, <2>3, <2>4 DEF Sound, Field, Given, Declares
<1>4. ASSUME v.verb = "reports"
      PROVE  Sound(v, TriggerVerbs) <=> Declares(v.device, v.capability)
  <2>1. DOMAIN v = {"verb", "device", "capability"}
    BY <1>4, TriggerFields
  <2>2. v.device # NONE /\ v.capability # NONE
    BY <1>4, <2>1, PayloadKnown DEF IsNode
  <2>3. KindOf(v) = v.capability /\ KindOf(v) # NONE
    BY <1>4, <2>1, <2>2, NoneIs DEF KindOf, NeededBy, Field
  <2>4. v.verb \in TriggerVerbs
    BY <1>4 DEF TriggerVerbs
  <2>5. QED
    BY <1>4, <2>1, <2>2, <2>3, <2>4 DEF Sound, Field, Given, Declares
<1>5. ASSUME v.verb = "timer"
      PROVE  Sound(v, TriggerVerbs) <=> TRUE
  <2>1. DOMAIN v = {"verb", "key"}
    BY <1>5, TriggerFields
  <2>2. QED
    BY <1>5, <2>1 DEF Sound, TriggerVerbs, KindOf, NeededBy, Field, Given
<1>6. ASSUME v.verb = "schedule"
      PROVE  Sound(v, TriggerVerbs) <=> v.name \in DOMAIN raw.schedules
  <2>1. DOMAIN v = {"verb", "name"}
    BY <1>6, TriggerFields
  <2>2. v.name # NONE
    BY <1>6, <2>1, PayloadKnown DEF IsNode
  <2>3. QED
    BY <1>6, <2>1, <2>2 DEF Sound, TriggerVerbs, KindOf, NeededBy, Field, Given
<1>7. ASSUME v.verb = "command_failed"
      PROVE  Sound(v, TriggerVerbs) <=> v.device = "*" \/ v.device \in DOMAIN raw.devices
  <2>1. DOMAIN v = {"verb", "device"}
    BY <1>7, TriggerFields
  <2>2. v.device # NONE
    BY <1>7, <2>1, PayloadKnown DEF IsNode
  <2>3. QED
    BY <1>7, <2>1, <2>2 DEF Sound, TriggerVerbs, KindOf, NeededBy, Field, Given
<1> QED
  BY <1>1, <1>2, <1>3, <1>4, <1>5, <1>6, <1>7

LEMMA SoundConditions ==
  ASSUME NEW v, IsNode(v)
  PROVE  /\ v.verb = "all" => (Sound(v, ConditionVerbs) <=> TRUE)
         /\ v.verb = "any" => (Sound(v, ConditionVerbs) <=> TRUE)
         /\ v.verb = "not" => (Sound(v, ConditionVerbs) <=> TRUE)
         /\ v.verb = "sun_up" => (Sound(v, ConditionVerbs) <=> TRUE)
         /\ v.verb = "switch" => (Sound(v, ConditionVerbs) <=> Declares(v.device, "switch"))
         /\ v.verb = "occupancy_is" => (Sound(v, ConditionVerbs) <=> Declares(v.device, "occupancy"))
         /\ v.verb = "compare" => (Sound(v, ConditionVerbs) <=> Declares(v.device, v.capability)
              /\ v.capability \in NumericKinds /\ v.op \in {"<", "<=", "==", "!=", ">=", ">"})
         /\ v.verb = "color_is" => (Sound(v, ConditionVerbs) <=> Declares(v.device, "color") /\ ColorFits(v))
         /\ v.verb = "time_after" => (Sound(v, ConditionVerbs) <=> v.time[1] =< 23 /\ v.time[2] =< 59)
         /\ v.verb = "time_before" => (Sound(v, ConditionVerbs) <=> v.time[1] =< 23 /\ v.time[2] =< 59)
<1>1. ASSUME v.verb = "all"
      PROVE  Sound(v, ConditionVerbs) <=> TRUE
  <2>1. DOMAIN v = {"verb"}
    BY <1>1, ConditionFields
  <2>2. QED
    BY <1>1, <2>1 DEF Sound, ConditionVerbs, KindOf, NeededBy, Field, Given
<1>2. ASSUME v.verb = "any"
      PROVE  Sound(v, ConditionVerbs) <=> TRUE
  <2>1. DOMAIN v = {"verb"}
    BY <1>2, ConditionFields
  <2>2. QED
    BY <1>2, <2>1 DEF Sound, ConditionVerbs, KindOf, NeededBy, Field, Given
<1>3. ASSUME v.verb = "not"
      PROVE  Sound(v, ConditionVerbs) <=> TRUE
  <2>1. DOMAIN v = {"verb"}
    BY <1>3, ConditionFields
  <2>2. QED
    BY <1>3, <2>1 DEF Sound, ConditionVerbs, KindOf, NeededBy, Field, Given
<1>4. ASSUME v.verb = "sun_up"
      PROVE  Sound(v, ConditionVerbs) <=> TRUE
  <2>1. DOMAIN v = {"verb"}
    BY <1>4, ConditionFields
  <2>2. QED
    BY <1>4, <2>1 DEF Sound, ConditionVerbs, KindOf, NeededBy, Field, Given
<1>5. ASSUME v.verb = "switch"
      PROVE  Sound(v, ConditionVerbs) <=> Declares(v.device, "switch")
  <2>1. DOMAIN v = {"verb", "device"}
    BY <1>5, ConditionFields
  <2>2. v.device # NONE
    BY <1>5, <2>1, PayloadKnown DEF IsNode
  <2>3. KindOf(v) = "switch" /\ KindOf(v) # NONE
    BY <1>5, <2>1, <2>2, NoneIs DEF KindOf, NeededBy, Field
  <2>4. v.verb \in ConditionVerbs
    BY <1>5 DEF ConditionVerbs
  <2>5. QED
    BY <1>5, <2>1, <2>2, <2>3, <2>4 DEF Sound, Field, Given, Declares
<1>6. ASSUME v.verb = "occupancy_is"
      PROVE  Sound(v, ConditionVerbs) <=> Declares(v.device, "occupancy")
  <2>1. DOMAIN v = {"verb", "device"}
    BY <1>6, ConditionFields
  <2>2. v.device # NONE
    BY <1>6, <2>1, PayloadKnown DEF IsNode
  <2>3. KindOf(v) = "occupancy" /\ KindOf(v) # NONE
    BY <1>6, <2>1, <2>2, NoneIs DEF KindOf, NeededBy, Field
  <2>4. v.verb \in ConditionVerbs
    BY <1>6 DEF ConditionVerbs
  <2>5. QED
    BY <1>6, <2>1, <2>2, <2>3, <2>4 DEF Sound, Field, Given, Declares
<1>7. ASSUME v.verb = "compare"
      PROVE  Sound(v, ConditionVerbs) <=> Declares(v.device, v.capability) /\ v.capability \in NumericKinds
               /\ v.op \in {"<", "<=", "==", "!=", ">=", ">"}
  <2>1. DOMAIN v = {"verb", "device", "capability", "op"}
    BY <1>7, ConditionFields
  <2>2. v.device # NONE /\ v.capability # NONE /\ v.op # NONE
    BY <1>7, <2>1, PayloadKnown DEF IsNode
  <2>3. KindOf(v) = v.capability /\ KindOf(v) # NONE
    BY <1>7, <2>1, <2>2, NoneIs DEF KindOf, NeededBy, Field
  <2>4. v.verb \in ConditionVerbs
    BY <1>7 DEF ConditionVerbs
  <2>5. QED
    BY <1>7, <2>1, <2>2, <2>3, <2>4 DEF Sound, Field, Given, Declares
<1>8. ASSUME v.verb = "color_is"
      PROVE  Sound(v, ConditionVerbs) <=> Declares(v.device, "color") /\ ColorFits(v)
  <2>1. DOMAIN v = {"verb", "device", "color"}
    BY <1>8, ConditionFields
  <2>2. v.device # NONE /\ v.color # NONE
    BY <1>8, <2>1, PayloadKnown DEF IsNode
  <2>3. KindOf(v) = "color" /\ KindOf(v) # NONE
    BY <1>8, <2>1, <2>2, NoneIs DEF KindOf, NeededBy, Field
  <2>4. v.verb \in ConditionVerbs
    BY <1>8 DEF ConditionVerbs
  <2>5. QED
    BY <1>8, <2>1, <2>2, <2>3, <2>4 DEF Sound, Field, Given, Declares, ColorFits
<1>9. ASSUME v.verb = "time_after"
      PROVE  Sound(v, ConditionVerbs) <=> v.time[1] =< 23 /\ v.time[2] =< 59
  <2>1. DOMAIN v = {"verb", "time"}
    BY <1>9, ConditionFields
  <2>2. IsTime(v.time)
    BY <1>9, <2>1, PayloadKnown DEF IsNode
  <2>3. QED
    BY <1>9, <2>1, <2>2 DEF Sound, ConditionVerbs, KindOf, NeededBy, Field, Given, IsTime, IsDuration
<1>10. ASSUME v.verb = "time_before"
      PROVE  Sound(v, ConditionVerbs) <=> v.time[1] =< 23 /\ v.time[2] =< 59
  <2>1. DOMAIN v = {"verb", "time"}
    BY <1>10, ConditionFields
  <2>2. IsTime(v.time)
    BY <1>10, <2>1, PayloadKnown DEF IsNode
  <2>3. QED
    BY <1>10, <2>1, <2>2 DEF Sound, ConditionVerbs, KindOf, NeededBy, Field, Given, IsTime, IsDuration
<1> QED
  BY <1>1, <1>2, <1>3, <1>4, <1>5, <1>6, <1>7, <1>8, <1>9, <1>10

LEMMA SoundCommands ==
  ASSUME NEW v, IsNode(v)
  PROVE  /\ v.verb = "turn_on" => (Sound(v, CommandVerbs) <=> Declares(v.device, "switch"))
         /\ v.verb = "turn_off" => (Sound(v, CommandVerbs) <=> Declares(v.device, "switch"))
         /\ v.verb = "toggle" => (Sound(v, CommandVerbs) <=> Declares(v.device, "switch"))
         /\ v.verb = "send_ir_code" => (Sound(v, CommandVerbs) <=> Declares(v.device, "ir_transmitter"))
         /\ v.verb = "decrease_brightness" => (Sound(v, CommandVerbs) <=> Declares(v.device, "brightness"))
         /\ v.verb = "increase_brightness" => (Sound(v, CommandVerbs) <=> Declares(v.device, "brightness"))
         /\ v.verb = "set_brightness" => (Sound(v, CommandVerbs) <=> Declares(v.device, "brightness")
              /\ FadeFits(v))
         /\ v.verb = "set_color" => (Sound(v, CommandVerbs) <=> Declares(v.device, "color") /\ ColorFits(v)
              /\ FadeFits(v))
         /\ v.verb = "set_color_temperature" => (Sound(v, CommandVerbs)
              <=> Declares(v.device, "color_temperature") /\ ((v.kelvin # NONE) # (v.mireds # NONE))
              /\ parse_color_temperature(v) # NONE /\ FadeFits(v))
         /\ v.verb = "activate_scene" => (Sound(v, CommandVerbs) <=> v.name \in DOMAIN raw.scenes)
         /\ v.verb = "schedule_timer" => (Sound(v, CommandVerbs) <=> parse_duration(v.after) # NONE)
         /\ v.verb = "cancel_timer" => (Sound(v, CommandVerbs) <=> TRUE)
<1>1. ASSUME v.verb = "turn_on"
      PROVE  Sound(v, CommandVerbs) <=> Declares(v.device, "switch")
  <2>1. DOMAIN v = {"verb", "device"}
    BY <1>1, CommandFields
  <2>2. v.device # NONE
    BY <1>1, <2>1, PayloadKnown DEF IsNode
  <2>3. KindOf(v) = "switch" /\ KindOf(v) # NONE
    BY <1>1, <2>1, <2>2, NoneIs DEF KindOf, NeededBy, Field
  <2>4. v.verb \in CommandVerbs
    BY <1>1 DEF CommandVerbs, NeededBy
  <2>5. QED
    BY <1>1, <2>1, <2>2, <2>3, <2>4 DEF Sound, Field, Given, Declares
<1>2. ASSUME v.verb = "turn_off"
      PROVE  Sound(v, CommandVerbs) <=> Declares(v.device, "switch")
  <2>1. DOMAIN v = {"verb", "device"}
    BY <1>2, CommandFields
  <2>2. v.device # NONE
    BY <1>2, <2>1, PayloadKnown DEF IsNode
  <2>3. KindOf(v) = "switch" /\ KindOf(v) # NONE
    BY <1>2, <2>1, <2>2, NoneIs DEF KindOf, NeededBy, Field
  <2>4. v.verb \in CommandVerbs
    BY <1>2 DEF CommandVerbs, NeededBy
  <2>5. QED
    BY <1>2, <2>1, <2>2, <2>3, <2>4 DEF Sound, Field, Given, Declares
<1>3. ASSUME v.verb = "toggle"
      PROVE  Sound(v, CommandVerbs) <=> Declares(v.device, "switch")
  <2>1. DOMAIN v = {"verb", "device"}
    BY <1>3, CommandFields
  <2>2. v.device # NONE
    BY <1>3, <2>1, PayloadKnown DEF IsNode
  <2>3. KindOf(v) = "switch" /\ KindOf(v) # NONE
    BY <1>3, <2>1, <2>2, NoneIs DEF KindOf, NeededBy, Field
  <2>4. v.verb \in CommandVerbs
    BY <1>3 DEF CommandVerbs, NeededBy
  <2>5. QED
    BY <1>3, <2>1, <2>2, <2>3, <2>4 DEF Sound, Field, Given, Declares
<1>4. ASSUME v.verb = "send_ir_code"
      PROVE  Sound(v, CommandVerbs) <=> Declares(v.device, "ir_transmitter")
  <2>1. DOMAIN v = {"verb", "device"}
    BY <1>4, CommandFields
  <2>2. v.device # NONE
    BY <1>4, <2>1, PayloadKnown DEF IsNode
  <2>3. KindOf(v) = "ir_transmitter" /\ KindOf(v) # NONE
    BY <1>4, <2>1, <2>2, NoneIs DEF KindOf, NeededBy, Field
  <2>4. v.verb \in CommandVerbs
    BY <1>4 DEF CommandVerbs, NeededBy
  <2>5. QED
    BY <1>4, <2>1, <2>2, <2>3, <2>4 DEF Sound, Field, Given, Declares
<1>5. ASSUME v.verb = "decrease_brightness"
      PROVE  Sound(v, CommandVerbs) <=> Declares(v.device, "brightness")
  <2>1. DOMAIN v = {"verb", "device"}
    BY <1>5, CommandFields
  <2>2. v.device # NONE
    BY <1>5, <2>1, PayloadKnown DEF IsNode
  <2>3. KindOf(v) = "brightness" /\ KindOf(v) # NONE
    BY <1>5, <2>1, <2>2, NoneIs DEF KindOf, NeededBy, Field
  <2>4. v.verb \in CommandVerbs
    BY <1>5 DEF CommandVerbs, NeededBy
  <2>5. QED
    BY <1>5, <2>1, <2>2, <2>3, <2>4 DEF Sound, Field, Given, Declares
<1>6. ASSUME v.verb = "increase_brightness"
      PROVE  Sound(v, CommandVerbs) <=> Declares(v.device, "brightness")
  <2>1. DOMAIN v = {"verb", "device"}
    BY <1>6, CommandFields
  <2>2. v.device # NONE
    BY <1>6, <2>1, PayloadKnown DEF IsNode
  <2>3. KindOf(v) = "brightness" /\ KindOf(v) # NONE
    BY <1>6, <2>1, <2>2, NoneIs DEF KindOf, NeededBy, Field
  <2>4. v.verb \in CommandVerbs
    BY <1>6 DEF CommandVerbs, NeededBy
  <2>5. QED
    BY <1>6, <2>1, <2>2, <2>3, <2>4 DEF Sound, Field, Given, Declares
<1>7. ASSUME v.verb = "set_brightness"
      PROVE  Sound(v, CommandVerbs) <=> Declares(v.device, "brightness") /\ FadeFits(v)
  <2>1. DOMAIN v = {"verb", "device", "transition"}
    BY <1>7, CommandFields
  <2>2. v.device # NONE
    BY <1>7, <2>1, PayloadKnown DEF IsNode
  <2>3. KindOf(v) = "brightness" /\ KindOf(v) # NONE
    BY <1>7, <2>1, <2>2, NoneIs DEF KindOf, NeededBy, Field
  <2>4. v.verb \in CommandVerbs
    BY <1>7 DEF CommandVerbs, NeededBy
  <2>5. QED
    BY <1>7, <2>1, <2>2, <2>3, <2>4 DEF Sound, Field, Given, Declares, FadeFits
<1>8. ASSUME v.verb = "set_color"
      PROVE  Sound(v, CommandVerbs) <=> Declares(v.device, "color") /\ ColorFits(v) /\ FadeFits(v)
  <2>1. DOMAIN v = {"verb", "device", "color", "transition"}
    BY <1>8, CommandFields
  <2>2. v.device # NONE /\ v.color # NONE
    BY <1>8, <2>1, PayloadKnown DEF IsNode
  <2>3. KindOf(v) = "color" /\ KindOf(v) # NONE
    BY <1>8, <2>1, <2>2, NoneIs DEF KindOf, NeededBy, Field
  <2>4. v.verb \in CommandVerbs
    BY <1>8 DEF CommandVerbs, NeededBy
  <2>5. QED
    BY <1>8, <2>1, <2>2, <2>3, <2>4 DEF Sound, Field, Given, Declares, FadeFits, ColorFits
<1>9. ASSUME v.verb = "set_color_temperature"
      PROVE  Sound(v, CommandVerbs) <=> Declares(v.device, "color_temperature")
               /\ ((v.kelvin # NONE) # (v.mireds # NONE)) /\ parse_color_temperature(v) # NONE /\ FadeFits(v)
  <2>1. DOMAIN v = {"verb", "device", "kelvin", "mireds", "transition"}
    BY <1>9, CommandFields
  <2>2. v.device # NONE /\ v.kelvin \in Nat \cup {NONE} /\ v.mireds \in Nat \cup {NONE}
    BY <1>9, <2>1, PayloadKnown DEF IsNode
  <2>3. KindOf(v) = "color_temperature" /\ KindOf(v) # NONE
    BY <1>9, <2>1, <2>2, NoneIs DEF KindOf, NeededBy, Field
  <2>4. v.verb \in CommandVerbs
    BY <1>9 DEF CommandVerbs, NeededBy
  <2>5. QED
    BY <1>9, <2>1, <2>2, <2>3, <2>4 DEF Sound, Field, Given, Declares, FadeFits
<1>10. ASSUME v.verb = "activate_scene"
      PROVE  Sound(v, CommandVerbs) <=> v.name \in DOMAIN raw.scenes
  <2>1. DOMAIN v = {"verb", "name"}
    BY <1>10, CommandFields
  <2>2. v.name # NONE
    BY <1>10, <2>1, PayloadKnown DEF IsNode
  <2>3. QED
    BY <1>10, <2>1, <2>2 DEF Sound, CommandVerbs, KindOf, NeededBy, Field, Given
<1>11. ASSUME v.verb = "schedule_timer"
      PROVE  Sound(v, CommandVerbs) <=> parse_duration(v.after) # NONE
  <2>1. DOMAIN v = {"verb", "key", "after"}
    BY <1>11, CommandFields
  <2>2. IsDuration(v.after)
    BY <1>11, <2>1, PayloadKnown DEF IsNode
  <2>3. QED
    BY <1>11, <2>1, <2>2 DEF Sound, CommandVerbs, KindOf, NeededBy, Field, Given, IsTime, IsDuration
<1>12. ASSUME v.verb = "cancel_timer"
      PROVE  Sound(v, CommandVerbs) <=> TRUE
  <2>1. DOMAIN v = {"verb", "key"}
    BY <1>12, CommandFields
  <2>2. QED
    BY <1>12, <2>1 DEF Sound, CommandVerbs, KindOf, NeededBy, Field, Given
<1> QED
  BY <1>1, <1>2, <1>3, <1>4, <1>5, <1>6, <1>7, <1>8, <1>9, <1>10, <1>11, <1>12

(* What it takes for a node to lower without an error.                     *)
LEMMA TriggerChecksOk ==
  ASSUME NEW lw, NEW v
  PROVE  /\ v.verb = "event" => Needs(TriggerChecks(lw, v), v.device \in DOMAIN lw.devices
              /\ (v.device \in DOMAIN lw.devices => v.event \in DOMAIN lw.devices[v.device].events))
         /\ v.verb = "changed" => Needs(TriggerChecks(lw, v), v.capability \in Declarable \cap BoolKinds
              /\ Carries(lw, v.device, v.capability))
         /\ v.verb = "crosses" => Needs(TriggerChecks(lw, v), v.capability \in Declarable \cap NumericKinds
              /\ Carries(lw, v.device, v.capability) /\ ((v.above = NONE) # (v.below = NONE)))
         /\ v.verb = "reports" => Needs(TriggerChecks(lw, v), v.capability \in Declarable \cap Kind
              /\ Carries(lw, v.device, v.capability))
         /\ v.verb = "timer" => Needs(TriggerChecks(lw, v), TRUE)
         /\ v.verb = "schedule" => Needs(TriggerChecks(lw, v), (v.name \in DOMAIN lw.schedules))
<1>1. ASSUME v.verb = "event"
      PROVE  Needs(TriggerChecks(lw, v), v.device \in DOMAIN lw.devices
               /\ (v.device \in DOMAIN lw.devices => v.event \in DOMAIN lw.devices[v.device].events))
  <2>1. TriggerChecks(lw, v) = << Known(lw, v.device),
          Stops(v.device \in DOMAIN lw.devices => v.event \in DOMAIN lw.devices[v.device].events,
          "E_UNKNOWN_EVENT") >>
    BY <1>1 DEF TriggerChecks
  <2>2. Stops(v.device \in DOMAIN lw.devices => v.event \in DOMAIN lw.devices[v.device].events,
          "E_UNKNOWN_EVENT").ok
          <=> (v.device \in DOMAIN lw.devices => v.event \in DOMAIN lw.devices[v.device].events)
    BY DEF Stops
  <2>3. QED
    BY <2>1, <2>2, AllOkOf, KnownOk DEF Needs
<1>2. ASSUME v.verb = "changed"
      PROVE  Needs(TriggerChecks(lw, v), v.capability \in Declarable \cap BoolKinds
               /\ Carries(lw, v.device, v.capability))
  <2>1. TriggerChecks(lw, v) = << Known(lw, v.device), Capability(v.capability, BoolKinds,
          "E_NON_BOOL_CAPABILITY"), Has(lw, v.device, v.capability) >>
    BY <1>2 DEF TriggerChecks
  <2>2. QED
    BY <2>1, AllOkOf, KnownOk, CapabilityOk, HasOk DEF Needs, Carries
<1>3. ASSUME v.verb = "crosses"
      PROVE  Needs(TriggerChecks(lw, v), v.capability \in Declarable \cap NumericKinds
               /\ Carries(lw, v.device, v.capability) /\ ((v.above = NONE) # (v.below = NONE)))
  <2>1. TriggerChecks(lw, v) = << Known(lw, v.device), Capability(v.capability, NumericKinds,
          "E_NON_NUMERIC_CAPABILITY"), Has(lw, v.device, v.capability),
          Stops((v.above = NONE) # (v.below = NONE), "E_BAD_CROSS") >>
    BY <1>3 DEF TriggerChecks
  <2>2. Stops((v.above = NONE) # (v.below = NONE), "E_BAD_CROSS").ok <=> ((v.above = NONE) # (v.below = NONE))
    BY DEF Stops
  <2>3. QED
    BY <2>1, <2>2, AllOkOf, KnownOk, CapabilityOk, HasOk DEF Needs, Carries
<1>4. ASSUME v.verb = "reports"
      PROVE  Needs(TriggerChecks(lw, v), v.capability \in Declarable \cap Kind
               /\ Carries(lw, v.device, v.capability))
  <2>1. TriggerChecks(lw, v) = << Known(lw, v.device), Capability(v.capability, Kind, "E_BAD_CAPABILITY"),
          Has(lw, v.device, v.capability) >>
    BY <1>4 DEF TriggerChecks
  <2>2. QED
    BY <2>1, AllOkOf, KnownOk, CapabilityOk, HasOk DEF Needs, Carries
<1>5. ASSUME v.verb = "timer"
      PROVE  Needs(TriggerChecks(lw, v), TRUE)
  <2>1. TriggerChecks(lw, v) = <<  >>
    BY <1>5 DEF TriggerChecks
  <2>2. QED
    BY <2>1, AllOkOf DEF Needs
<1>6. ASSUME v.verb = "schedule"
      PROVE  Needs(TriggerChecks(lw, v), (v.name \in DOMAIN lw.schedules))
  <2>1. TriggerChecks(lw, v) = << Stops(v.name \in DOMAIN lw.schedules, "E_UNKNOWN_SCHEDULE") >>
    BY <1>6 DEF TriggerChecks
  <2>2. Stops(v.name \in DOMAIN lw.schedules, "E_UNKNOWN_SCHEDULE").ok <=> (v.name \in DOMAIN lw.schedules)
    BY DEF Stops
  <2>3. QED
    BY <2>1, <2>2, AllOkOf DEF Needs
<1> QED
  BY <1>1, <1>2, <1>3, <1>4, <1>5, <1>6

LEMMA ConditionChecksOk ==
  ASSUME NEW lw, NEW v
  PROVE  /\ v.verb = "all" => Needs(ConditionChecks(lw, v), TRUE)
         /\ v.verb = "any" => Needs(ConditionChecks(lw, v), TRUE)
         /\ v.verb = "not" => Needs(ConditionChecks(lw, v), TRUE)
         /\ v.verb = "sun_up" => Needs(ConditionChecks(lw, v), TRUE)
         /\ v.verb = "switch" => Needs(ConditionChecks(lw, v), Carries(lw, v.device, "switch"))
         /\ v.verb = "occupancy_is" => Needs(ConditionChecks(lw, v), Carries(lw, v.device, "occupancy"))
         /\ v.verb = "compare" => Needs(ConditionChecks(lw, v),
              v.capability \in Declarable \cap NumericKinds /\ (v.op \in {"<", "<=", "==", "!=", ">=", ">"})
              /\ Carries(lw, v.device, v.capability))
         /\ v.verb = "color_is" => Needs(ConditionChecks(lw, v), Carries(lw, v.device, "color")
              /\ (parse_color(v.color) # NONE))
         /\ v.verb = "time_after" => Needs(ConditionChecks(lw, v), (parse_time(v.time) # NONE))
         /\ v.verb = "time_before" => Needs(ConditionChecks(lw, v), (parse_time(v.time) # NONE))
<1>1. ASSUME v.verb = "all"
      PROVE  Needs(ConditionChecks(lw, v), TRUE)
  <2>1. ConditionChecks(lw, v) = <<  >>
    BY <1>1 DEF ConditionChecks
  <2>2. QED
    BY <2>1, AllOkOf DEF Needs
<1>2. ASSUME v.verb = "any"
      PROVE  Needs(ConditionChecks(lw, v), TRUE)
  <2>1. ConditionChecks(lw, v) = <<  >>
    BY <1>2 DEF ConditionChecks
  <2>2. QED
    BY <2>1, AllOkOf DEF Needs
<1>3. ASSUME v.verb = "not"
      PROVE  Needs(ConditionChecks(lw, v), TRUE)
  <2>1. ConditionChecks(lw, v) = <<  >>
    BY <1>3 DEF ConditionChecks
  <2>2. QED
    BY <2>1, AllOkOf DEF Needs
<1>4. ASSUME v.verb = "sun_up"
      PROVE  Needs(ConditionChecks(lw, v), TRUE)
  <2>1. ConditionChecks(lw, v) = <<  >>
    BY <1>4 DEF ConditionChecks
  <2>2. QED
    BY <2>1, AllOkOf DEF Needs
<1>5. ASSUME v.verb = "switch"
      PROVE  Needs(ConditionChecks(lw, v), Carries(lw, v.device, "switch"))
  <2>1. ConditionChecks(lw, v) = << Known(lw, v.device), Has(lw, v.device, "switch") >>
    BY <1>5 DEF ConditionChecks
  <2>2. QED
    BY <2>1, AllOkOf, KnownOk, HasOk DEF Needs, Carries
<1>6. ASSUME v.verb = "occupancy_is"
      PROVE  Needs(ConditionChecks(lw, v), Carries(lw, v.device, "occupancy"))
  <2>1. ConditionChecks(lw, v) = << Known(lw, v.device), Has(lw, v.device, "occupancy") >>
    BY <1>6 DEF ConditionChecks
  <2>2. QED
    BY <2>1, AllOkOf, KnownOk, HasOk DEF Needs, Carries
<1>7. ASSUME v.verb = "compare"
      PROVE  Needs(ConditionChecks(lw, v), v.capability \in Declarable \cap NumericKinds
               /\ (v.op \in {"<", "<=", "==", "!=", ">=", ">"}) /\ Carries(lw, v.device, v.capability))
  <2>1. ConditionChecks(lw, v) = << Known(lw, v.device), Capability(v.capability, NumericKinds,
          "E_NON_NUMERIC_CAPABILITY"), Stops(v.op \in {"<", "<=", "==", "!=", ">=", ">"}, "E_BAD_OP"), Has(lw,
          v.device, v.capability) >>
    BY <1>7 DEF ConditionChecks
  <2>2. Stops(v.op \in {"<", "<=", "==", "!=", ">=", ">"}, "E_BAD_OP").ok
          <=> (v.op \in {"<", "<=", "==", "!=", ">=", ">"})
    BY DEF Stops
  <2>3. QED
    BY <2>1, <2>2, AllOkOf, KnownOk, CapabilityOk, HasOk DEF Needs, Carries
<1>8. ASSUME v.verb = "color_is"
      PROVE  Needs(ConditionChecks(lw, v), Carries(lw, v.device, "color") /\ (parse_color(v.color) # NONE))
  <2>1. ConditionChecks(lw, v) = << Known(lw, v.device), Has(lw, v.device, "color"),
          Stops(parse_color(v.color) # NONE, "E_BAD_COLOR") >>
    BY <1>8 DEF ConditionChecks
  <2>2. Stops(parse_color(v.color) # NONE, "E_BAD_COLOR").ok <=> (parse_color(v.color) # NONE)
    BY DEF Stops
  <2>3. QED
    BY <2>1, <2>2, AllOkOf, KnownOk, HasOk DEF Needs, Carries
<1>9. ASSUME v.verb = "time_after"
      PROVE  Needs(ConditionChecks(lw, v), (parse_time(v.time) # NONE))
  <2>1. ConditionChecks(lw, v) = << Stops(parse_time(v.time) # NONE, "E_BAD_TIME") >>
    BY <1>9 DEF ConditionChecks
  <2>2. Stops(parse_time(v.time) # NONE, "E_BAD_TIME").ok <=> (parse_time(v.time) # NONE)
    BY DEF Stops
  <2>3. QED
    BY <2>1, <2>2, AllOkOf DEF Needs
<1>10. ASSUME v.verb = "time_before"
      PROVE  Needs(ConditionChecks(lw, v), (parse_time(v.time) # NONE))
  <2>1. ConditionChecks(lw, v) = << Stops(parse_time(v.time) # NONE, "E_BAD_TIME") >>
    BY <1>10 DEF ConditionChecks
  <2>2. Stops(parse_time(v.time) # NONE, "E_BAD_TIME").ok <=> (parse_time(v.time) # NONE)
    BY DEF Stops
  <2>3. QED
    BY <2>1, <2>2, AllOkOf DEF Needs
<1> QED
  BY <1>1, <1>2, <1>3, <1>4, <1>5, <1>6, <1>7, <1>8, <1>9, <1>10

LEMMA CommandChecksOk ==
  ASSUME NEW lw, NEW v
  PROVE  /\ v.verb = "turn_on" => Needs(CommandChecks(lw, v), Carries(lw, v.device, "switch"))
         /\ v.verb = "turn_off" => Needs(CommandChecks(lw, v), Carries(lw, v.device, "switch"))
         /\ v.verb = "toggle" => Needs(CommandChecks(lw, v), Carries(lw, v.device, "switch"))
         /\ v.verb = "send_ir_code" => Needs(CommandChecks(lw, v), Carries(lw, v.device, "ir_transmitter"))
         /\ v.verb = "decrease_brightness" => Needs(CommandChecks(lw, v), Carries(lw, v.device, "brightness"))
         /\ v.verb = "increase_brightness" => Needs(CommandChecks(lw, v), Carries(lw, v.device, "brightness"))
         /\ v.verb = "set_brightness" => Needs(CommandChecks(lw, v), Carries(lw, v.device, "brightness")
              /\ FadeFits(v))
         /\ v.verb = "set_color" => Needs(CommandChecks(lw, v), Carries(lw, v.device, "color")
              /\ (parse_color(v.color) # NONE) /\ FadeFits(v))
         /\ v.verb = "set_color_temperature" => Needs(CommandChecks(lw, v), Carries(lw, v.device,
              "color_temperature") /\ (parse_color_temperature(v) # NONE) /\ FadeFits(v))
         /\ v.verb = "activate_scene" => Needs(CommandChecks(lw, v), (v.name \in DOMAIN lw.scenes))
         /\ v.verb = "schedule_timer" => Needs(CommandChecks(lw, v), (parse_duration(v.after) # NONE))
         /\ v.verb = "cancel_timer" => Needs(CommandChecks(lw, v), TRUE)
<1>1. ASSUME v.verb = "turn_on"
      PROVE  Needs(CommandChecks(lw, v), Carries(lw, v.device, "switch"))
  <2>1. CommandChecks(lw, v) = << Known(lw, v.device), Has(lw, v.device, "switch") >>
    BY <1>1 DEF CommandChecks, NeededBy, Payloads
  <2>2. QED
    BY <2>1, AllOkOf, KnownOk, HasOk DEF Needs, Carries
<1>2. ASSUME v.verb = "turn_off"
      PROVE  Needs(CommandChecks(lw, v), Carries(lw, v.device, "switch"))
  <2>1. CommandChecks(lw, v) = << Known(lw, v.device), Has(lw, v.device, "switch") >>
    BY <1>2 DEF CommandChecks, NeededBy, Payloads
  <2>2. QED
    BY <2>1, AllOkOf, KnownOk, HasOk DEF Needs, Carries
<1>3. ASSUME v.verb = "toggle"
      PROVE  Needs(CommandChecks(lw, v), Carries(lw, v.device, "switch"))
  <2>1. CommandChecks(lw, v) = << Known(lw, v.device), Has(lw, v.device, "switch") >>
    BY <1>3 DEF CommandChecks, NeededBy, Payloads
  <2>2. QED
    BY <2>1, AllOkOf, KnownOk, HasOk DEF Needs, Carries
<1>4. ASSUME v.verb = "send_ir_code"
      PROVE  Needs(CommandChecks(lw, v), Carries(lw, v.device, "ir_transmitter"))
  <2>1. CommandChecks(lw, v) = << Known(lw, v.device), Has(lw, v.device, "ir_transmitter") >>
    BY <1>4 DEF CommandChecks, NeededBy, Payloads
  <2>2. QED
    BY <2>1, AllOkOf, KnownOk, HasOk DEF Needs, Carries
<1>5. ASSUME v.verb = "decrease_brightness"
      PROVE  Needs(CommandChecks(lw, v), Carries(lw, v.device, "brightness"))
  <2>1. CommandChecks(lw, v) = << Known(lw, v.device), Has(lw, v.device, "brightness") >>
    BY <1>5 DEF CommandChecks, NeededBy, Payloads
  <2>2. QED
    BY <2>1, AllOkOf, KnownOk, HasOk DEF Needs, Carries
<1>6. ASSUME v.verb = "increase_brightness"
      PROVE  Needs(CommandChecks(lw, v), Carries(lw, v.device, "brightness"))
  <2>1. CommandChecks(lw, v) = << Known(lw, v.device), Has(lw, v.device, "brightness") >>
    BY <1>6 DEF CommandChecks, NeededBy, Payloads
  <2>2. QED
    BY <2>1, AllOkOf, KnownOk, HasOk DEF Needs, Carries
<1>7. ASSUME v.verb = "set_brightness"
      PROVE  Needs(CommandChecks(lw, v), Carries(lw, v.device, "brightness") /\ FadeFits(v))
  <2>1. CommandChecks(lw, v) = << Known(lw, v.device), Has(lw, v.device, "brightness"), Fade(v) >>
    BY <1>7 DEF CommandChecks, NeededBy, Payloads
  <2>2. /\ Known(lw, v.device).ok <=> v.device \in DOMAIN lw.devices
        /\ Has(lw, v.device, "brightness").ok
              <=> (v.device \in DOMAIN lw.devices => "brightness" \in lw.devices[v.device].capabilities)
        /\ Fade(v).ok <=> FadeFits(v)
    BY KnownOk, HasOk, FadeOk DEF FadeFits
  <2>3. QED
    BY <2>1, <2>2, AllOkOf DEF Needs, Carries
<1>8. ASSUME v.verb = "set_color"
      PROVE  Needs(CommandChecks(lw, v), Carries(lw, v.device, "color") /\ (parse_color(v.color) # NONE)
               /\ FadeFits(v))
  <2>1. CommandChecks(lw, v) = << Known(lw, v.device), Has(lw, v.device, "color"),
          Stops(parse_color(v.color) # NONE, "E_BAD_COLOR"), Fade(v) >>
    BY <1>8 DEF CommandChecks, NeededBy, Payloads
  <2>2. Stops(parse_color(v.color) # NONE, "E_BAD_COLOR").ok <=> (parse_color(v.color) # NONE)
    BY DEF Stops
  <2>3. QED
    BY <2>1, <2>2, AllOkOf, KnownOk, HasOk, FadeOk DEF Needs, Carries, FadeFits
<1>9. ASSUME v.verb = "set_color_temperature"
      PROVE  Needs(CommandChecks(lw, v), Carries(lw, v.device, "color_temperature")
               /\ (parse_color_temperature(v) # NONE) /\ FadeFits(v))
  <2>1. CommandChecks(lw, v) = << Known(lw, v.device), Has(lw, v.device, "color_temperature"),
          Stops(parse_color_temperature(v) # NONE, "E_BAD_COLOR_TEMP"), Fade(v) >>
    BY <1>9 DEF CommandChecks, NeededBy, Payloads
  <2>2. Stops(parse_color_temperature(v) # NONE, "E_BAD_COLOR_TEMP").ok <=> (parse_color_temperature(v) # NONE)
    BY DEF Stops
  <2>3. QED
    BY <2>1, <2>2, AllOkOf, KnownOk, HasOk, FadeOk DEF Needs, Carries, FadeFits
<1>10. ASSUME v.verb = "activate_scene"
      PROVE  Needs(CommandChecks(lw, v), (v.name \in DOMAIN lw.scenes))
  <2>1. CommandChecks(lw, v) = << Stops(v.name \in DOMAIN lw.scenes, "E_UNKNOWN_SCENE") >>
    BY <1>10 DEF CommandChecks, NeededBy, Payloads
  <2>2. Stops(v.name \in DOMAIN lw.scenes, "E_UNKNOWN_SCENE").ok <=> (v.name \in DOMAIN lw.scenes)
    BY DEF Stops
  <2>3. QED
    BY <2>1, <2>2, AllOkOf DEF Needs
<1>11. ASSUME v.verb = "schedule_timer"
      PROVE  Needs(CommandChecks(lw, v), (parse_duration(v.after) # NONE))
  <2>1. CommandChecks(lw, v) = << Stops(parse_duration(v.after) # NONE, "E_BAD_DURATION") >>
    BY <1>11 DEF CommandChecks, NeededBy, Payloads
  <2>2. Stops(parse_duration(v.after) # NONE, "E_BAD_DURATION").ok <=> (parse_duration(v.after) # NONE)
    BY DEF Stops
  <2>3. QED
    BY <2>1, <2>2, AllOkOf DEF Needs
<1>12. ASSUME v.verb = "cancel_timer"
      PROVE  Needs(CommandChecks(lw, v), TRUE)
  <2>1. CommandChecks(lw, v) = <<  >>
    BY <1>12 DEF CommandChecks, NeededBy, Payloads
  <2>2. QED
    BY <2>1, AllOkOf DEF Needs
<1> QED
  BY <1>1, <1>2, <1>3, <1>4, <1>5, <1>6, <1>7, <1>8, <1>9, <1>10, <1>11, <1>12

(* The lowerer knows what the configuration declares, but for the devices  *)
(* of an unknown adapter.                                                  *)
Reflects(lw) ==
  /\ DOMAIN lw.devices = Kept
  /\ \A n \in Kept : /\ lw.devices[n].capabilities = raw.devices[n].capabilities \cap Declarable
                     /\ DOMAIN lw.devices[n].events = raw.devices[n].events
  /\ DOMAIN lw.scenes = DOMAIN raw.scenes /\ DOMAIN lw.schedules = DOMAIN raw.schedules

(* Checks without an error mean sound, and the converse if no device was   *)
(* dropped.                                                                *)
Decides(checks, sound) ==
  /\ DOMAIN checks \subseteq Nat
  /\ AllOk(checks) => sound
  /\ Kept = DOMAIN raw.devices /\ sound => AllOk(checks)

(* What a device can do is the same for the lowerer and the configuration. *)
LEMMA ReflectsDeclares ==
  ASSUME NEW lw, Reflects(lw), NEW n, NEW kind
  PROVE  /\ Carries(lw, n, kind) => Declares(n, kind)
         /\ Kept = DOMAIN raw.devices /\ Declares(n, kind) => Carries(lw, n, kind)
         /\ Declares(n, kind) => kind \in Declarable
  BY DEF Reflects, Carries, Declares, Kept

(* Every check of a node is about its soundness, and none is missing.      *)
LEMMA TriggerDecides ==
  ASSUME NEW lw, Reflects(lw), NEW v, IsNode(v)
  PROVE  Decides(TriggerChecks(lw, v), Sound(v, TriggerVerbs))
<1>1. CASE v.verb = "event"
  BY <1>1, SoundTriggers, TriggerChecksOk DEF Needs, Decides, Reflects, Kept
<1>2. CASE v.verb = "changed"
  BY <1>2, ReflectsDeclares, SoundTriggers, TriggerChecksOk DEF Needs, Decides
<1>3. CASE v.verb = "crosses"
  BY <1>3, ReflectsDeclares, SoundTriggers, TriggerChecksOk DEF Needs, Decides
<1>4. CASE v.verb = "reports"
  BY <1>4, ReflectsDeclares, SoundTriggers, TriggerChecksOk DEF Needs, Decides, Kind, BoolKinds, NumericKinds, Declarable
<1>5. CASE v.verb = "timer"
  BY <1>5, SoundTriggers, TriggerChecksOk DEF Needs, Decides
<1>6. CASE v.verb = "schedule"
  BY <1>6, SoundTriggers, TriggerChecksOk DEF Needs, Decides, Reflects, Kept
<1>7. CASE v.verb = "command_failed" /\ v.device = "*"
  <2>1. TriggerChecks(lw, v) = << >>
    BY <1>7 DEF TriggerChecks
  <2>2. QED
    BY <1>7, <2>1, SoundTriggers, AllOkOf DEF Decides
<1>8. CASE v.verb = "command_failed" /\ v.device # "*"
  <2>1. TriggerChecks(lw, v) = << Known(lw, v.device) >>
    BY <1>8 DEF TriggerChecks
  <2>2. Known(lw, v.device).ok <=> v.device \in Kept
    BY KnownOk DEF Reflects
  <2>3. Sound(v, TriggerVerbs) <=> v.device \in DOMAIN raw.devices
    BY <1>8, SoundTriggers
  <2>4. QED
    BY <2>1, <2>2, <2>3, AllOkOf DEF Decides, Kept
<1>9. CASE v.verb \notin TriggerVerbs
  <2>1. ~Sound(v, TriggerVerbs)
    BY <1>9 DEF Sound
  <2>2. TriggerChecks(lw, v) = << Malformed >> \/ \E code : TriggerChecks(lw, v) = << Stops(FALSE, code) >>
    BY <1>9 DEF TriggerChecks, TriggerVerbs
  <2>3. ~Malformed.ok /\ \A code : ~Stops(FALSE, code).ok
    BY DEF Malformed, Stops
  <2>4. QED
    BY <2>1, <2>2, <2>3, AllOkOf DEF Decides
<1> QED
  BY <1>1, <1>2, <1>3, <1>4, <1>5, <1>6, <1>7, <1>8, <1>9 DEF TriggerVerbs

LEMMA ConditionDecides ==
  ASSUME NEW lw, Reflects(lw), NEW v, IsNode(v)
  PROVE  Decides(ConditionChecks(lw, v), Sound(v, ConditionVerbs))
<1>1. CASE v.verb = "all"
  BY <1>1, SoundConditions, ConditionChecksOk DEF Needs, Decides
<1>2. CASE v.verb = "any"
  BY <1>2, SoundConditions, ConditionChecksOk DEF Needs, Decides
<1>3. CASE v.verb = "not"
  BY <1>3, SoundConditions, ConditionChecksOk DEF Needs, Decides
<1>4. CASE v.verb = "sun_up"
  BY <1>4, SoundConditions, ConditionChecksOk DEF Needs, Decides
<1>5. CASE v.verb = "switch"
  BY <1>5, ReflectsDeclares, SoundConditions, ConditionChecksOk DEF Needs, Decides
<1>6. CASE v.verb = "occupancy_is"
  BY <1>6, ReflectsDeclares, SoundConditions, ConditionChecksOk DEF Needs, Decides
<1>7. CASE v.verb = "compare"
  BY <1>7, ReflectsDeclares, SoundConditions, ConditionChecksOk DEF Needs, Decides
<1>8. CASE v.verb = "color_is"
  <2>1. v.color # NONE
    BY <1>8, ConditionFields, PayloadKnown DEF IsNode
  <2>2. QED
    BY <1>8, <2>1, ColorParses, ReflectsDeclares, SoundConditions, ConditionChecksOk DEF Needs, Decides, ColorFits
<1>9. CASE v.verb = "time_after"
  <2>1. IsTime(v.time)
    BY <1>9, ConditionFields, PayloadKnown DEF IsNode
  <2>2. QED
    BY <1>9, <2>1, TimeParses, SoundConditions, ConditionChecksOk DEF Needs, Decides
<1>10. CASE v.verb = "time_before"
  <2>1. IsTime(v.time)
    BY <1>10, ConditionFields, PayloadKnown DEF IsNode
  <2>2. QED
    BY <1>10, <2>1, TimeParses, SoundConditions, ConditionChecksOk DEF Needs, Decides
<1>11. CASE v.verb \notin ConditionVerbs
  <2>1. ~Sound(v, ConditionVerbs)
    BY <1>11 DEF Sound
  <2>2. ConditionChecks(lw, v) = << Malformed >> \/ \E code : ConditionChecks(lw, v) = << Stops(FALSE, code) >>
    BY <1>11 DEF ConditionChecks, ConditionVerbs
  <2>3. ~Malformed.ok /\ \A code : ~Stops(FALSE, code).ok
    BY DEF Malformed, Stops
  <2>4. QED
    BY <2>1, <2>2, <2>3, AllOkOf DEF Decides
<1> QED
  BY <1>1, <1>2, <1>3, <1>4, <1>5, <1>6, <1>7, <1>8, <1>9, <1>10, <1>11 DEF ConditionVerbs

LEMMA CommandDecides ==
  ASSUME NEW lw, Reflects(lw), NEW v, IsNode(v)
  PROVE  Decides(CommandChecks(lw, v), Sound(v, CommandVerbs))
<1>1. CASE v.verb = "turn_on"
  BY <1>1, ReflectsDeclares, SoundCommands, CommandChecksOk DEF Needs, Decides
<1>2. CASE v.verb = "turn_off"
  BY <1>2, ReflectsDeclares, SoundCommands, CommandChecksOk DEF Needs, Decides
<1>3. CASE v.verb = "toggle"
  BY <1>3, ReflectsDeclares, SoundCommands, CommandChecksOk DEF Needs, Decides
<1>4. CASE v.verb = "send_ir_code"
  BY <1>4, ReflectsDeclares, SoundCommands, CommandChecksOk DEF Needs, Decides
<1>5. CASE v.verb = "decrease_brightness"
  BY <1>5, ReflectsDeclares, SoundCommands, CommandChecksOk DEF Needs, Decides
<1>6. CASE v.verb = "increase_brightness"
  BY <1>6, ReflectsDeclares, SoundCommands, CommandChecksOk DEF Needs, Decides
<1>7. CASE v.verb = "set_brightness"
  BY <1>7, ReflectsDeclares, SoundCommands, CommandChecksOk DEF Needs, Decides
<1>8. CASE v.verb = "set_color"
  <2>1. v.color # NONE
    BY <1>8, CommandFields, PayloadKnown DEF IsNode
  <2>2. QED
    BY <1>8, <2>1, ColorParses, ReflectsDeclares, SoundCommands, CommandChecksOk DEF Needs, Decides, ColorFits
<1>9. CASE v.verb = "set_color_temperature"
  <2>1. v.kelvin \in Nat \cup {NONE} /\ v.mireds \in Nat \cup {NONE}
    BY <1>9, CommandFields, PayloadKnown DEF IsNode
  <2>2. QED
    BY <1>9, <2>1, ColorTemperatureParses, ReflectsDeclares, SoundCommands, CommandChecksOk DEF Needs, Decides
<1>10. CASE v.verb = "activate_scene"
  BY <1>10, SoundCommands, CommandChecksOk DEF Needs, Decides, Reflects, Kept
<1>11. CASE v.verb = "schedule_timer"
  BY <1>11, SoundCommands, CommandChecksOk DEF Needs, Decides
<1>12. CASE v.verb = "cancel_timer"
  BY <1>12, SoundCommands, CommandChecksOk DEF Needs, Decides
<1>13. CASE v.verb \notin CommandVerbs
  <2>1. ~Sound(v, CommandVerbs)
    BY <1>13 DEF Sound
  <2>2. CommandChecks(lw, v) = << Malformed >> \/ \E code : CommandChecks(lw, v) = << Stops(FALSE, code) >>
    BY <1>13 DEF CommandChecks, CommandVerbs, NeededBy, Payloads
  <2>3. ~Malformed.ok /\ \A code : ~Stops(FALSE, code).ok
    BY DEF Malformed, Stops
  <2>4. QED
    BY <2>1, <2>2, <2>3, AllOkOf DEF Decides
<1> QED
  BY <1>1, <1>2, <1>3, <1>4, <1>5, <1>6, <1>7, <1>8, <1>9, <1>10, <1>11, <1>12, <1>13 DEF CommandVerbs, NeededBy

-----------------------------------------------------------------------------
(* The tables *)

Stages == {"adapters", "devices", "schedules", "scenes", "rules", "lints", "accepted", "rejected", "running"}
Earlier == [devices   |-> {"adapters", "devices"},
            schedules |-> {"adapters", "devices", "schedules"},
            scenes    |-> {"adapters", "devices", "schedules", "scenes"},
            rules     |-> {"adapters", "devices", "schedules", "scenes", "rules"}]

LocalDiags  == AdapterDiags \cup DeviceDiags \cup ScheduleDiags \cup SceneDiags \cup RuleDiags
GlobalDiags == Lints \cup ExposeDiags \cup AddressDiags \cup ZoneDiags

(* Every table is what its section made of the configuration, and no       *)
(* diagnostic is lost on the way to the verdict.                           *)
Compiled ==
  /\ raw \in Configs /\ stage \in Stages
  /\ stage # "adapters" => adapters = AdapterDefs
  /\ stage \notin Earlier.devices => devices = DeviceDefs
  /\ stage \notin Earlier.schedules => schedules = ScheduleDefs
  /\ stage \notin Earlier.scenes => scenes = SceneDefs
  /\ stage \notin Earlier.rules => rules = RuleDefs
  /\ stage = "adapters" => diags = {}
  /\ stage = "devices" => diags = AdapterDiags
  /\ stage = "schedules" => diags = AdapterDiags \cup DeviceDiags
  /\ stage = "scenes" => diags = AdapterDiags \cup DeviceDiags \cup ScheduleDiags
  /\ stage = "rules" => diags = AdapterDiags \cup DeviceDiags \cup ScheduleDiags \cup SceneDiags
  /\ stage = "lints" => diags = LocalDiags
  /\ Concluded => diags = LocalDiags \cup GlobalDiags /\ (stage = "rejected" <=> Rejected(diags))
  /\ stage = "running" => engine = [slots |-> Slots, binding |-> Binding, northbound |-> Subscribed]

(* What a section makes of the configuration does not change afterwards.   *)
LEMMA SameAdapters ==
  ASSUME raw' = raw PROVE AdapterDefs' = AdapterDefs /\ AdapterDiags' = AdapterDiags
  BY DEF AdapterDefs, AdapterDiags, AdapterDef

LEMMA SameDevices ==
  ASSUME raw' = raw
  PROVE  /\ DeviceDefs' = DeviceDefs /\ DeviceDiags' = DeviceDiags
         /\ ScheduleDefs' = ScheduleDefs /\ ScheduleDiags' = ScheduleDiags
  BY DEF DeviceDefs, DeviceDiags, DeviceDef, Kept, ActionId, DeviceErrors, ScheduleDefs, ScheduleDiags

LEMMA SameLowerer == ASSUME raw' = raw, devices' = devices PROVE Lowerer' = Lowerer
  BY DEF Lowerer, Kept, ClockDevice

LEMMA SameNodes ==
  ASSUME raw' = raw, devices' = devices
  PROVE  /\ SceneDefs' = SceneDefs /\ SceneDiags' = SceneDiags
         /\ RuleDefs' = RuleDefs /\ RuleDiags' = RuleDiags
<1>1. SceneDefs' = SceneDefs /\ SceneDiags' = SceneDiags
  BY SameLowerer DEF SceneDefs, SceneDiags, LoweredScene
<1>2. RuleDefs' = RuleDefs /\ RuleDiags' = RuleDiags
  BY SameLowerer DEF RuleDefs, RuleDiags, LoweredRule, RuleLowers, RuleErrors, ConditionErrors
<1>3. QED
  BY <1>1, <1>2

LEMMA SameGlobals ==
  ASSUME raw' = raw, devices' = devices, adapters' = adapters, schedules' = schedules
  PROVE  GlobalDiags' = GlobalDiags
<1>1. Lints' = Lints /\ ExposeDiags' = ExposeDiags /\ AddressDiags' = AddressDiags /\ ZoneDiags' = ZoneDiags
  BY DEF Lints, AdapterLints, SceneLints, ScheduleLints, TimerLints, ExposeDiags, AddressDiags, ZoneDiags,
         Mentioned, Nodes, DanglingKeys, DeviceNames, Exposed
<1>2. QED
  BY <1>1 DEF GlobalDiags

LEMMA SameEngine ==
  ASSUME raw' = raw, devices' = devices, adapters' = adapters
  PROVE  Slots' = Slots /\ Binding' = Binding /\ Subscribed' = Subscribed
  BY DEF Slots, Binding, Subscribed, SlotOrder, BoundTo, ClockDevice, Slot, South, Exposed, DeviceNames

(* Compiled is inductive: one section after the other, and then nothing.   *)
LEMMA CompiledUnchanged == ASSUME Compiled, UNCHANGED vars PROVE Compiled'
<1> USE DEF vars
<1>1. LocalDiags' = LocalDiags
  BY SameAdapters, SameDevices, SameNodes DEF LocalDiags
<1>2. QED
  BY <1>1, SameAdapters, SameDevices, SameNodes, SameGlobals, SameEngine DEF Compiled, Rejected, Concluded

LEMMA CompiledNext == ASSUME Compiled, [ApiNext]_allVars PROVE Compiled'
<1> USE DEF Earlier, Stages, Concluded
<1>1. CASE Adapters
  BY <1>1, SameAdapters DEF Adapters, Compiled
<1>2. CASE Devices
  BY <1>2, SameAdapters, SameDevices DEF Devices, Compiled
<1>3. CASE Schedules
  BY <1>3, SameAdapters, SameDevices DEF Schedules, Compiled
<1>4. CASE LowerScenes
  BY <1>4, SameAdapters, SameDevices, SameNodes DEF LowerScenes, Compiled
<1>5. CASE LowerRules
  <2>1. LocalDiags' = AdapterDiags \cup DeviceDiags \cup ScheduleDiags \cup SceneDiags \cup RuleDiags
    BY <1>5, SameAdapters, SameDevices, SameNodes DEF LowerRules, LocalDiags
  <2>2. QED
    BY <1>5, <2>1, SameAdapters, SameDevices, SameNodes DEF LowerRules, Compiled
<1>6. CASE Conclude
  <2>1. LocalDiags' = LocalDiags /\ GlobalDiags' = GlobalDiags
    BY <1>6, SameAdapters, SameDevices, SameNodes, SameGlobals DEF Conclude, LocalDiags
  <2>2. diags' = LocalDiags \cup GlobalDiags
    BY <1>6 DEF Conclude, Compiled, GlobalDiags
  <2>3. Rejected(diags)' <=> Rejected(diags')
    BY DEF Rejected
  <2>4. QED
    BY <1>6, <2>1, <2>2, <2>3, SameAdapters, SameDevices, SameNodes DEF Conclude, Compiled
<1>7. CASE Build
  <2>1. LocalDiags' = LocalDiags /\ GlobalDiags' = GlobalDiags
    BY <1>7, SameAdapters, SameDevices, SameNodes, SameGlobals DEF Build, LocalDiags
  <2>2. Rejected(diags)' <=> Rejected(diags)
    BY <1>7 DEF Rejected, Build
  <2>3. QED
    BY <1>7, <2>1, <2>2, SameAdapters, SameDevices, SameNodes, SameEngine DEF Build, Compiled
<1>8. CASE (\E q \in Requests : Serve(q)) \/ Tick \/ Shutdown
  <2>1. UNCHANGED vars
    BY <1>8 DEF Serve, Tick, Shutdown
  <2>2. QED
    BY <2>1, CompiledUnchanged
<1>9. CASE UNCHANGED allVars
  BY <1>9, CompiledUnchanged DEF allVars
<1>10. QED
  BY <1>1, <1>2, <1>3, <1>4, <1>5, <1>6, <1>7, <1>8, <1>9 DEF ApiNext, CompileNext

LEMMA AlwaysCompiled == Spec => []Compiled
<1>1. ApiInit => Compiled
  BY DEF ApiInit, Init, Compiled, Earlier, Stages, Concluded
<1>2. Compiled /\ [ApiNext]_allVars => Compiled'
  BY CompiledNext
<1>3. QED
  BY <1>1, <1>2, PTL DEF Spec

-----------------------------------------------------------------------------
(* Blame *)

Blames(ds, p) == \E d \in ds : d[1] = "error" /\ d[3] = p

(* Some diagnostics blame what is bad, and nothing else unless a device    *)
(* was dropped.                                                            *)
Accuses(ds, bad) ==
  /\ \A p \in bad : Blames(ds, p)
  /\ Kept = DOMAIN raw.devices => \A p : Blames(ds, p) => p \in bad

(* Whom errors, warnings and collections of them blame.                    *)
LEMMA BlamesIs ==
  /\ \A codes, where, p : Blames(Error(codes, where), p) <=> codes # {} /\ p = where
  /\ \A codes, where, p : ~Blames(Warning(codes, where), p)
  /\ \A a, b, p : Blames(a \cup b, p) <=> Blames(a, p) \/ Blames(b, p)
<1>1. ASSUME NEW codes, NEW where, NEW p PROVE Blames(Error(codes, where), p) <=> codes # {} /\ p = where
  <2>1. ASSUME NEW d \in Error(codes, where) PROVE codes # {} /\ d[3] = where
    BY <2>1 DEF Error
  <2>2. ASSUME NEW c \in codes PROVE Blames(Error(codes, where), where)
    <3>1. <<"error", c, where>> \in Error(codes, where)
      BY DEF Error
    <3>2. <<"error", c, where>>[1] = "error" /\ <<"error", c, where>>[3] = where
      OBVIOUS
    <3>3. QED
      BY <3>1, <3>2 DEF Blames
  <2>3. QED
    BY <2>1, <2>2 DEF Blames
<1>2. ASSUME NEW codes, NEW where, NEW p PROVE ~Blames(Warning(codes, where), p)
  BY DEF Blames, Warning
<1>3. ASSUME NEW a, NEW b, NEW p PROVE Blames(a \cup b, p) <=> Blames(a, p) \/ Blames(b, p)
  BY DEF Blames
<1>4. QED
  BY <1>1, <1>2, <1>3

LEMMA AccusesBoth ==
  ASSUME NEW a, NEW b, NEW x, NEW y, Accuses(a, x), Accuses(b, y)
  PROVE  Accuses(a \cup b, x \cup y)
<1>1. \A p : Blames(a \cup b, p) <=> Blames(a, p) \/ Blames(b, p)
  BY BlamesIs
<1>2. QED
  BY <1>1 DEF Accuses

(* No lint refuses a configuration.                                        *)
LEMMA LintsWarn == ASSUME NEW p PROVE ~Blames(Lints, p)
<1>1. \A codes, where : \A d \in Warning(codes, where) : d[1] = "warning"
  BY DEF Warning
<1>2. \A d \in AdapterLints : d[1] = "warning"
  BY <1>1 DEF AdapterLints
<1>3. \A d \in SceneLints : d[1] = "warning"
  BY <1>1 DEF SceneLints
<1>4. \A d \in ScheduleLints : d[1] = "warning"
  BY <1>1 DEF ScheduleLints
<1>5. \A d \in TimerLints : d[1] = "warning"
  BY <1>1 DEF TimerLints
<1>6. QED
  BY <1>1, <1>2, <1>3, <1>4, <1>5 DEF Lints, Blames

(* The compiler's idea of a sound device, which may be misplaced, and what *)
(* is wrong with a configuration apart from that.                          *)
CheckedDevice(d) ==
  /\ d.capabilities \subseteq Declarable
  /\ d.adapter \in DOMAIN raw.adapters
  /\ LET type == raw.adapters[d.adapter].type
     IN  type \in Types => AddressErrors(type, d.address) = {}

BadAdapters  == {<<"adapter", n>> : n \in {m \in DOMAIN raw.adapters : ~SoundAdapter(raw.adapters[m])}}
BadDevices   == {<<"device", n>> : n \in {m \in DOMAIN raw.devices : ~CheckedDevice(raw.devices[m])}}
BadSchedules == {<<"schedule", n>> : n \in {m \in DOMAIN raw.schedules : ~SoundSchedule(raw.schedules[m])}}
BadScenes    == {<<"scene", n>> : n \in {m \in DOMAIN raw.scenes :
                   \E i \in DOMAIN raw.scenes[m] : ~Sound(raw.scenes[m][i], CommandVerbs)}}
BadRules     == {<<"rule", n>> : n \in {m \in DOMAIN raw.rules : ~SoundRule(raw.rules[m])}}
BadZone      == {<<"system", NONE>> : z \in {raw.zone} \ Zones}
Checked == (BadAdapters \cup BadDevices) \cup (BadSchedules \cup BadScenes) \cup (BadRules \cup BadZone)

(* The two ideas differ by the misplaced devices.                          *)
LEMMA FaultyIs ==
  /\ Checked \subseteq Faulty
  /\ Faulty \ {<<"device", n>> : n \in Misplaced} \subseteq Checked
  /\ Misplaced = {} => Faulty = Checked
<1> DEFINE Unsound == {<<"device", n>> : n \in {m \in DOMAIN raw.devices : ~SoundDevice(raw.devices[m])}}
           Wrongly == {<<"device", n>> : n \in Misplaced}
<1>1. Faulty = (BadAdapters \cup Unsound) \cup (BadSchedules \cup BadScenes) \cup (BadRules \cup BadZone)
  BY DEF Faulty, BadAdapters, BadSchedules, BadScenes, BadRules, BadZone
<1>2. \A n \in DOMAIN raw.devices :
        /\ ~CheckedDevice(raw.devices[n]) => ~SoundDevice(raw.devices[n])
        /\ ~SoundDevice(raw.devices[n]) => ~CheckedDevice(raw.devices[n]) \/ n \in Misplaced
  BY DEF CheckedDevice, SoundDevice, Misplaced
<1>3. BadDevices \subseteq Unsound /\ Unsound \subseteq BadDevices \cup Wrongly
  BY <1>2 DEF BadDevices
<1>4. Misplaced = {} => Wrongly = {}
  OBVIOUS
<1> HIDE DEF Unsound, Wrongly
<1>5. Checked \subseteq Faulty /\ Faulty \ Wrongly \subseteq Checked /\ (Misplaced = {} => Faulty = Checked)
  BY <1>1, <1>3, <1>4 DEF Checked
<1>6. QED
  BY <1>5 DEF Wrongly

(* What is known of a configuration.                                       *)
LEMMA ConfigIs ==
  ASSUME Compiled
  PROVE  /\ IsConfig(raw)
         /\ Kept \subseteq Names /\ Kept \subseteq DOMAIN raw.devices
         /\ DOMAIN raw.adapters \subseteq Names /\ DOMAIN raw.devices \subseteq Names
         /\ DOMAIN raw.scenes \subseteq Names /\ DOMAIN raw.schedules \subseteq Names
         /\ DOMAIN raw.rules \subseteq Names
<1>1. IsConfig(raw)
  BY CompileAssumption DEF Compiled
<1>2. QED
  BY <1>1 DEF IsConfig, Kept

(* The tables of adapters and devices, by name.                            *)
LEMMA AdapterDefsAre ==
  ASSUME Compiled, stage # "adapters"
  PROVE  /\ \A i \in DOMAIN adapters :
              adapters[i].name \in DOMAIN raw.adapters /\ adapters[i] = AdapterDef(adapters[i].name)
              /\ Rank(adapters[i].name, DOMAIN raw.adapters) = i
         /\ \A n \in DOMAIN raw.adapters :
              Rank(n, DOMAIN raw.adapters) \in DOMAIN adapters
              /\ adapters[Rank(n, DOMAIN raw.adapters)] = AdapterDef(n)
         /\ DOMAIN adapters = 1..Cardinality(Places(DOMAIN raw.adapters))
         /\ Cardinality(Places(DOMAIN raw.adapters)) \in Nat
<1>1. PICK S : S = DOMAIN raw.adapters
  OBVIOUS
<1>2. S \subseteq Names /\ adapters = [i \in DOMAIN Sorted(S) |-> AdapterDef(Sorted(S)[i])]
  BY <1>1, ConfigIs DEF Compiled, AdapterDefs
<1>3. \A n : AdapterDef(n).name = n
  BY DEF AdapterDef
<1>4. QED
  BY <1>1, <1>2, <1>3, SortedIs

LEMMA DeviceDefsAre ==
  ASSUME Compiled, stage \notin Earlier.devices
  PROVE  /\ \A i \in DOMAIN devices :
              devices[i].name \in Kept /\ devices[i] = DeviceDef(devices[i].name)
              /\ Rank(devices[i].name, Kept) = i
         /\ \A n \in Kept : Rank(n, Kept) \in DOMAIN devices /\ devices[Rank(n, Kept)] = DeviceDef(n)
         /\ DOMAIN devices = 1..Cardinality(Places(Kept)) /\ Cardinality(Places(Kept)) \in Nat
         /\ Len(devices) = Cardinality(Places(Kept))
<1>1. PICK S : S = Kept
  OBVIOUS
<1>2. S \subseteq Names /\ devices = [i \in DOMAIN Sorted(S) |-> DeviceDef(Sorted(S)[i])]
  BY <1>1, ConfigIs DEF Compiled, DeviceDefs
<1>3. \A n : DeviceDef(n).name = n
  BY DEF DeviceDef
<1>4. DOMAIN devices = 1..Cardinality(Places(S)) /\ Cardinality(Places(S)) \in Nat
  BY <1>2, SortedIs
<1>5. Len(devices) = Cardinality(Places(S))
  BY <1>4
<1>6. QED
  BY <1>1, <1>2, <1>3, <1>4, <1>5, SortedIs

LEMMA DeviceNamesAre == ASSUME Compiled, stage \notin Earlier.devices PROVE DeviceNames = Kept
<1>1. \A i \in DOMAIN devices : devices[i].name \in Kept
  BY DeviceDefsAre
<1>2. \A n : DeviceDef(n).name = n
  BY DEF DeviceDef
<1>3. \A n \in Kept : \E i \in DOMAIN devices : devices[i].name = n
  BY <1>2, DeviceDefsAre
<1>4. QED
  BY <1>1, <1>3 DEF DeviceNames

(* The verdict is about all that was collected.                            *)
LEMMA ConcludedIs ==
  ASSUME Compiled, Concluded
  PROVE  /\ stage # "adapters" /\ stage \notin Earlier.devices
         /\ diags = LocalDiags \cup GlobalDiags /\ (stage = "rejected" <=> Rejected(diags))
  BY DEF Compiled, Concluded, Earlier

(* An adapter is blamed for its type, its config or what it exposes; the   *)
(* latter is checked against the devices that were kept, hence the         *)
(* exception.                                                              *)
LEMMA AccusesAdapters ==
  ASSUME Compiled, Concluded
  PROVE  Accuses(AdapterDiags \cup ExposeDiags, BadAdapters)
<1>1. \A p : Blames(AdapterDiags, p) <=> \E n \in DOMAIN raw.adapters :
               AdapterErrors(raw.adapters[n]) # {} /\ p = <<"adapter", n>>
  <2>1. \A d : d \in AdapterDiags <=>
          \E n \in DOMAIN raw.adapters : d \in Error(AdapterErrors(raw.adapters[n]), <<"adapter", n>>)
    BY DEF AdapterDiags
  <2>2. \A p : Blames(AdapterDiags, p) <=>
          \E n \in DOMAIN raw.adapters : Blames(Error(AdapterErrors(raw.adapters[n]), <<"adapter", n>>), p)
    BY <2>1 DEF Blames
  <2>3. ASSUME NEW n, NEW p
        PROVE  Blames(Error(AdapterErrors(raw.adapters[n]), <<"adapter", n>>), p)
                 <=> AdapterErrors(raw.adapters[n]) # {} /\ p = <<"adapter", n>>
    BY BlamesIs
  <2>4. QED
    BY <2>2, <2>3
<1> DEFINE Exposing(n) == /\ raw.adapters[n].type \in Northbound /\ raw.adapters[n].config # NONE
                          /\ ~(Exposed(raw.adapters[n].config) \subseteq DeviceNames)
<1>2. \A p : Blames(ExposeDiags, p) <=> \E n \in DOMAIN raw.adapters : Exposing(n) /\ p = <<"adapter", n>>
  <2>1. \A p : Blames(ExposeDiags, p) <=>
          \E i \in DOMAIN adapters : /\ adapters[i].type \in Northbound /\ adapters[i].config # NONE
                                     /\ ~(Exposed(adapters[i].config) \subseteq DeviceNames)
                                     /\ p = <<"adapter", adapters[i].name>>
    <3> DEFINE Of(config, where) ==
                 Warning(When(Exposed(config) = {}, "E_EMPTY_EXPOSE"), where)
                 \cup Error(When(~(Exposed(config) \subseteq DeviceNames), "E_UNKNOWN_EXPOSED_DEVICE"), where)
    <3>1. \A d : d \in ExposeDiags <=>
            \E i \in DOMAIN adapters : /\ adapters[i].type \in Northbound /\ adapters[i].config # NONE
                                       /\ d \in Of(adapters[i].config, <<"adapter", adapters[i].name>>)
      BY DEF ExposeDiags
    <3>2. ASSUME NEW config, NEW where, NEW p
          PROVE  Blames(Of(config, where), p) <=> ~(Exposed(config) \subseteq DeviceNames) /\ p = where
      <4>1. Blames(Of(config, where), p) <=>
              \/ Blames(Warning(When(Exposed(config) = {}, "E_EMPTY_EXPOSE"), where), p)
              \/ Blames(Error(When(~(Exposed(config) \subseteq DeviceNames), "E_UNKNOWN_EXPOSED_DEVICE"), where), p)
        BY BlamesIs
      <4>2. When(~(Exposed(config) \subseteq DeviceNames), "E_UNKNOWN_EXPOSED_DEVICE") # {} <=>
              ~(Exposed(config) \subseteq DeviceNames)
        BY DEF When
      <4>3. QED
        BY <4>1, <4>2, BlamesIs
    <3> HIDE DEF Of
    <3>3. \A p : Blames(ExposeDiags, p) <=>
            \E i \in DOMAIN adapters : /\ adapters[i].type \in Northbound /\ adapters[i].config # NONE
                                       /\ Blames(Of(adapters[i].config, <<"adapter", adapters[i].name>>), p)
      BY <3>1 DEF Blames
    <3>4. ASSUME NEW i, NEW p
          PROVE  Blames(Of(adapters[i].config, <<"adapter", adapters[i].name>>), p)
                   <=> /\ ~(Exposed(adapters[i].config) \subseteq DeviceNames)
                       /\ p = <<"adapter", adapters[i].name>>
      BY <3>2
    <3>5. QED
      BY <3>3, <3>4
  <2>2. \A n : AdapterDef(n).name = n /\ AdapterDef(n).type = raw.adapters[n].type
               /\ AdapterDef(n).config = raw.adapters[n].config
    BY DEF AdapterDef
  <2>3. QED
    BY <2>1, <2>2, AdapterDefsAre, ConcludedIs
<1>3. DeviceNames = Kept /\ Kept \subseteq DOMAIN raw.devices
  BY DeviceNamesAre, ConcludedIs, ConfigIs
<1>4. ASSUME NEW n \in DOMAIN raw.adapters
      PROVE  /\ ~SoundAdapter(raw.adapters[n]) => AdapterErrors(raw.adapters[n]) # {} \/ Exposing(n)
             /\ Kept = DOMAIN raw.devices /\ (AdapterErrors(raw.adapters[n]) # {} \/ Exposing(n))
                 => ~SoundAdapter(raw.adapters[n])
  <2>1. AdapterErrors(raw.adapters[n]) # {} <=>
          raw.adapters[n].type \notin Types \/ ConfigErrors(raw.adapters[n].type, raw.adapters[n].config) # {}
    BY DEF AdapterErrors
  <2>2. raw.adapters[n].type \in Northbound /\ raw.adapters[n].config = NONE
          => ConfigErrors(raw.adapters[n].type, raw.adapters[n].config) # {}
    BY DEF ConfigErrors, Northbound
  <2>3. QED
    BY <1>3, <2>1, <2>2 DEF SoundAdapter, Exposed
<1> HIDE DEF Exposing
<1>5. \A p : Blames(AdapterDiags \cup ExposeDiags, p) <=> Blames(AdapterDiags, p) \/ Blames(ExposeDiags, p)
  BY BlamesIs
<1>6. QED
  BY <1>1, <1>2, <1>4, <1>5 DEF Accuses, BadAdapters

(* A device is blamed for its adapter or its capabilities by the resolver, *)
(* for its address at the end, and then by the type of the adapter with its *)
(* adapter's id.                                                           *)
LEMMA AccusesDevices ==
  ASSUME Compiled, Concluded
  PROVE  Accuses(DeviceDiags \cup AddressDiags, BadDevices)
<1>1. \A p : Blames(DeviceDiags, p) <=> \E n \in DOMAIN raw.devices :
               DeviceErrors(n) # {} /\ p = <<"device", n>>
  <2>1. \A d : d \in DeviceDiags <=>
          \E n \in DOMAIN raw.devices : \/ d \in Error(DeviceErrors(n), <<"device", n>>)
                                        \/ d \in Warning(DeviceWarnings(raw.devices[n]), <<"device", n>>)
    BY DEF DeviceDiags
  <2>2. \A p : Blames(DeviceDiags, p) <=>
          \E n \in DOMAIN raw.devices : \/ Blames(Error(DeviceErrors(n), <<"device", n>>), p)
                                        \/ Blames(Warning(DeviceWarnings(raw.devices[n]), <<"device", n>>), p)
    BY <2>1 DEF Blames
  <2>3. ASSUME NEW n, NEW p
        PROVE  /\ Blames(Error(DeviceErrors(n), <<"device", n>>), p)
                    <=> DeviceErrors(n) # {} /\ p = <<"device", n>>
               /\ ~Blames(Warning(DeviceWarnings(raw.devices[n]), <<"device", n>>), p)
    BY BlamesIs
  <2>4. QED
    BY <2>2, <2>3
<1> DEFINE Lost(n) == LET type == raw.adapters[raw.devices[n].adapter].type
                      IN  type \in Types /\ AddressErrors(type, raw.devices[n].address) # {}
<1>2. \A p : Blames(AddressDiags, p) <=> \E n \in Kept : Lost(n) /\ p = <<"device", n>>
  <2>1. \A p : Blames(AddressDiags, p) <=>
          \E i \in DOMAIN devices : /\ adapters[devices[i].adapter].type \in Types
                                    /\ AddressErrors(adapters[devices[i].adapter].type, devices[i].address) # {}
                                    /\ p = <<"device", devices[i].name>>
    <3>1. \A type, address : (IF type \in Types THEN AddressErrors(type, address) ELSE {}) # {}
                               <=> type \in Types /\ AddressErrors(type, address) # {}
      OBVIOUS
    <3> DEFINE Of(i) == Error(IF adapters[devices[i].adapter].type \in Types
                              THEN AddressErrors(adapters[devices[i].adapter].type, devices[i].address) ELSE {},
                              <<"device", devices[i].name>>)
    <3>2. \A d : d \in AddressDiags <=> \E i \in DOMAIN devices : d \in Of(i)
      BY DEF AddressDiags
    <3>3. \A i, p : Blames(Of(i), p) <=>
            /\ adapters[devices[i].adapter].type \in Types
            /\ AddressErrors(adapters[devices[i].adapter].type, devices[i].address) # {}
            /\ p = <<"device", devices[i].name>>
      BY <3>1, BlamesIs
    <3> HIDE DEF Of
    <3>4. \A p : Blames(AddressDiags, p) <=> \E i \in DOMAIN devices : Blames(Of(i), p)
      BY <3>2 DEF Blames
    <3>5. QED
      BY <3>3, <3>4
  <2>2. ASSUME NEW n \in Kept
        PROVE  /\ DeviceDef(n).name = n /\ DeviceDef(n).address = raw.devices[n].address
               /\ adapters[DeviceDef(n).adapter].type = raw.adapters[raw.devices[n].adapter].type
    <3>1. DeviceDef(n).name = n /\ DeviceDef(n).address = raw.devices[n].address
          /\ DeviceDef(n).adapter = Rank(raw.devices[n].adapter, DOMAIN raw.adapters)
      BY DEF DeviceDef
    <3>2. raw.devices[n].adapter \in DOMAIN raw.adapters
      BY DEF Kept
    <3>3. adapters[DeviceDef(n).adapter] = AdapterDef(raw.devices[n].adapter)
      BY <3>1, <3>2, AdapterDefsAre, ConcludedIs
    <3>4. QED
      BY <3>1, <3>3 DEF AdapterDef
  <2>3. \A i \in DOMAIN devices : devices[i].name \in Kept /\ devices[i] = DeviceDef(devices[i].name)
    BY DeviceDefsAre, ConcludedIs
  <2>4. \A n \in Kept : \E i \in DOMAIN devices : devices[i] = DeviceDef(n)
    BY DeviceDefsAre, ConcludedIs
  <2> HIDE DEF Lost
  <2>5. ASSUME NEW n \in Kept, NEW i \in DOMAIN devices, devices[i] = DeviceDef(n)
        PROVE  /\ devices[i].name = n
               /\ Lost(n) <=> /\ adapters[devices[i].adapter].type \in Types
                             /\ AddressErrors(adapters[devices[i].adapter].type, devices[i].address) # {}
    <3>1. PICK type : type = adapters[devices[i].adapter].type
      OBVIOUS
    <3>2. /\ devices[i].name = n /\ devices[i].address = raw.devices[n].address
          /\ type = raw.adapters[raw.devices[n].adapter].type
      BY <2>2, <2>5, <3>1
    <3>3. Lost(n) <=> type \in Types /\ AddressErrors(type, raw.devices[n].address) # {}
      BY <3>2 DEF Lost
    <3>4. QED
      BY <3>1, <3>2, <3>3
  <2>6. ASSUME NEW p, NEW i \in DOMAIN devices,
               adapters[devices[i].adapter].type \in Types,
               AddressErrors(adapters[devices[i].adapter].type, devices[i].address) # {},
               p = <<"device", devices[i].name>>
        PROVE  \E n \in Kept : Lost(n) /\ p = <<"device", n>>
    <3>1. PICK n \in Kept : n = devices[i].name /\ devices[i] = DeviceDef(n)
      BY <2>3
    <3>2. Lost(n)
      BY <2>5, <2>6, <3>1
    <3>3. QED
      BY <2>6, <3>1, <3>2
  <2>7. ASSUME NEW p, NEW n \in Kept, Lost(n), p = <<"device", n>>
        PROVE  \E i \in DOMAIN devices : /\ adapters[devices[i].adapter].type \in Types
                                         /\ AddressErrors(adapters[devices[i].adapter].type, devices[i].address) # {}
                                         /\ p = <<"device", devices[i].name>>
    <3>1. PICK i \in DOMAIN devices : devices[i] = DeviceDef(n)
      BY <2>4
    <3>2. QED
      BY <2>5, <2>7, <3>1
  <2>8. QED
    BY <2>1, <2>6, <2>7
<1>3. \A n \in DOMAIN raw.devices : ~CheckedDevice(raw.devices[n]) <=> DeviceErrors(n) # {} \/ (n \in Kept /\ Lost(n))
  BY DEF CheckedDevice, DeviceErrors, When, Kept, Lost
<1>4. \A p : Blames(DeviceDiags \cup AddressDiags, p) <=> Blames(DeviceDiags, p) \/ Blames(AddressDiags, p)
  BY BlamesIs
<1>5. Kept \subseteq DOMAIN raw.devices
  BY ConfigIs
<1>6. QED
  BY <1>1, <1>2, <1>3, <1>4, <1>5 DEF Accuses, BadDevices

(* The time zone.                                                          *)
LEMMA AccusesZone == Accuses(ZoneDiags, BadZone)
  BY BlamesIs DEF Accuses, ZoneDiags, BadZone, When

(* Both ways of counting a schedule's forms agree.                         *)
LEMMA ScheduleFaults ==
  ASSUME NEW s, \A f \in {"daily", "weekday", "weekend"} : s[f] # NONE => IsTime(s[f])
  PROVE  ScheduleErrors(s) # {} <=> ~SoundSchedule(s)
<1> DEFINE sugars == Sugars(s)
           forms == {f \in {"cron", "daily", "weekday", "weekend"} : s[f] # NONE}
<1>1. IsFiniteSet(sugars) /\ Cardinality(sugars) \in Nat
  <2>1. sugars \in SUBSET {"daily", "weekday", "weekend"}
    BY DEF Sugars
  <2>2. IsFiniteSet({"daily", "weekday", "weekend"})
    <3>1. IsFiniteSet({"daily"})
      BY FS_Singleton
    <3>2. IsFiniteSet({"daily"} \cup {"weekday"})
      BY <3>1, FS_AddElement
    <3>3. IsFiniteSet({"daily"} \cup {"weekday"} \cup {"weekend"})
      BY <3>2, FS_AddElement
    <3>4. {"daily"} \cup {"weekday"} \cup {"weekend"} = {"daily", "weekday", "weekend"}
      OBVIOUS
    <3>5. QED
      BY <3>3, <3>4
  <2>3. QED
    BY <2>1, <2>2, FS_Subset, FS_CardinalityType
<1>2. "cron" \notin sugars /\ forms = IF s.cron = NONE THEN sugars ELSE sugars \cup {"cron"}
  BY DEF Sugars
<1>3. Cardinality(forms) = Cardinality(sugars) + (IF s.cron = NONE THEN 0 ELSE 1)
  <2>1. CASE s.cron = NONE
    <3>1. forms = sugars
      BY <1>2, <2>1
    <3> HIDE DEF forms, sugars
    <3>2. QED
      BY <1>1, <2>1, <3>1
  <2>2. CASE s.cron # NONE
    <3>1. forms = sugars \cup {"cron"} /\ "cron" \notin sugars
      BY <1>2, <2>2
    <3> HIDE DEF forms, sugars
    <3>2. Cardinality(forms) = Cardinality(sugars) + 1
      BY <1>1, <3>1, FS_AddElement
    <3>3. QED
      BY <2>2, <3>2
  <2>3. QED
    BY <2>1, <2>2
<1>4. (\A f \in sugars : parse_time(s[f]) # NONE) <=> (\A f \in sugars : s[f][1] =< 23 /\ s[f][2] =< 59)
  <2>1. \A f \in sugars : IsTime(s[f])
    BY DEF Sugars
  <2>2. QED
    BY <2>1, TimeParses
<1>5. (\A f \in forms : IF f = "cron" THEN s.cron \in CronExprs ELSE s[f][1] =< 23 /\ s[f][2] =< 59)
        <=> (s.cron # NONE => s.cron \in CronExprs) /\ (\A f \in sugars : s[f][1] =< 23 /\ s[f][2] =< 59)
  BY <1>2
<1>6. SoundSchedule(s) <=>
        /\ Cardinality(sugars) + (IF s.cron = NONE THEN 0 ELSE 1) = 1
        /\ s.cron # NONE => s.cron \in CronExprs
        /\ \A f \in sugars : parse_time(s[f]) # NONE
  BY <1>3, <1>4, <1>5 DEF SoundSchedule
<1> HIDE DEF sugars, forms
<1>7. ScheduleErrors(s) = {} <=>
        /\ Cardinality(sugars) + (IF s.cron = NONE THEN 0 ELSE 1) = 1
        /\ s.cron # NONE => s.cron \in CronExprs
        /\ \A f \in sugars : parse_time(s[f]) # NONE
  BY DEF ScheduleErrors, When, sugars
<1>8. QED
  BY <1>6, <1>7

LEMMA AccusesSchedules == ASSUME Compiled PROVE Accuses(ScheduleDiags, BadSchedules)
<1>1. \A d : d \in ScheduleDiags <=>
        \E n \in DOMAIN raw.schedules : d \in Error(ScheduleErrors(raw.schedules[n]), <<"schedule", n>>)
  BY DEF ScheduleDiags
<1>2. \A p : Blames(ScheduleDiags, p) <=>
        \E n \in DOMAIN raw.schedules : Blames(Error(ScheduleErrors(raw.schedules[n]), <<"schedule", n>>), p)
  BY <1>1 DEF Blames
<1>3. ASSUME NEW n \in DOMAIN raw.schedules, NEW p
      PROVE  Blames(Error(ScheduleErrors(raw.schedules[n]), <<"schedule", n>>), p)
               <=> ~SoundSchedule(raw.schedules[n]) /\ p = <<"schedule", n>>
  <2>1. \A f \in {"daily", "weekday", "weekend"} : raw.schedules[n][f] # NONE => IsTime(raw.schedules[n][f])
    BY ConfigIs DEF IsConfig
  <2>2. ScheduleErrors(raw.schedules[n]) # {} <=> ~SoundSchedule(raw.schedules[n])
    BY <2>1, ScheduleFaults
  <2>3. QED
    BY <2>2, BlamesIs
<1>4. QED
  BY <1>2, <1>3 DEF Accuses, BadSchedules

(* The tables the lowerer looks into come from the devices' table, by rank. *)
LEMMA LowererReflects == ASSUME Compiled, stage \notin Earlier.devices PROVE Reflects(Lowerer)
<1>1. ASSUME NEW n \in Kept
      PROVE  /\ devices[Rank(n, Kept)].capabilities = raw.devices[n].capabilities \cap Declarable
             /\ DOMAIN devices[Rank(n, Kept)].events = raw.devices[n].events
  <2>1. devices[Rank(n, Kept)] = DeviceDef(n)
    BY DeviceDefsAre
  <2>2. QED
    BY <2>1 DEF DeviceDef
<1>2. /\ DOMAIN Lowerer.devices = Kept
      /\ DOMAIN Lowerer.scenes = DOMAIN raw.scenes /\ DOMAIN Lowerer.schedules = DOMAIN raw.schedules
  BY DEF Lowerer, Ids
<1>3. ASSUME NEW n \in Kept
      PROVE  /\ Lowerer.devices[n].capabilities = devices[Rank(n, Kept)].capabilities
             /\ Lowerer.devices[n].events = devices[Rank(n, Kept)].events
  BY DEF Lowerer
<1>4. QED
  BY <1>1, <1>2, <1>3 DEF Reflects

(* Some command of a list is reported, or all are sound.                   *)
LEMMA CommandsDecide ==
  ASSUME NEW lw, Reflects(lw), NEW vs, IsNodes(vs)
  PROVE  /\ CommandErrors(lw, vs) = {} => \A i \in DOMAIN vs : Sound(vs[i], CommandVerbs)
         /\ Kept = DOMAIN raw.devices /\ (\A i \in DOMAIN vs : Sound(vs[i], CommandVerbs))
              => CommandErrors(lw, vs) = {}
<1>1. CommandErrors(lw, vs) = {} <=> \A i \in DOMAIN vs : Errors(CommandChecks(lw, vs[i])) = {}
  BY DEF CommandErrors
<1>2. \A i \in DOMAIN vs : Decides(CommandChecks(lw, vs[i]), Sound(vs[i], CommandVerbs))
  BY CommandDecides DEF IsNodes
<1>3. ASSUME NEW i \in DOMAIN vs
      PROVE  /\ Errors(CommandChecks(lw, vs[i])) = {} => Sound(vs[i], CommandVerbs)
             /\ Kept = DOMAIN raw.devices /\ Sound(vs[i], CommandVerbs) => Errors(CommandChecks(lw, vs[i])) = {}
  BY <1>2, ErrorsIs DEF Decides
<1>4. QED
  BY <1>1, <1>3

(* Scenes are blamed for their commands.                                   *)
LEMMA AccusesScenes == ASSUME Compiled, stage \notin Earlier.devices PROVE Accuses(SceneDiags, BadScenes)
<1>1. \A d : d \in SceneDiags <=>
        \E n \in DOMAIN raw.scenes : d \in Error(CommandErrors(Lowerer, raw.scenes[n]), <<"scene", n>>)
  BY DEF SceneDiags
<1>2. \A p : Blames(SceneDiags, p) <=>
        \E n \in DOMAIN raw.scenes : Blames(Error(CommandErrors(Lowerer, raw.scenes[n]), <<"scene", n>>), p)
  BY <1>1 DEF Blames
<1>3. ASSUME NEW n \in DOMAIN raw.scenes, NEW p
      PROVE  Blames(Error(CommandErrors(Lowerer, raw.scenes[n]), <<"scene", n>>), p)
               <=> CommandErrors(Lowerer, raw.scenes[n]) # {} /\ p = <<"scene", n>>
  BY BlamesIs
<1>4. \A n \in DOMAIN raw.scenes : IsNodes(raw.scenes[n])
  BY ConfigIs DEF IsConfig
<1>5. \A n \in DOMAIN raw.scenes :
        /\ CommandErrors(Lowerer, raw.scenes[n]) = {}
             => \A i \in DOMAIN raw.scenes[n] : Sound(raw.scenes[n][i], CommandVerbs)
        /\ Kept = DOMAIN raw.devices /\ (\A i \in DOMAIN raw.scenes[n] : Sound(raw.scenes[n][i], CommandVerbs))
             => CommandErrors(Lowerer, raw.scenes[n]) = {}
  BY <1>4, LowererReflects, CommandsDecide
<1>6. QED
  BY <1>2, <1>3, <1>5 DEF Accuses, BadScenes

(* The checks of "for:".                                                   *)
LEMMA ForIs ==
  ASSUME NEW rule
  PROVE  /\ DOMAIN ForChecks(rule) \subseteq Nat
         /\ AllOk(ForChecks(rule)) <=>
              (rule.for # NONE => rule.when.verb \in {"changed", "crosses"} /\ parse_duration(rule.for) # NONE)
<1>1. CASE rule.for = NONE
  BY <1>1, AllOkOf DEF ForChecks
<1>2. CASE rule.for # NONE
  <2>1. ForChecks(rule) = << Stops(rule.when.verb \in EdgeVerbs, "E_FOR_UNSUPPORTED"),
                             Stops(parse_duration(rule.for) # NONE, "E_BAD_DURATION") >>
    BY <1>2 DEF ForChecks
  <2>2. /\ Stops(rule.when.verb \in EdgeVerbs, "E_FOR_UNSUPPORTED").ok <=> rule.when.verb \in EdgeVerbs
        /\ Stops(parse_duration(rule.for) # NONE, "E_BAD_DURATION").ok <=> parse_duration(rule.for) # NONE
    BY DEF Stops
  <2>3. QED
    BY <1>2, <2>1, <2>2, AllOkOf DEF EdgeVerbs
<1>3. QED
  BY <1>1, <1>2

(* A rule whose trigger or condition does not lower has been reported      *)
(* already, so nothing is lost when its "for:" is then not looked at.      *)
LEMMA RuleDecides ==
  ASSUME Compiled, stage \notin Earlier.devices, NEW n \in DOMAIN raw.rules
  PROVE  /\ RuleErrors(raw.rules[n]) = {} => SoundRule(raw.rules[n])
         /\ Kept = DOMAIN raw.devices /\ SoundRule(raw.rules[n]) => RuleErrors(raw.rules[n]) = {}
<1>1. PICK rule : rule = raw.rules[n]
  OBVIOUS
<1>2. /\ IsNode(rule.when) /\ IsNodes(rule.then)
      /\ \A v \in rule.if : IsNode(v)
  BY <1>1, ConfigIs DEF IsConfig
<1>3. Reflects(Lowerer)
  BY LowererReflects
<1>4. Decides(TriggerChecks(Lowerer, rule.when), Sound(rule.when, TriggerVerbs))
  BY <1>2, <1>3, TriggerDecides
<1>5. \A v \in rule.if : Decides(ConditionChecks(Lowerer, v), Sound(v, ConditionVerbs))
  BY <1>2, <1>3, ConditionDecides
<1>6. /\ Errors(TriggerChecks(Lowerer, rule.when)) = {} <=> AllOk(TriggerChecks(Lowerer, rule.when))
      /\ AllOk(TriggerChecks(Lowerer, rule.when)) => Lowers(TriggerChecks(Lowerer, rule.when))
  BY <1>4, ErrorsIs DEF Decides
<1>7. \A v \in rule.if :
        /\ Errors(ConditionChecks(Lowerer, v)) = {} <=> AllOk(ConditionChecks(Lowerer, v))
        /\ AllOk(ConditionChecks(Lowerer, v)) => Lowers(ConditionChecks(Lowerer, v))
  BY <1>5, ErrorsIs DEF Decides
<1>8. UNION {Errors(ConditionChecks(Lowerer, v)) : v \in rule.if} = {} <=>
        \A v \in rule.if : Errors(ConditionChecks(Lowerer, v)) = {}
  OBVIOUS
<1>9. RuleErrors(rule) = {} <=>
        /\ Errors(TriggerChecks(Lowerer, rule.when)) = {}
        /\ CommandErrors(Lowerer, rule.then) = {}
        /\ \A v \in rule.if : Errors(ConditionChecks(Lowerer, v)) = {}
        /\ RuleLowers(rule) => Errors(ForChecks(rule)) = {}
  <2> DEFINE forErrors  == IF RuleLowers(rule) THEN Errors(ForChecks(rule)) ELSE {}
  <2>1. RuleErrors(rule) = Errors(TriggerChecks(Lowerer, rule.when)) \cup CommandErrors(Lowerer, rule.then)
                           \cup ConditionErrors(rule) \cup forErrors
    BY DEF RuleErrors
  <2>2. ConditionErrors(rule) = {} <=> \A v \in rule.if : Errors(ConditionChecks(Lowerer, v)) = {}
    BY <1>8 DEF ConditionErrors
  <2>3. forErrors = {} <=> (RuleLowers(rule) => Errors(ForChecks(rule)) = {})
    OBVIOUS
  <2> HIDE DEF forErrors
  <2>4. QED
    BY <2>1, <2>2, <2>3
<1>10. Errors(ForChecks(rule)) = {} <=>
         (rule.for # NONE => rule.when.verb \in {"changed", "crosses"} /\ parse_duration(rule.for) # NONE)
  <2>1. Errors(ForChecks(rule)) = {} <=> AllOk(ForChecks(rule))
    BY ForIs, ErrorsIs
  <2>2. QED
    BY <2>1, ForIs
<1>11. /\ CommandErrors(Lowerer, rule.then) = {} => \A i \in DOMAIN rule.then : Sound(rule.then[i], CommandVerbs)
       /\ Kept = DOMAIN raw.devices /\ (\A i \in DOMAIN rule.then : Sound(rule.then[i], CommandVerbs))
            => CommandErrors(Lowerer, rule.then) = {}
  BY <1>2, <1>3, CommandsDecide
<1>12. ASSUME RuleErrors(rule) = {} PROVE SoundRule(rule)
  <2>1. RuleLowers(rule)
    BY <1>6, <1>7, <1>9, <1>12 DEF RuleLowers
  <2>2. Sound(rule.when, TriggerVerbs) /\ \A v \in rule.if : Sound(v, ConditionVerbs)
    BY <1>4, <1>5, <1>6, <1>7, <1>9, <1>12 DEF Decides
  <2>3. QED
    BY <1>9, <1>10, <1>11, <1>12, <2>1, <2>2 DEF SoundRule
<1>13. ASSUME Kept = DOMAIN raw.devices, SoundRule(rule) PROVE RuleErrors(rule) = {}
  <2>1. AllOk(TriggerChecks(Lowerer, rule.when)) /\ \A v \in rule.if : AllOk(ConditionChecks(Lowerer, v))
    BY <1>4, <1>5, <1>13 DEF Decides, SoundRule
  <2>2. QED
    BY <1>6, <1>7, <1>9, <1>10, <1>11, <1>13, <2>1 DEF SoundRule
<1>14. QED
  BY <1>1, <1>12, <1>13

LEMMA AccusesRules == ASSUME Compiled, stage \notin Earlier.devices PROVE Accuses(RuleDiags, BadRules)
<1>1. \A d : d \in RuleDiags <=> \E n \in DOMAIN raw.rules : d \in Error(RuleErrors(raw.rules[n]), <<"rule", n>>)
  BY DEF RuleDiags
<1>2. \A p : Blames(RuleDiags, p) <=>
        \E n \in DOMAIN raw.rules : Blames(Error(RuleErrors(raw.rules[n]), <<"rule", n>>), p)
  BY <1>1 DEF Blames
<1>3. ASSUME NEW n \in DOMAIN raw.rules, NEW p
      PROVE  Blames(Error(RuleErrors(raw.rules[n]), <<"rule", n>>), p)
               <=> RuleErrors(raw.rules[n]) # {} /\ p = <<"rule", n>>
  BY BlamesIs
<1>4. QED
  BY <1>2, <1>3, RuleDecides DEF Accuses, BadRules

(* All diagnostics together, lints included.                               *)
LEMMA AccusesAll ==
  ASSUME Compiled, Concluded
  PROVE  Accuses(diags, Checked)
<1>1. Accuses((AdapterDiags \cup ExposeDiags) \cup (DeviceDiags \cup AddressDiags), BadAdapters \cup BadDevices)
  BY AccusesAdapters, AccusesDevices, AccusesBoth
<1>2. Accuses(ScheduleDiags \cup SceneDiags, BadSchedules \cup BadScenes)
  BY ConcludedIs, AccusesSchedules, AccusesScenes, AccusesBoth
<1>3. Accuses(RuleDiags \cup ZoneDiags, BadRules \cup BadZone)
  BY ConcludedIs, AccusesRules, AccusesZone, AccusesBoth
<1>4. PICK ds : ds = ((AdapterDiags \cup ExposeDiags) \cup (DeviceDiags \cup AddressDiags))
                     \cup (ScheduleDiags \cup SceneDiags) \cup (RuleDiags \cup ZoneDiags)
  OBVIOUS
<1>5. Accuses(ds, (BadAdapters \cup BadDevices) \cup (BadSchedules \cup BadScenes) \cup (BadRules \cup BadZone))
  BY <1>1, <1>2, <1>3, <1>4, AccusesBoth
<1>6. Accuses(ds, Checked)
  BY <1>5 DEF Checked
<1>7. diags = ds \cup Lints
  BY <1>4, ConcludedIs DEF LocalDiags, GlobalDiags
<1>8. \A p : Blames(diags, p) <=> Blames(ds, p)
  BY <1>7, BlamesIs, LintsWarn
<1>9. QED
  BY <1>6, <1>8 DEF Accuses

(* A configuration without a fault has dropped no device, so the exception *)
(* does not matter for the verdict.                                        *)
LEMMA VerdictIs ==
  ASSUME Compiled, Concluded
  PROVE  /\ Checked \subseteq ErrorPlaces
         /\ Kept = DOMAIN raw.devices => ErrorPlaces = Checked
         /\ stage = "rejected" <=> Checked # {}
<1>1. \A p : p \in ErrorPlaces <=> Blames(diags, p)
  BY DEF ErrorPlaces, Blames
<1>2. Checked \subseteq ErrorPlaces /\ (Kept = DOMAIN raw.devices => ErrorPlaces = Checked)
  BY <1>1, AccusesAll DEF Accuses
<1>3. Rejected(diags) <=> ErrorPlaces # {}
  BY DEF Rejected, ErrorPlaces
<1>4. ASSUME Checked = {} PROVE Kept = DOMAIN raw.devices
  <2>1. BadDevices = {}
    BY <1>4 DEF Checked
  <2>2. \A n \in DOMAIN raw.devices : CheckedDevice(raw.devices[n])
    BY <2>1 DEF BadDevices
  <2>3. QED
    BY <2>2 DEF CheckedDevice, Kept
<1>5. QED
  BY <1>2, <1>3, <1>4, ConcludedIs

LEMMA CompiledFaults == ASSUME Compiled PROVE FaultsReported
<1> SUFFICES ASSUME Concluded PROVE FaultsReported
  BY DEF FaultsReported
<1> USE VerdictIs, FaultyIs
<1>1. Faulty \ {<<"device", n>> : n \in Misplaced} \subseteq ErrorPlaces
  OBVIOUS
<1>2. ASSUME Misplaced = {}
      PROVE  (Kept = DOMAIN raw.devices => ErrorPlaces = Faulty) /\ (stage = "rejected" <=> Faulty # {})
  BY <1>2
<1>3. QED
  BY <1>1, <1>2 DEF FaultsReported

-----------------------------------------------------------------------------
(* What an accepted configuration becomes *)

Accepted == stage \in {"accepted", "running"}

(* An accepted configuration has nothing wrong with it, but for devices in *)
(* the wrong place.                                                        *)
LEMMA AllSound ==
  ASSUME Compiled, Accepted
  PROVE  /\ Kept = DOMAIN raw.devices /\ stage \notin Earlier.devices /\ Reflects(Lowerer)
         /\ \A n \in DOMAIN raw.schedules : SoundSchedule(raw.schedules[n])
         /\ \A n \in DOMAIN raw.scenes : \A i \in DOMAIN raw.scenes[n] : Sound(raw.scenes[n][i], CommandVerbs)
         /\ \A n \in DOMAIN raw.rules : SoundRule(raw.rules[n])
<1>1. Checked = {} /\ stage \notin Earlier.devices
  BY VerdictIs DEF Accepted, Concluded, Earlier
<1>2. BadDevices = {} /\ BadSchedules = {} /\ BadScenes = {} /\ BadRules = {}
  BY <1>1 DEF Checked
<1>3. \A n \in DOMAIN raw.devices : CheckedDevice(raw.devices[n])
  BY <1>2 DEF BadDevices
<1>4. Kept = DOMAIN raw.devices
  BY <1>3 DEF CheckedDevice, Kept
<1>5. \A n \in DOMAIN raw.schedules : SoundSchedule(raw.schedules[n])
  BY <1>2 DEF BadSchedules
<1>6. \A n \in DOMAIN raw.scenes : \A i \in DOMAIN raw.scenes[n] : Sound(raw.scenes[n][i], CommandVerbs)
  BY <1>2 DEF BadScenes
<1>7. \A n \in DOMAIN raw.rules : SoundRule(raw.rules[n])
  BY <1>2 DEF BadRules
<1>8. QED
  BY <1>1, <1>4, <1>5, <1>6, <1>7, LowererReflects

(* A list of sound commands lowers one by one, in order.                   *)
LEMMA CommandsLower ==
  ASSUME NEW lw, Reflects(lw), Kept = DOMAIN raw.devices,
         NEW vs, IsNodes(vs), \A i \in DOMAIN vs : Sound(vs[i], CommandVerbs)
  PROVE  /\ DOMAIN commands(lw, vs) = DOMAIN vs /\ Len(commands(lw, vs)) = Len(vs)
         /\ \A k \in DOMAIN vs : commands(lw, vs)[k] = Lowered(lw, vs[k])
<1>1. vs \in Seq({vs[i] : i \in DOMAIN vs})
  BY DEF IsNodes, IsSeq
<1>2. DOMAIN vs = 1..Len(vs) /\ Len(vs) \in Nat
  BY <1>1, LenProperties
<1>3. ASSUME NEW i \in DOMAIN vs PROVE Lowers(CommandChecks(lw, vs[i]))
  <2>1. Decides(CommandChecks(lw, vs[i]), Sound(vs[i], CommandVerbs))
    BY CommandDecides DEF IsNodes
  <2>2. QED
    BY <2>1, ErrorsIs DEF Decides
<1>4. {i \in DOMAIN vs : Lowers(CommandChecks(lw, vs[i]))} = 1..Len(vs)
  BY <1>2, <1>3
<1>5. commands(lw, vs) = [k \in 1..Cardinality(1..Len(vs)) |-> Lowered(lw, vs[Nth(k, 1..Len(vs))])]
  BY <1>4 DEF commands
<1>6. Cardinality(1..Len(vs)) = Len(vs) /\ \A k \in 1..Len(vs) : Nth(k, 1..Len(vs)) = k
  BY <1>2, NthOfInterval
<1>7. DOMAIN commands(lw, vs) = 1..Len(vs) /\ \A k \in 1..Len(vs) : commands(lw, vs)[k] = Lowered(lw, vs[k])
  BY <1>5, <1>6
<1>8. Len(commands(lw, vs)) = Len(vs)
  <2>1. PICK cs : cs = commands(lw, vs)
    OBVIOUS
  <2>2. DOMAIN cs = 1..Len(vs) /\ Len(vs) \in Nat
    BY <1>2, <1>7, <2>1
  <2>3. Len(cs) = Len(vs)
    BY <1>5, <1>6, <2>1, <2>2
  <2>4. QED
    BY <2>1, <2>3
<1>9. QED
  BY <1>2, <1>7, <1>8

(* The tables of scenes and rules, by name; no rule is left out.           *)
LEMMA ScenesAre ==
  ASSUME Compiled, Accepted
  PROVE  /\ \A i \in DOMAIN scenes :
              /\ scenes[i].name \in DOMAIN raw.scenes /\ Rank(scenes[i].name, DOMAIN raw.scenes) = i
              /\ scenes[i].commands = commands(Lowerer, raw.scenes[scenes[i].name])
         /\ \A n \in DOMAIN raw.scenes :
              Rank(n, DOMAIN raw.scenes) \in DOMAIN scenes /\ scenes[Rank(n, DOMAIN raw.scenes)].name = n
<1>1. PICK S : S = DOMAIN raw.scenes
  OBVIOUS
<1>2. S \subseteq Names /\ scenes = [i \in DOMAIN Sorted(S) |-> LoweredScene(Sorted(S)[i])]
  BY <1>1, ConfigIs DEF Compiled, SceneDefs, Accepted, Earlier
<1>3. \A n : LoweredScene(n).name = n /\ LoweredScene(n).commands = commands(Lowerer, raw.scenes[n])
  BY DEF LoweredScene
<1>4. QED
  BY <1>1, <1>2, <1>3, SortedIs

LEMMA RulesAre ==
  ASSUME Compiled, Accepted
  PROVE  /\ \A r \in rules : \E n \in DOMAIN raw.rules : r = LoweredRule(n)
         /\ \A n \in DOMAIN raw.rules : LoweredRule(n) \in rules
<1>1. rules = RuleDefs
  BY DEF Compiled, Accepted, Earlier
<1>2. ASSUME NEW n \in DOMAIN raw.rules PROVE RuleLowers(raw.rules[n])
  <2>1. /\ IsNode(raw.rules[n].when)
        /\ \A v \in raw.rules[n].if : IsNode(v)
    BY ConfigIs DEF IsConfig
  <2>2. SoundRule(raw.rules[n]) /\ Reflects(Lowerer) /\ Kept = DOMAIN raw.devices
    BY AllSound
  <2>3. Lowers(TriggerChecks(Lowerer, raw.rules[n].when))
    <3>1. Decides(TriggerChecks(Lowerer, raw.rules[n].when), Sound(raw.rules[n].when, TriggerVerbs))
      BY <2>1, <2>2, TriggerDecides
    <3>2. QED
      BY <2>2, <3>1, ErrorsIs DEF Decides, SoundRule
  <2>4. ASSUME NEW v \in raw.rules[n].if PROVE Lowers(ConditionChecks(Lowerer, v))
    <3>1. Decides(ConditionChecks(Lowerer, v), Sound(v, ConditionVerbs))
      BY <2>1, <2>2, ConditionDecides
    <3>2. QED
      BY <2>2, <3>1, ErrorsIs DEF Decides, SoundRule
  <2>5. QED
    BY <2>3, <2>4 DEF RuleLowers
<1>3. QED
  BY <1>1, <1>2 DEF RuleDefs

(* All that runs comes from a sound node.                                  *)
AllVerbs == TriggerVerbs \cup ConditionVerbs \cup CommandVerbs

LEMMA RunsAre ==
  ASSUME Compiled, Accepted, NEW v \in Runs
  PROVE  \E w, verbs : verbs \subseteq AllVerbs /\ IsNode(w) /\ Sound(w, verbs) /\ v = Lowered(Lowerer, w)
<1>1. CASE \E i \in DOMAIN scenes : \E j \in DOMAIN scenes[i].commands : v = scenes[i].commands[j]
  <2>0. PICK i \in DOMAIN scenes : \E j \in DOMAIN scenes[i].commands : v = scenes[i].commands[j]
    BY <1>1
  <2>1. PICK j \in DOMAIN scenes[i].commands : v = scenes[i].commands[j]
    BY <2>0
  <2>2. PICK n \in DOMAIN raw.scenes : scenes[i].commands = commands(Lowerer, raw.scenes[n])
    BY ScenesAre
  <2>3. IsNodes(raw.scenes[n])
    BY ConfigIs DEF IsConfig
  <2>4. \A k \in DOMAIN raw.scenes[n] : Sound(raw.scenes[n][k], CommandVerbs)
    BY AllSound
  <2>5. j \in DOMAIN raw.scenes[n] /\ v = Lowered(Lowerer, raw.scenes[n][j])
    BY <2>1, <2>2, <2>3, <2>4, AllSound, CommandsLower
  <2>6. QED
    BY <2>3, <2>4, <2>5 DEF IsNodes, AllVerbs
<1>2. CASE \E r \in rules : v = r.trigger \/ v \in r.conditions \/ \E j \in DOMAIN r.commands : v = r.commands[j]
  <2>1. PICK r \in rules : v = r.trigger \/ v \in r.conditions \/ \E j \in DOMAIN r.commands : v = r.commands[j]
    BY <1>2
  <2>2. PICK n \in DOMAIN raw.rules : r = LoweredRule(n)
    BY RulesAre
  <2>3. /\ r.trigger = Lowered(Lowerer, raw.rules[n].when)
        /\ r.conditions = {Lowered(Lowerer, w) : w \in raw.rules[n].if}
        /\ r.commands = commands(Lowerer, raw.rules[n].then)
    BY <2>2 DEF LoweredRule
  <2>4. /\ IsNode(raw.rules[n].when) /\ IsNodes(raw.rules[n].then)
        /\ \A w \in raw.rules[n].if : IsNode(w)
    BY ConfigIs DEF IsConfig
  <2>5. /\ Sound(raw.rules[n].when, TriggerVerbs)
        /\ \A w \in raw.rules[n].if : Sound(w, ConditionVerbs)
        /\ \A i \in DOMAIN raw.rules[n].then : Sound(raw.rules[n].then[i], CommandVerbs)
    BY AllSound DEF SoundRule
  <2>6. CASE v = r.trigger
    BY <2>3, <2>4, <2>5, <2>6 DEF AllVerbs
  <2>7. CASE v \in r.conditions
    BY <2>3, <2>4, <2>5, <2>7 DEF AllVerbs
  <2>8. CASE \E j \in DOMAIN r.commands : v = r.commands[j]
    <3>1. PICK j \in DOMAIN r.commands : v = r.commands[j]
      BY <2>8
    <3>2. j \in DOMAIN raw.rules[n].then /\ v = Lowered(Lowerer, raw.rules[n].then[j])
      BY <2>3, <2>4, <2>5, <3>1, AllSound, CommandsLower
    <3>3. QED
      BY <2>4, <2>5, <3>2 DEF IsNodes, AllVerbs
  <2>9. QED
    BY <2>1, <2>6, <2>7, <2>8
<1>3. ASSUME v \in SceneRuns
      PROVE  \E i \in DOMAIN scenes : \E j \in DOMAIN scenes[i].commands : v = scenes[i].commands[j]
  BY <1>3 DEF Ran, SceneRuns
<1>4. ASSUME v \in RuleRuns
      PROVE  \E r \in rules : v = r.trigger \/ v \in r.conditions \/ \E j \in DOMAIN r.commands : v = r.commands[j]
  BY <1>4 DEF Ran, RuleRuns
<1>5. QED
  BY <1>1, <1>2, <1>3, <1>4 DEF Runs

(* The clock's device is one more than the user's.                         *)
LEMMA ClockIs ==
  ASSUME Compiled, stage \notin Earlier.devices
  PROVE  /\ ClockDevice \in 1..ClockDevice /\ ClockDevice \notin DOMAIN devices
         /\ DOMAIN devices = 1..Len(devices) /\ Len(devices) \in Nat
         /\ DOMAIN Binding = 1..ClockDevice
<1>1. PICK n : n = Len(devices)
  OBVIOUS
<1>2. DOMAIN devices = 1..n /\ n \in Nat
  BY <1>1, DeviceDefsAre
<1>3. ClockDevice = n + 1
  BY <1>1 DEF ClockDevice
<1>4. QED
  BY <1>1, <1>2, <1>3 DEF Binding

(* What a sound node is about is bound, and has the capability.            *)
LEMMA NodeBound ==
  ASSUME Compiled, Accepted, NEW w, NEW verbs, verbs \subseteq AllVerbs, Sound(w, verbs), Subject(Lowerer, w) # NONE
  PROVE  /\ Subject(Lowerer, w) \in DOMAIN Binding
         /\ KindOf(w) # NONE => KindOf(w) \in Provides(Subject(Lowerer, w))
<1>1. stage \notin Earlier.devices /\ Reflects(Lowerer) /\ Kept = DOMAIN raw.devices
  BY AllSound
<1>2. CASE w.verb \in {"sun_up", "time_after", "time_before"}
  <2>1. Subject(Lowerer, w) = ClockDevice
    BY <1>2 DEF Subject, Lowerer
  <2>2. KindOf(w) \in {"time_of_day", "sun_up"}
    <3>1. w.verb \notin DOMAIN NeededBy
      BY <1>2 DEF NeededBy
    <3>2. QED
      BY <1>2, <3>1 DEF KindOf
  <2>3. ClockDevice \in DOMAIN Binding
    BY <1>1, ClockIs
  <2>4. QED
    BY <2>1, <2>2, <2>3 DEF Provides
<1>3. CASE w.verb \notin {"sun_up", "time_after", "time_before"}
  <2>1. /\ Field(w, "device") \in DOMAIN Lowerer.devices
        /\ ~(w.verb = "command_failed" /\ w.device = "*")
        /\ Subject(Lowerer, w) = Lowerer.devices[w.device].id
    BY <1>3 DEF Subject
  <2>2. Field(w, "device") \in Kept /\ NONE \notin Kept
    BY <1>1, <2>1, ConfigIs, CompileAssumption DEF Reflects
  <2>3. Given(w, "device") /\ Field(w, "device") = w.device /\ w.device \in Kept
    BY <2>2 DEF Given, Field
  <2>4. Subject(Lowerer, w) = Rank(w.device, Kept)
    BY <2>1, <2>3 DEF Lowerer
  <2>5. /\ Rank(w.device, Kept) \in DOMAIN devices
        /\ devices[Rank(w.device, Kept)].capabilities = raw.devices[w.device].capabilities \cap Declarable
    <3>1. Rank(w.device, Kept) \in DOMAIN devices /\ devices[Rank(w.device, Kept)] = DeviceDef(w.device)
      BY <1>1, <2>3, DeviceDefsAre
    <3>2. DeviceDef(w.device).capabilities = raw.devices[w.device].capabilities \cap Declarable
      BY DEF DeviceDef
    <3>3. QED
      BY <3>1, <3>2
  <2>6. Rank(w.device, Kept) \in DOMAIN Binding /\ Rank(w.device, Kept) # ClockDevice
    <3>1. PICK d : d = Rank(w.device, Kept)
      OBVIOUS
    <3>2. d \in 1..Len(devices) /\ Len(devices) \in Nat /\ ClockDevice = Len(devices) + 1
      BY <1>1, <2>5, <3>1, ClockIs DEF ClockDevice
    <3>3. d \in 1..ClockDevice /\ d # ClockDevice
      BY <3>2
    <3>4. QED
      BY <1>1, <3>1, <3>3, ClockIs
  <2>7. KindOf(w) # NONE => Declares(w.device, KindOf(w))
    BY <2>1, <2>3 DEF Sound
  <2>8. QED
    BY <2>4, <2>5, <2>6, <2>7 DEF Provides, Declares
<1>4. QED
  BY <1>2, <1>3

(* Every scene and schedule a sound node names is there.                   *)
LEMMA NodeResolved ==
  ASSUME Compiled, Accepted, NEW w, NEW verbs, Sound(w, verbs)
  PROVE  /\ w.verb = "activate_scene" => Argument(Lowerer, w) \in DOMAIN scenes
         /\ w.verb = "schedule" => \E s \in schedules : s.id = Argument(Lowerer, w)
<1>1. ASSUME w.verb = "activate_scene" PROVE Argument(Lowerer, w) \in DOMAIN scenes
  <2>1. w.name \in DOMAIN raw.scenes
    BY <1>1 DEF Sound
  <2>2. Argument(Lowerer, w) = Ids(raw.scenes)[w.name]
    BY <1>1 DEF Argument, Lowerer
  <2>3. Ids(raw.scenes)[w.name] = Rank(w.name, DOMAIN raw.scenes)
    BY <2>1 DEF Ids
  <2>4. QED
    BY <2>1, <2>2, <2>3, ScenesAre
<1>2. ASSUME w.verb = "schedule" PROVE \E s \in schedules : s.id = Argument(Lowerer, w)
  <2>1. w.name \in DOMAIN raw.schedules
    BY <1>2 DEF Sound
  <2>2. Argument(Lowerer, w) = Ids(raw.schedules)[w.name]
    BY <1>2 DEF Argument, Lowerer
  <2>3. \A f \in {"daily", "weekday", "weekend"} : raw.schedules[w.name][f] # NONE => IsTime(raw.schedules[w.name][f])
    BY <2>1, ConfigIs DEF IsConfig
  <2>4. ScheduleErrors(raw.schedules[w.name]) = {}
    BY <2>1, <2>3, AllSound, ScheduleFaults
  <2>5. schedules = ScheduleDefs
    BY DEF Compiled, Accepted, Earlier
  <2>6. [id |-> Ids(raw.schedules)[w.name], name |-> w.name] \in ScheduleDefs
    BY <2>1, <2>4 DEF ScheduleDefs
  <2>7. QED
    BY <2>2, <2>5, <2>6
<1>3. QED
  BY <1>1, <1>2

(* The slots: the scheduler's, the adapters', the clock's.                 *)
LEMMA SandwichIs ==
  ASSUME NEW x, NEW y, NEW mid, NEW m \in Nat, DOMAIN mid = 1..m, mid = [i \in 1..m |-> mid[i]]
  PROVE  /\ DOMAIN (<<x>> \o mid \o <<y>>) = 1..(m + 2) /\ (<<x>> \o mid \o <<y>>)[m + 2] = y
         /\ \A i \in 1..m : (<<x>> \o mid \o <<y>>)[1 + i] = mid[i]
<1> DEFINE S == {x, y} \cup {mid[i] : i \in 1..m}
<1>1. mid \in Seq(S) /\ Len(mid) = m
  <2>1. mid \in [1..m -> S]
    OBVIOUS
  <2>2. QED
    BY <2>1, SeqDef, LenProperties
<1>2. <<x>> \in Seq(S) /\ <<y>> \in Seq(S) /\ Len(<<x>>) = 1 /\ Len(<<y>>) = 1
  OBVIOUS
<1> HIDE DEF S
<1>3. /\ <<x>> \o mid \in Seq(S) /\ Len(<<x>> \o mid) = 1 + m
      /\ \A i \in 1..(1 + m) : (<<x>> \o mid)[i] = IF i =< 1 THEN <<x>>[i] ELSE mid[i - 1]
  BY <1>1, <1>2, ConcatProperties
<1>4. \A i \in 1..(1 + m + 1) : (<<x>> \o mid \o <<y>>)[i] = IF i =< 1 + m THEN (<<x>> \o mid)[i] ELSE <<y>>[i - (1 + m)]
  BY <1>2, <1>3, ConcatProperties
<1>5. (<<x>> \o mid \o <<y>>)[m + 2] = y
  <2>1. m + 2 \in 1..(1 + m + 1) /\ ~(m + 2 =< 1 + m) /\ (m + 2) - (1 + m) = 1
    OBVIOUS
  <2>2. (<<x>> \o mid \o <<y>>)[m + 2] = <<y>>[(m + 2) - (1 + m)]
    BY <1>4, <2>1
  <2>3. <<y>>[1] = y
    OBVIOUS
  <2>4. QED
    BY <2>1, <2>2, <2>3
<1>6. ASSUME NEW i \in 1..m PROVE (<<x>> \o mid \o <<y>>)[1 + i] = mid[i]
  <2>1. 1 + i \in 1..(1 + m + 1) /\ 1 + i =< 1 + m /\ 1 + i \in 1..(1 + m) /\ ~(1 + i =< 1) /\ (1 + i) - 1 = i
    OBVIOUS
  <2>2. QED
    BY <1>3, <1>4, <2>1
<1>7. DOMAIN (<<x>> \o mid \o <<y>>) = 1..(m + 2)
  <2>1. Len(<<x>> \o mid \o <<y>>) = (1 + m) + 1 /\ <<x>> \o mid \o <<y>> \in Seq(S)
    BY <1>2, <1>3, ConcatProperties
  <2>2. QED
    BY <2>1, LenProperties
<1>8. QED
  BY <1>5, <1>6, <1>7

(* A device is bound to the slot of its adapter, although northbound       *)
(* adapters have ids and no slots.                                         *)
LEMMA SlotsAre ==
  ASSUME Compiled, Accepted
  PROVE  /\ Binding[ClockDevice] \in DOMAIN Slots
         /\ Slots[Binding[ClockDevice]] = [adapter |-> "clock", drives |-> {ClockDevice}]
         /\ \A d \in DOMAIN devices : devices[d].adapter \in South =>
              /\ Binding[d] \in DOMAIN Slots
              /\ Slots[Binding[d]].adapter = raw.devices[devices[d].name].adapter
              /\ d \in Slots[Binding[d]].drives
<1>0. stage # "adapters" /\ stage \notin Earlier.devices
  BY AllSound DEF Accepted
<1>1. South \subseteq Nat /\ IsFiniteSet(South)
  <2>1. PICK n \in Nat : DOMAIN adapters = 1..n
    BY <1>0, AdapterDefsAre
  <2>2. South \in SUBSET (1..n)
    BY <2>1 DEF South
  <2>3. IsFiniteSet(1..n)
    BY FS_Interval
  <2>4. IsFiniteSet(South)
    BY <2>2, <2>3, FS_Subset
  <2>5. QED
    BY <2>2, <2>4
<1>2. PICK I : I = South
  OBVIOUS
<1>3. /\ Cardinality(I) \in Nat
      /\ \A i \in I : Place(i, I) \in 1..Cardinality(I) /\ Nth(Place(i, I), I) = i
  BY <1>1, <1>2, PlaceIs
<1>4. PICK m \in Nat : m = Cardinality(I)
  BY <1>3
<1>5. SlotOrder = [k \in 1..m |-> Nth(k, I)]
  BY <1>2, <1>4 DEF SlotOrder
<1>6. Len(SlotOrder) = m
  BY <1>5
<1>7. PICK mid : mid = [s \in 1..m |-> [adapter |-> adapters[Nth(s, I)].name, drives |-> BoundTo(Nth(s, I))]]
  OBVIOUS
<1>8. PICK x, y : x = [adapter |-> "scheduler", drives |-> {}] /\ y = [adapter |-> "clock", drives |-> {ClockDevice}]
  OBVIOUS
<1>9. Slots = <<x>> \o mid \o <<y>>
  BY <1>5, <1>7, <1>8 DEF Slots
<1>10. DOMAIN mid = 1..m /\ mid = [i \in 1..m |-> mid[i]]
  BY <1>7
<1>11. /\ Slots[m + 2] = [adapter |-> "clock", drives |-> {ClockDevice}]
       /\ DOMAIN Slots = 1..(m + 2) /\ \A i \in 1..m : Slots[1 + i] = mid[i]
  <2>1. /\ DOMAIN (<<x>> \o mid \o <<y>>) = 1..(m + 2) /\ (<<x>> \o mid \o <<y>>)[m + 2] = y
        /\ \A i \in 1..m : (<<x>> \o mid \o <<y>>)[1 + i] = mid[i]
    BY <1>10, SandwichIs
  <2>2. DOMAIN Slots = 1..(m + 2) /\ Slots[m + 2] = y /\ \A i \in 1..m : Slots[1 + i] = mid[i]
    BY <1>9, <2>1, Zenon
  <2>3. QED
    BY <1>8, <2>2
<1>12. Binding[ClockDevice] = m + 2
  BY <1>0, <1>6, ClockIs DEF Binding
<1>13. ASSUME NEW d \in DOMAIN devices, devices[d].adapter \in South
       PROVE  /\ Binding[d] \in DOMAIN Slots
              /\ Slots[Binding[d]].adapter = raw.devices[devices[d].name].adapter
              /\ d \in Slots[Binding[d]].drives
  <2>1. PICK a \in I : a = devices[d].adapter
    BY <1>2, <1>13
  <2>2. d \in 1..ClockDevice /\ d # ClockDevice
    <3>1. d \in 1..Len(devices) /\ Len(devices) \in Nat
      BY <1>0, ClockIs
    <3>2. QED
      BY <3>1 DEF ClockDevice
  <2>3. Binding[d] = 1 + Place(a, I)
    BY <1>2, <2>1, <2>2 DEF Binding, Slot
  <2>4. Place(a, I) \in 1..m /\ Nth(Place(a, I), I) = a
    BY <1>3, <1>4
  <2>5. /\ Slots[Binding[d]] = [adapter |-> adapters[a].name, drives |-> BoundTo(a)]
        /\ Binding[d] \in DOMAIN Slots
    BY <1>7, <1>11, <2>3, <2>4
  <2>6. PICK n \in Kept : devices[d] = DeviceDef(n) /\ devices[d].name = n
    BY <1>0, DeviceDefsAre
  <2>7. a = Rank(raw.devices[n].adapter, DOMAIN raw.adapters)
    BY <2>1, <2>6 DEF DeviceDef
  <2>8. raw.devices[n].adapter \in DOMAIN raw.adapters
    BY DEF Kept
  <2>9. adapters[a] = AdapterDef(raw.devices[n].adapter)
    BY <1>0, <2>7, <2>8, AdapterDefsAre
  <2>10. adapters[a].name = raw.devices[devices[d].name].adapter
    BY <2>6, <2>9 DEF AdapterDef
  <2>11. d \in BoundTo(a)
    BY <2>1 DEF BoundTo
  <2>12. QED
    BY <2>5, <2>10, <2>11
<1>14. m + 2 \in 1..(m + 2)
  OBVIOUS
<1>15. QED
  BY <1>11, <1>12, <1>13, <1>14

(* Every kept device that is not misplaced has an adapter with a slot.     *)
LEMMA AdaptersSouth ==
  ASSUME Compiled, Accepted, Misplaced = {}
  PROVE  \A d \in DOMAIN devices : devices[d].adapter \in South
<1>0. stage # "adapters" /\ stage \notin Earlier.devices
  BY AllSound DEF Accepted
<1> SUFFICES ASSUME NEW d \in DOMAIN devices PROVE devices[d].adapter \in South
  OBVIOUS
<1>1. PICK n \in Kept : devices[d] = DeviceDef(n)
  BY <1>0, DeviceDefsAre
<1>2. PICK a \in DOMAIN raw.adapters : a = raw.devices[n].adapter
  BY DEF Kept
<1>3. raw.adapters[a].type \notin Northbound
  BY <1>2 DEF Misplaced, Kept
<1>4. PICK i \in DOMAIN adapters : i = Rank(a, DOMAIN raw.adapters) /\ adapters[i] = AdapterDef(a)
  BY <1>0, AdapterDefsAre
<1>5. devices[d].adapter = i /\ adapters[i].type = raw.adapters[a].type
  BY <1>1, <1>2, <1>4 DEF DeviceDef, AdapterDef
<1>6. QED
  BY <1>3, <1>4, <1>5 DEF South

(* A rule keeps its name, its commands and its "for:".                     *)
LEMMA RuleKept ==
  ASSUME Compiled, Accepted, NEW n \in DOMAIN raw.rules
  PROVE  /\ LoweredRule(n).name = n /\ LoweredRule(n) \in rules
         /\ Len(LoweredRule(n).commands) = Len(raw.rules[n].then)
         /\ (LoweredRule(n).for = NONE) = (raw.rules[n].for = NONE)
         /\ LoweredRule(n).for # NONE => LoweredRule(n).trigger.verb \in EdgeVerbs
<1>1. PICK rule : rule = raw.rules[n]
  OBVIOUS
<1>2. SoundRule(rule) /\ IsNodes(rule.then) /\ LoweredRule(n) \in rules
  BY <1>1, AllSound, ConfigIs, RulesAre DEF IsConfig
<1>3. Len(commands(Lowerer, rule.then)) = Len(rule.then)
  BY <1>2, AllSound, CommandsLower DEF SoundRule
<1>4. rule.for # NONE => Lowers(ForChecks(rule)) /\ parse_duration(rule.for) # NONE /\ rule.when.verb \in EdgeVerbs
  <2>1. AllOk(ForChecks(rule)) /\ DOMAIN ForChecks(rule) \subseteq Nat
    BY <1>2, ForIs DEF SoundRule
  <2>2. Lowers(ForChecks(rule))
    BY <2>1, ErrorsIs
  <2>3. QED
    BY <1>2, <2>2 DEF SoundRule, EdgeVerbs
<1>5. /\ LoweredRule(n).name = n /\ LoweredRule(n).commands = commands(Lowerer, rule.then)
      /\ LoweredRule(n).trigger = Lowered(Lowerer, rule.when)
      /\ LoweredRule(n).for = IF rule.for # NONE /\ Lowers(ForChecks(rule)) THEN parse_duration(rule.for) ELSE NONE
  BY <1>1 DEF LoweredRule
<1>6. Lowered(Lowerer, rule.when).verb = rule.when.verb
  BY DEF Lowered
<1>7. QED
  BY <1>1, <1>2, <1>3, <1>4, <1>5, <1>6

(* Every device is bound, the clock's among them.                          *)
LEMMA BoundIs ==
  ASSUME Compiled, stage = "running", Misplaced = {}
  PROVE  /\ \A d \in 1..ClockDevice : Bound(d)
         /\ \A d \in DOMAIN devices : AdapterOf(d) = raw.devices[devices[d].name].adapter
         /\ AdapterOf(ClockDevice) = "clock"
<1>1. Accepted /\ stage \notin Earlier.devices
      /\ engine = [slots |-> Slots, binding |-> Binding, northbound |-> Subscribed]
  BY DEF Accepted, Compiled, Earlier
<1>2. engine.slots = Slots /\ engine.binding = Binding
  BY <1>1
<1>3. DOMAIN Binding = 1..ClockDevice /\ \A d \in 1..ClockDevice : d \in DOMAIN devices \/ d = ClockDevice
  <2>1. DOMAIN devices = 1..Len(devices) /\ Len(devices) \in Nat /\ DOMAIN Binding = 1..ClockDevice
    BY <1>1, ClockIs
  <2>2. QED
    BY <2>1 DEF ClockDevice
<1>4. Bound(ClockDevice) /\ AdapterOf(ClockDevice) = "clock"
  BY <1>1, <1>2, <1>3, ClockIs, SlotsAre DEF Bound, AdapterOf
<1>5. ASSUME NEW d \in DOMAIN devices PROVE Bound(d) /\ AdapterOf(d) = raw.devices[devices[d].name].adapter
  <2>1. d \in DOMAIN Binding
    <3>1. DOMAIN devices = 1..Len(devices) /\ Len(devices) \in Nat
      BY <1>1, ClockIs
    <3>2. d \in 1..ClockDevice
      BY <3>1 DEF ClockDevice
    <3>3. QED
      BY <1>3, <3>2
  <2>2. QED
    BY <1>1, <1>2, <2>1, AdaptersSouth, SlotsAre DEF Bound, AdapterOf
<1>6. QED
  BY <1>3, <1>4, <1>5

(* The parts of Runnable.                                                  *)
LEMMA CompiledRuns == ASSUME Compiled PROVE Runnable
<1> SUFFICES ASSUME stage = "running", Misplaced = {} PROVE Runnable
  BY DEF Runnable
<1>1. Accepted /\ stage \notin Earlier.devices
  BY DEF Accepted, Earlier
<1>2. ASSUME NEW v \in Runs
      PROVE  /\ v.device # NONE => Bound(v.device) /\ (v.kind # NONE => v.kind \in Provides(v.device))
             /\ v.verb = "activate_scene" => v.arg \in DOMAIN scenes
             /\ v.verb = "schedule" => \E s \in schedules : s.id = v.arg
  <2>1. PICK w, verbs : verbs \subseteq AllVerbs /\ IsNode(w) /\ Sound(w, verbs) /\ v = Lowered(Lowerer, w)
    BY <1>1, RunsAre
  <2>2. /\ v.verb = w.verb /\ v.device = Subject(Lowerer, w) /\ v.kind = KindOf(w)
        /\ v.arg = Argument(Lowerer, w)
    BY <2>1 DEF Lowered
  <2>3. v.device # NONE => v.device \in 1..ClockDevice /\ (v.kind # NONE => v.kind \in Provides(v.device))
    BY <1>1, <2>1, <2>2, NodeBound, ClockIs
  <2>4. QED
    BY <1>1, <2>1, <2>2, <2>3, BoundIs, NodeResolved
<1>3. ASSUME NEW r \in rules, r.for # NONE PROVE r.trigger.verb \in EdgeVerbs
  BY <1>1, <1>3, RulesAre, RuleKept
<1>4. \A n \in DOMAIN raw.rules : \E r \in rules :
         r.name = n /\ Len(r.commands) = Len(raw.rules[n].then) /\ (r.for = NONE) = (raw.rules[n].for = NONE)
  BY <1>1, RuleKept
<1>5. ASSUME NEW i \in DOMAIN scenes PROVE Len(scenes[i].commands) = Len(raw.scenes[scenes[i].name])
  <2>1. PICK n \in DOMAIN raw.scenes : scenes[i].name = n /\ scenes[i].commands = commands(Lowerer, raw.scenes[n])
    BY <1>1, ScenesAre
  <2>2. IsNodes(raw.scenes[n])
    BY ConfigIs DEF IsConfig
  <2>3. QED
    BY <1>1, <2>1, <2>2, AllSound, CommandsLower
<1>6. /\ \A d \in DOMAIN devices : Bound(d) /\ AdapterOf(d) = raw.devices[devices[d].name].adapter
      /\ Bound(ClockDevice) /\ AdapterOf(ClockDevice) = "clock"
  <2>1. \A d \in DOMAIN devices : d \in 1..ClockDevice
    <3>1. DOMAIN devices = 1..Len(devices) /\ Len(devices) \in Nat
      BY <1>1, ClockIs
    <3>2. QED
      BY <3>1 DEF ClockDevice
  <2>2. QED
    BY <1>1, <2>1, BoundIs, ClockIs
<1>7. QED
  BY <1>2, <1>3, <1>4, <1>5, <1>6 DEF Runnable

-----------------------------------------------------------------------------
(* The directory *)

(* A device is found by its name, unless the clock hides it.               *)
LEMMA DirectoryIs ==
  ASSUME Compiled, stage = "running", NEW n
  PROVE  /\ HasDevice(n) <=> n \in DOMAIN raw.devices \/ n = "clock"
         /\ n = "clock" => DirectoryDevice(n) = Clock
         /\ n \in DOMAIN raw.devices /\ n # "clock" =>
              /\ DirectoryDevice(n).id \in DOMAIN devices
              /\ devices[DirectoryDevice(n).id].name = n
              /\ DirectoryDevice(n).capabilities = devices[DirectoryDevice(n).id].capabilities
              /\ DirectoryDevice(n).events = devices[DirectoryDevice(n).id].events
              /\ DirectoryDevice(n).capabilities = raw.devices[n].capabilities \cap Declarable
              /\ DOMAIN DirectoryDevice(n).events = raw.devices[n].events
<1>1. Accepted /\ stage \notin Earlier.devices /\ Kept = DOMAIN raw.devices
  BY AllSound DEF Accepted
<1>a. Len(devices) \in Nat /\ DOMAIN devices = 1..Len(devices)
  BY <1>1, ClockIs
<1>m. PICK m \in Nat : m = Len(devices)
  BY <1>a
<1>2. m = Len(devices) /\ DOMAIN devices = 1..m
  BY <1>a, <1>m
<1>3. PICK mid : mid = [d \in DOMAIN devices |-> [id |-> d, name |-> devices[d].name,
                          capabilities |-> devices[d].capabilities, events |-> devices[d].events]]
  OBVIOUS
<1>4. /\ DOMAIN Entries = 1..(m + 1) /\ Entries[m + 1] = Clock
      /\ \A d \in 1..m : Entries[d] = mid[d]
  <2> DEFINE S == {mid[d] : d \in 1..m} \cup {Clock}
  <2>1. mid \in Seq(S) /\ Len(mid) = m
    <3>1. mid \in [1..m -> S]
      BY <1>2, <1>3
    <3>2. QED
      BY <3>1, SeqDef, LenProperties
  <2>2. Clock \in S
    OBVIOUS
  <2> HIDE DEF S
  <2>3. Entries = Append(mid, Clock)
    BY <1>3 DEF Entries
  <2>4. /\ Append(mid, Clock) \in Seq(S) /\ Len(Append(mid, Clock)) = m + 1
        /\ \A i \in 1..m : Append(mid, Clock)[i] = mid[i]
        /\ Append(mid, Clock)[m + 1] = Clock
    BY <2>1, <2>2, AppendProperties
  <2>5. QED
    BY <2>3, <2>4, LenProperties
<1>5. \A d \in DOMAIN devices : devices[d].name \in Kept /\ Rank(devices[d].name, Kept) = d
  BY <1>1, DeviceDefsAre
<1>6. \A k \in Kept : Rank(k, Kept) \in DOMAIN devices /\ devices[Rank(k, Kept)] = DeviceDef(k) /\ DeviceDef(k).name = k
  BY <1>1, DeviceDefsAre DEF DeviceDef
<1>7. \A d \in 1..m : Entries[d].name = devices[d].name
  BY <1>2, <1>3, <1>4
<1>8. Entries[m + 1].name = "clock"
  BY <1>4 DEF Clock
<1>9. \A i : i \in Called(n) <=> (i \in 1..m /\ devices[i].name = n) \/ (i = m + 1 /\ n = "clock")
  <2>1. \A i : i \in 1..(m + 1) <=> i \in 1..m \/ i = m + 1
    OBVIOUS
  <2>2. QED
    BY <1>4, <1>7, <1>8, <2>1 DEF Called
<1>10. HasDevice(n) <=> n \in DOMAIN raw.devices \/ n = "clock"
  <2>1. HasDevice(n) <=> \E i : i \in Called(n)
    BY DEF HasDevice
  <2>2. QED
    BY <1>1, <1>2, <1>5, <1>6, <1>9, <2>1
<1>11. ASSUME n = "clock" PROVE DirectoryDevice(n) = Clock
  <2>1. m + 1 \in Called(n) /\ \A i \in Called(n) : i =< m + 1 /\ i \in Nat
    BY <1>9, <1>11
  <2>2. \A i \in Called(n) : (\A j \in Called(n) : j =< i) => i = m + 1
    BY <2>1
  <2>3. (CHOOSE i \in Called(n) : \A j \in Called(n) : j =< i) = m + 1
    BY <2>1, <2>2
  <2>4. QED
    BY <1>4, <2>3 DEF DirectoryDevice
<1>12. ASSUME n \in DOMAIN raw.devices, n # "clock"
       PROVE  /\ DirectoryDevice(n).id \in DOMAIN devices
              /\ devices[DirectoryDevice(n).id].name = n
              /\ DirectoryDevice(n).capabilities = devices[DirectoryDevice(n).id].capabilities
              /\ DirectoryDevice(n).events = devices[DirectoryDevice(n).id].events
              /\ DirectoryDevice(n).capabilities = raw.devices[n].capabilities \cap Declarable
              /\ DOMAIN DirectoryDevice(n).events = raw.devices[n].events
  <2>1. PICK d : d = Rank(n, Kept)
    OBVIOUS
  <2>2. d \in 1..m /\ devices[d] = DeviceDef(n) /\ devices[d].name = n
    BY <1>1, <1>2, <1>6, <1>12, <2>1
  <2>3. \A i : i \in Called(n) <=> i = d
    BY <1>2, <1>5, <1>9, <1>12, <2>1, <2>2
  <2>4. (CHOOSE i \in Called(n) : \A j \in Called(n) : j =< i) = d
    BY <2>2, <2>3
  <2>5. DirectoryDevice(n) = mid[d]
    BY <1>4, <2>2, <2>4 DEF DirectoryDevice
  <2>6. mid[d] = [id |-> d, name |-> devices[d].name, capabilities |-> devices[d].capabilities,
                  events |-> devices[d].events]
    BY <1>2, <1>3, <2>2
  <2>7. /\ devices[d].capabilities = raw.devices[n].capabilities \cap Declarable
        /\ DOMAIN devices[d].events = raw.devices[n].events
    BY <2>2 DEF DeviceDef
  <2>8. QED
    BY <1>2, <2>2, <2>5, <2>6, <2>7
<1>13. QED
  BY <1>10, <1>11, <1>12

-----------------------------------------------------------------------------
(* Requests *)

(* What queues and what does not.                                          *)
LEMMA AnswersAre ==
  /\ \A status : Answer(status).queue = << >> /\ Answer(status).status = status
  /\ \A r : Queued(r).queue = <<r>> /\ Queued(r).queue # << >> /\ Queued(r).status = 202
  /\ Malformed400.queue = << >> /\ Malformed400.status = 400
<1>1. \A r : <<r>> # << >>
  OBVIOUS
<1>2. QED
  BY <1>1 DEF Answer, Queued, Malformed400

(* A body that sets a capability, and one with another intent.             *)
Settable(entry, v) ==
  /\ OneKey(v) /\ KeyOf(v) \in entry.capabilities \cap Writable /\ ValueOk(KeyOf(v), v.value[KeyOf(v)])

Intended(entry, body) ==
  /\ KeyOf(body) \in DOMAIN IntentKind
  /\ IntentKind[KeyOf(body)] \in entry.capabilities \cap Writable
  /\ PayloadOk(KeyOf(body), body.value[KeyOf(body)])

(* What an answer is when a request may be granted, and when not.          *)
Grants(a, ok, request) ==
  /\ ok => a = Queued(request)
  /\ ~ok => a.queue = << >> /\ a.status # 202

(* An intent is granted exactly if the device may do it and the payload    *)
(* fits.                                                                   *)
LEMMA SetAnswered ==
  ASSUME NEW entry, NEW v
  PROVE  Grants(parse_set(entry, v), Settable(entry, v), Device(entry, "set", KeyOf(v)))
  BY AnswersAre DEF Grants, parse_set, Settable, May

LEMMA IntentAnswered ==
  ASSUME NEW entry, NEW body
  PROVE  /\ KeyOf(body) = "set" =>
              Grants(parse_intent(entry, body), OneKey(body) /\ Settable(entry, body.value.set),
                     Device(entry, "set", KeyOf(body.value.set)))
         /\ KeyOf(body) # "set" =>
              Grants(parse_intent(entry, body), OneKey(body) /\ Intended(entry, body),
                     Device(entry, KeyOf(body), IntentKind[KeyOf(body)]))
<1>1. "set" \notin DOMAIN IntentKind
  BY DEF IntentKind
<1>2. CASE ~OneKey(body)
  BY <1>2, AnswersAre DEF parse_intent, Grants
<1>3. CASE OneKey(body) /\ KeyOf(body) = "set"
  <2>1. parse_intent(entry, body) = parse_set(entry, body.value.set)
    BY <1>1, <1>3 DEF parse_intent
  <2>2. QED
    BY <1>3, <2>1, SetAnswered DEF Grants
<1>4. CASE OneKey(body) /\ KeyOf(body) \in DOMAIN IntentKind
  <2>1. parse_intent(entry, body) =
          IF ~May(entry, IntentKind[KeyOf(body)]) THEN Answer(422)
          ELSE IF ~PayloadOk(KeyOf(body), body.value[KeyOf(body)]) THEN Malformed400
          ELSE Queued(Device(entry, KeyOf(body), IntentKind[KeyOf(body)]))
    BY <1>1, <1>4 DEF parse_intent
  <2>2. QED
    BY <1>1, <1>4, <2>1, AnswersAre DEF Grants, Intended, May
<1>5. CASE OneKey(body) /\ KeyOf(body) # "set" /\ KeyOf(body) \notin DOMAIN IntentKind
  <2>1. parse_intent(entry, body) = Malformed400
    BY <1>5 DEF parse_intent
  <2>2. QED
    BY <1>5, <2>1, AnswersAre DEF Grants, Intended
<1>6. QED
  BY <1>2, <1>3, <1>4, <1>5

ToIntent(q) == Len(q.path) = 3 /\ q.path[1] = "devices" /\ q.path[3] = "intent"
ToEvent(q)  == Len(q.path) = 4 /\ q.path[1] = "devices" /\ q.path[3] = "events"
ToScene(q)  == Len(q.path) = 3 /\ q.path[1] = "scenes" /\ q.path[3] = "activate"

(* The routes by the segments of a path.                                   *)
LEMMA ShapesAre ==
  ASSUME NEW q \in Requests
  PROVE  /\ Matches(q.path, <<"devices", "*", "intent">>) <=> ToIntent(q)
         /\ Matches(q.path, <<"devices", "*", "events", "*">>) <=> ToEvent(q)
         /\ Matches(q.path, <<"scenes", "*", "activate">>) <=> ToScene(q)
         /\ \A shape \in GetRoutes : Matches(q.path, shape) => Len(q.path) \in {1, 2}
<1>1. PICK p : p = q.path
  OBVIOUS
<1>2. p \in Seq({p[i] : i \in DOMAIN p})
  BY <1>1, ApiAssumption DEF IsSeq
<1>3. DOMAIN p = 1..Len(p) /\ Len(p) \in Nat
  BY <1>2, LenProperties
<1>4. Matches(p, <<"devices", "*", "intent">>) <=> Len(p) = 3 /\ p[1] = "devices" /\ p[3] = "intent"
  <2>1. CASE Len(p) = 3
    <3>1. \A i : i \in DOMAIN p <=> i = 1 \/ i = 2 \/ i = 3
      BY <1>3, <2>1
    <3>2. QED
      BY <2>1, <3>1 DEF Matches
  <2>2. QED
    BY <2>1 DEF Matches
<1>5. Matches(p, <<"scenes", "*", "activate">>) <=> Len(p) = 3 /\ p[1] = "scenes" /\ p[3] = "activate"
  <2>1. CASE Len(p) = 3
    <3>1. \A i : i \in DOMAIN p <=> i = 1 \/ i = 2 \/ i = 3
      BY <1>3, <2>1
    <3>2. QED
      BY <2>1, <3>1 DEF Matches
  <2>2. QED
    BY <2>1 DEF Matches
<1>6. Matches(p, <<"devices", "*", "events", "*">>) <=> Len(p) = 4 /\ p[1] = "devices" /\ p[3] = "events"
  <2>1. CASE Len(p) = 4
    <3>1. \A i : i \in DOMAIN p <=> i = 1 \/ i = 2 \/ i = 3 \/ i = 4
      BY <1>3, <2>1
    <3>2. QED
      BY <2>1, <3>1 DEF Matches
  <2>2. QED
    BY <2>1 DEF Matches
<1>7. \A shape \in GetRoutes : Len(shape) = 1 \/ Len(shape) = 2
  BY DEF GetRoutes
<1>8. \A shape \in GetRoutes : Matches(p, shape) => Len(p) \in {1, 2}
  BY <1>7 DEF Matches
<1>9. QED
  BY <1>1, <1>4, <1>5, <1>6, <1>8 DEF ToIntent, ToEvent, ToScene

Refuses(a) == a.queue = << >> /\ a.status # 202

(* One route for every path, and none for most.                            *)
LEMMA Routed ==
  ASSUME NEW q \in Requests
  PROVE  /\ q.method # "POST" \/ ~(ToIntent(q) \/ ToEvent(q) \/ ToScene(q)) => Refuses(handle(q))
         /\ q.method = "POST" /\ ToIntent(q) =>
              handle(q) = IF HasDevice(q.path[2]) THEN parse_intent(DirectoryDevice(q.path[2]), q.body)
                          ELSE Answer(404)
         /\ q.method = "POST" /\ ToEvent(q) => handle(q) = fire_event(q.path[2], q.path[4])
         /\ q.method = "POST" /\ ToScene(q) => handle(q) = activate(q.path[2])
<1> DEFINE get == \E shape \in GetRoutes : Matches(q.path, shape)
           post == \E shape \in PostRoutes : Matches(q.path, shape)
<1>1. handle(q) = IF get THEN (IF q.method = "GET" THEN Read(q.path) ELSE Answer(405))
                  ELSE IF post THEN (IF q.method = "POST" THEN Write(q.path, q.body) ELSE Answer(405))
                  ELSE Answer(404)
  BY DEF handle
<1>2. post <=> ToIntent(q) \/ ToEvent(q) \/ ToScene(q)
  <2>1. post <=> \/ Matches(q.path, <<"devices", "*", "intent">>)
                 \/ Matches(q.path, <<"devices", "*", "events", "*">>)
                 \/ Matches(q.path, <<"scenes", "*", "activate">>)
    BY DEF PostRoutes
  <2>2. QED
    BY <2>1, ShapesAre
<1>3. get => ~(ToIntent(q) \/ ToEvent(q) \/ ToScene(q))
  BY ShapesAre DEF ToIntent, ToEvent, ToScene
<1>4. Refuses(Answer(404)) /\ Refuses(Answer(405)) /\ Refuses(Read(q.path))
  <2>1. Refuses(Answer(404)) /\ Refuses(Answer(405)) /\ Refuses(Answer(200))
    BY AnswersAre DEF Refuses
  <2>2. Read(q.path) = Answer(200) \/ Read(q.path) = Answer(404)
    <3> DEFINE known == Len(q.path) = 2 => CASE q.path[1] = "devices" -> HasDevice(q.path[2])
                                             [] q.path[1] = "scenes"  -> HasScene(q.path[2])
                                             [] q.path[1] = "rules"   -> HasRule(q.path[2])
    <3>1. Read(q.path) = Found(known, Answer(200))
      BY DEF Read
    <3> HIDE DEF known
    <3>2. Found(known, Answer(200)) = IF known THEN Answer(200) ELSE Answer(404)
      BY DEF Found
    <3>3. QED
      BY <3>1, <3>2
  <2>3. QED
    BY <2>1, <2>2
<1>5. /\ ToIntent(q) => Write(q.path, q.body) =
           IF HasDevice(q.path[2]) THEN parse_intent(DirectoryDevice(q.path[2]), q.body) ELSE Answer(404)
      /\ ToEvent(q) => Write(q.path, q.body) = fire_event(q.path[2], q.path[4])
      /\ ToScene(q) => Write(q.path, q.body) = activate(q.path[2])
  <2>1. ToIntent(q) => ~ToEvent(q) /\ ~ToScene(q)
    BY DEF ToIntent, ToEvent, ToScene
  <2>2. ToEvent(q) => ~ToScene(q)
    BY DEF ToEvent, ToScene
  <2>3. QED
    BY <2>1, <2>2, ShapesAre DEF Write
<1> HIDE DEF get, post
<1>6. QED
  BY <1>1, <1>2, <1>3, <1>4, <1>5

(* What the engine is handed is about what was asked for.                  *)
Faithful(h, q) ==
  /\ h.to = "scene" => scenes[h.scene].name = q.path[2]
  /\ h.to # "scene" => h.device \in DOMAIN devices /\ NameOf(h.device) = q.path[2]
  /\ h.to = "device" => h.kind \in devices[h.device].capabilities \cap Writable
  /\ h.to = "action" => devices[h.device].events[q.path[4]] = h.action

Answers(q) ==
  \/ Refuses(handle(q)) /\ ~(Deserves(q) /\ q.path[2] # "clock")
  \/ \E h : handle(q) = Queued(h) /\ Deserves(q) /\ Faithful(h, q)

(* Route by route: what is granted is what is deserved, and about it.      *)
LEMMA IntentsAnswered ==
  ASSUME Compiled, stage = "running", NEW q \in Requests, q.method = "POST", ToIntent(q)
  PROVE  Answers(q)
<1> DEFINE n == q.path[2]
           body == q.body
           entry == DirectoryDevice(n)
           key == KeyOf(body)
<1>1. Deserves(q) <=>
        /\ OneKey(body)
        /\ \E kind \in Writable :
             /\ Declares(n, kind)
             /\ IF key = "set"
                THEN /\ OneKey(body.value.set) /\ KeyOf(body.value.set) = kind
                     /\ ValueOk(kind, body.value.set.value[kind])
                ELSE /\ key \in DOMAIN IntentKind /\ IntentKind[key] = kind
                     /\ PayloadOk(key, body.value[key])
  <2>1. ~ToEvent(q) /\ ~ToScene(q)
    BY DEF ToIntent, ToEvent, ToScene
  <2>2. QED
    BY <2>1, ShapesAre DEF Deserves
<1>2. Deserves(q) => n \in DOMAIN raw.devices
  BY <1>1 DEF Declares
<1>3. handle(q) = IF HasDevice(n) THEN parse_intent(entry, body) ELSE Answer(404)
  BY Routed
<1>4. /\ key = "set" =>
           Grants(parse_intent(entry, body), OneKey(body) /\ Settable(entry, body.value.set),
                  Device(entry, "set", KeyOf(body.value.set)))
      /\ key # "set" =>
           Grants(parse_intent(entry, body), OneKey(body) /\ Intended(entry, body),
                  Device(entry, key, IntentKind[key]))
  BY IntentAnswered
<1>5. CASE ~HasDevice(n)
  <2>1. n \notin DOMAIN raw.devices
    BY <1>5, DirectoryIs
  <2>2. Refuses(handle(q))
    BY <1>3, <1>5, AnswersAre DEF Refuses
  <2>3. QED
    BY <1>2, <2>1, <2>2 DEF Answers
<1>6. CASE n = "clock"
  <2>1. HasDevice(n) /\ entry = Clock
    BY <1>6, DirectoryIs
  <2>2. entry.capabilities \cap Writable = {}
    BY <2>1 DEF Clock, Writable
  <2>3. ~Settable(entry, body.value.set) /\ ~Intended(entry, body)
    BY <2>2 DEF Settable, Intended
  <2>4. Refuses(handle(q))
    BY <1>3, <1>4, <2>1, <2>3 DEF Grants, Refuses
  <2>5. QED
    BY <1>6, <2>4 DEF Answers
<1>7. CASE n \in DOMAIN raw.devices /\ n # "clock"
  <2>1. /\ HasDevice(n) /\ entry.id \in DOMAIN devices /\ NameOf(entry.id) = n
        /\ entry.capabilities = devices[entry.id].capabilities
        /\ entry.capabilities = raw.devices[n].capabilities \cap Declarable
    BY <1>7, DirectoryIs DEF NameOf
  <2>2. \A kind : Declares(n, kind) <=> kind \in entry.capabilities
    BY <1>7, <2>1 DEF Declares
  <2>3. handle(q) = parse_intent(entry, body)
    BY <1>3, <2>1
  <2>4. \A intent, kind : kind \in entry.capabilities \cap Writable => Faithful(Device(entry, intent, kind), q)
    BY <2>1 DEF Faithful, Device
  <2> HIDE DEF entry, body, n
  <2>5. CASE key = "set"
    <3>1. Deserves(q) <=> OneKey(body) /\ Settable(entry, body.value.set)
      BY <1>1, <2>2, <2>5 DEF Settable
    <3>2. CASE OneKey(body) /\ Settable(entry, body.value.set)
      <4>1. handle(q) = Queued(Device(entry, "set", KeyOf(body.value.set)))
        BY <1>4, <2>3, <2>5, <3>2 DEF Grants
      <4>2. Faithful(Device(entry, "set", KeyOf(body.value.set)), q)
        BY <2>4, <3>2 DEF Settable
      <4>3. QED
        BY <3>1, <3>2, <4>1, <4>2 DEF Answers
    <3>3. CASE ~(OneKey(body) /\ Settable(entry, body.value.set))
      BY <1>4, <2>3, <2>5, <3>1, <3>3 DEF Grants, Refuses, Answers
    <3>4. QED
      BY <3>2, <3>3
  <2>6. CASE key # "set"
    <3>1. Deserves(q) <=> OneKey(body) /\ Intended(entry, body)
      BY <1>1, <2>2, <2>6 DEF Intended
    <3>2. CASE OneKey(body) /\ Intended(entry, body)
      <4>1. handle(q) = Queued(Device(entry, key, IntentKind[key]))
        BY <1>4, <2>3, <2>6, <3>2 DEF Grants
      <4>2. Faithful(Device(entry, key, IntentKind[key]), q)
        BY <2>4, <3>2 DEF Intended
      <4>3. QED
        BY <3>1, <3>2, <4>1, <4>2 DEF Answers
    <3>3. CASE ~(OneKey(body) /\ Intended(entry, body))
      BY <1>4, <2>3, <2>6, <3>1, <3>3 DEF Grants, Refuses, Answers
    <3>4. QED
      BY <3>2, <3>3
  <2>7. QED
    BY <2>5, <2>6
<1>8. QED
  BY <1>5, <1>6, <1>7, DirectoryIs

LEMMA EventsAnswered ==
  ASSUME Compiled, stage = "running", NEW q \in Requests, q.method = "POST", ToEvent(q)
  PROVE  Answers(q)
<1> DEFINE n == q.path[2]
           e == q.path[4]
           entry == DirectoryDevice(n)
           request == [to |-> "action", device |-> entry.id, action |-> entry.events[e]]
<1>1. Deserves(q) <=> n \in DOMAIN raw.devices /\ e \in raw.devices[n].events
  <2>1. ~ToIntent(q) /\ ~ToScene(q)
    BY DEF ToIntent, ToEvent, ToScene
  <2>2. QED
    BY <2>1, ShapesAre DEF Deserves
<1>2. handle(q) = Found(HasDevice(n) /\ e \in DOMAIN entry.events, Queued(request))
  BY Routed DEF fire_event
<1>3. /\ HasDevice(n) /\ e \in DOMAIN entry.events => handle(q) = Queued(request)
      /\ ~(HasDevice(n) /\ e \in DOMAIN entry.events) => Refuses(handle(q))
  BY <1>2, AnswersAre DEF Found, Refuses
<1>4. CASE ~HasDevice(n)
  BY <1>1, <1>3, <1>4, DirectoryIs DEF Answers
<1>5. CASE n = "clock"
  <2>1. DOMAIN entry.events = {}
    BY <1>5, DirectoryIs DEF Clock
  <2>2. QED
    BY <1>3, <1>5, <2>1 DEF Answers
<1>6. CASE n \in DOMAIN raw.devices /\ n # "clock"
  <2>1. /\ HasDevice(n) /\ entry.id \in DOMAIN devices /\ NameOf(entry.id) = n
        /\ entry.events = devices[entry.id].events /\ DOMAIN entry.events = raw.devices[n].events
    BY <1>6, DirectoryIs DEF NameOf
  <2>2. Faithful(request, q)
    BY <2>1 DEF Faithful
  <2> HIDE DEF request, entry
  <2>3. QED
    BY <1>1, <1>3, <1>6, <2>1, <2>2 DEF Answers
<1>7. QED
  BY <1>4, <1>5, <1>6, DirectoryIs

LEMMA ScenesAnswered ==
  ASSUME Compiled, stage = "running", NEW q \in Requests, q.method = "POST", ToScene(q)
  PROVE  Answers(q)
<1> DEFINE n == q.path[2]
           found == CHOOSE i \in DOMAIN scenes : scenes[i].name = n
           request == [to |-> "scene", scene |-> found]
<1>1. Deserves(q) <=> n \in DOMAIN raw.scenes
  <2>1. ~ToIntent(q) /\ ~ToEvent(q)
    BY DEF ToIntent, ToEvent, ToScene
  <2>2. QED
    BY <2>1, ShapesAre DEF Deserves
<1>2. handle(q) = Found(HasScene(n), Queued(request))
  BY Routed DEF activate
<1>3. /\ HasScene(n) => handle(q) = Queued(request)
      /\ ~HasScene(n) => Refuses(handle(q))
  BY <1>2, AnswersAre DEF Found, Refuses
<1>4. HasScene(n) <=> n \in DOMAIN raw.scenes
  BY ScenesAre DEF HasScene, Accepted
<1>5. HasScene(n) => scenes[found].name = n
  BY DEF HasScene
<1>6. HasScene(n) => Faithful(request, q)
  BY <1>5 DEF Faithful
<1> HIDE DEF request
<1>7. QED
  BY <1>1, <1>3, <1>4, <1>6 DEF Answers

LEMMA AllAnswered ==
  ASSUME Compiled, stage = "running", NEW q \in Requests
  PROVE  Answers(q)
<1>1. CASE q.method = "POST" /\ (ToIntent(q) \/ ToEvent(q) \/ ToScene(q))
  BY <1>1, IntentsAnswered, EventsAnswered, ScenesAnswered
<1>2. CASE ~(q.method = "POST" /\ (ToIntent(q) \/ ToEvent(q) \/ ToScene(q)))
  <2>1. ~Deserves(q)
    BY <1>2, ShapesAre DEF Deserves
  <2>2. QED
    BY <1>2, <2>1, Routed DEF Answers
<1>3. QED
  BY <1>1, <1>2

-----------------------------------------------------------------------------
(* The queue *)

(* The request answered last is answered as its directory has it, and what *)
(* it queued is the newest thing the engine has or will be handed.         *)
Answered ==
  /\ IsSeq(inbound) /\ IsSeq(events)
  /\ served # NONE => stage = "running" /\
       \E q \in Requests :
         /\ served.request = q
         /\ \/ served.status = 503 /\ gone /\ handle(q).queue # << >>
            \/ /\ served.status = handle(q).status
               /\ handle(q).queue # << >> => handle(q).queue = <<Handed[Len(Handed)]>>

(* Facts about sequences of whatever.                                      *)
LEMMA SeqsAre ==
  /\ \A S : \A s \in Seq(S) : IsSeq(s)
  /\ IsSeq(<< >>)
  /\ \A s, t : IsSeq(s) /\ IsSeq(t) => /\ IsSeq(s \o t)
                                       /\ s \o << >> = s /\ << >> \o s = s
  /\ \A s : IsSeq(s) => Len(s) \in Nat
<1>1. ASSUME NEW S, NEW s \in Seq(S) PROVE IsSeq(s)
  <2>1. s \in [1..Len(s) -> S] /\ DOMAIN s = 1..Len(s) /\ Len(s) \in Nat
    BY LenProperties
  <2>2. PICK T : T = {s[i] : i \in DOMAIN s}
    OBVIOUS
  <2>3. s \in [1..Len(s) -> T]
    BY <2>1, <2>2
  <2>4. s \in Seq(T)
    BY <2>1, <2>3, SeqDef
  <2>5. QED
    BY <2>2, <2>4 DEF IsSeq
<1>2. IsSeq(<< >>)
  <2>1. << >> \in Seq({})
    OBVIOUS
  <2>2. QED
    BY <1>1, <2>1
<1>3. ASSUME NEW s, NEW t, IsSeq(s), IsSeq(t)
      PROVE  IsSeq(s \o t) /\ s \o << >> = s /\ << >> \o s = s
  <2>1. PICK S : s \in Seq(S)
    BY <1>3 DEF IsSeq
  <2>2. PICK T : t \in Seq(T)
    BY <1>3 DEF IsSeq
  <2>3. PICK U : U = S \cup T
    OBVIOUS
  <2>4. s \in Seq(U) /\ t \in Seq(U)
    BY <2>1, <2>2, <2>3
  <2>5. s \o t \in Seq(U)
    BY <2>4, ConcatProperties
  <2>6. s \o << >> = s /\ << >> \o s = s
    BY <2>4, ConcatEmptySeq
  <2>7. QED
    BY <1>1, <2>5, <2>6
<1>4. ASSUME NEW s, IsSeq(s) PROVE Len(s) \in Nat
  BY <1>4, LenProperties DEF IsSeq
<1>5. QED
  BY <1>1, <1>2, <1>3, <1>4

(* What is queued last is last.                                            *)
LEMMA LastIs ==
  ASSUME NEW s, NEW t, NEW h, IsSeq(s), IsSeq(t)
  PROVE  /\ IsSeq(t \o <<h>>)
         /\ (s \o (t \o <<h>>))[Len(s \o (t \o <<h>>))] = h
<1>1. PICK S : s \in Seq(S)
  BY DEF IsSeq
<1>2. PICK T : t \in Seq(T)
  BY DEF IsSeq
<1>3. PICK U : U = S \cup T \cup {h}
  OBVIOUS
<1>4. s \in Seq(U) /\ t \in Seq(U) /\ <<h>> \in Seq(U)
  BY <1>1, <1>2, <1>3
<1>5. PICK m, n \in Nat : m = Len(s) /\ n = Len(t)
  BY <1>4, LenProperties
<1>6. /\ t \o <<h>> \in Seq(U) /\ Len(t \o <<h>>) = n + 1
      /\ (t \o <<h>>)[n + 1] = h
  <2>1. Len(<<h>>) = 1 /\ <<h>>[1] = h
    OBVIOUS
  <2>2. /\ t \o <<h>> \in Seq(U) /\ Len(t \o <<h>>) = n + 1
        /\ \A i \in 1..(n + 1) : (t \o <<h>>)[i] = IF i =< n THEN t[i] ELSE <<h>>[i - n]
    BY <1>4, <1>5, <2>1, ConcatProperties
  <2>3. n + 1 \in 1..(n + 1) /\ ~(n + 1 =< n) /\ (n + 1) - n = 1
    OBVIOUS
  <2>4. (t \o <<h>>)[n + 1] = <<h>>[(n + 1) - n]
    BY <2>2, <2>3
  <2>5. QED
    BY <2>1, <2>2, <2>3, <2>4
<1>7. PICK u : u = t \o <<h>>
  OBVIOUS
<1>8. u \in Seq(U) /\ Len(u) = n + 1 /\ u[n + 1] = h
  BY <1>6, <1>7
<1>9. /\ Len(s \o u) = m + (n + 1)
      /\ \A i \in 1..(m + (n + 1)) : (s \o u)[i] = IF i =< m THEN s[i] ELSE u[i - m]
  <2>1. /\ Len(s \o u) = Len(s) + Len(u)
        /\ \A i \in 1..(Len(s) + Len(u)) : (s \o u)[i] = IF i =< Len(s) THEN s[i] ELSE u[i - Len(s)]
    BY <1>4, <1>8, ConcatProperties
  <2>2. QED
    BY <1>5, <1>8, <2>1
<1>10. m + (n + 1) \in 1..(m + (n + 1)) /\ ~(m + (n + 1) =< m) /\ (m + (n + 1)) - m = n + 1
  OBVIOUS
<1>11. (s \o u)[m + (n + 1)] = u[(m + (n + 1)) - m]
  BY <1>9, <1>10
<1>12. (s \o u)[Len(s \o u)] = h
  BY <1>8, <1>9, <1>10, <1>11
<1>13. QED
  BY <1>6, <1>7, <1>12, SeqsAre

(* An answer depends on the tables alone, which no longer change.          *)
LEMMA SameHandle == ASSUME UNCHANGED vars, NEW CONSTANT q PROVE handle(q)' = handle(q)
<1>0. UNCHANGED <<devices, scenes, rules>>
  BY DEF vars
<1>1. \A n : Called(n)' = Called(n) /\ DirectoryDevice(n)' = DirectoryDevice(n) /\ HasDevice(n)' = HasDevice(n)
  BY <1>0 DEF Called, DirectoryDevice, HasDevice, Entries, Clock, ClockDevice
<1>2. \A n : HasScene(n)' = HasScene(n) /\ HasRule(n)' = HasRule(n)
  BY <1>0 DEF HasScene, HasRule
<1>3. Read(q.path)' = Read(q.path)
  BY <1>1, <1>2 DEF Read
<1>4. Write(q.path, q.body)' = Write(q.path, q.body)
  BY <1>0, <1>1, <1>2 DEF Write, fire_event, activate
<1>5. QED
  BY <1>3, <1>4 DEF handle

(* Answered is inductive: a tick moves what is queued, but keeps the order. *)
LEMMA AnsweredNext ==
  ASSUME Compiled, Answered, [ApiNext]_allVars
  PROVE  Answered'
<1>1. CASE CompileNext /\ UNCHANGED apiVars
  <2>1. stage # "running"
    BY <1>1 DEF CompileNext, Adapters, Devices, Schedules, LowerScenes, LowerRules, Conclude, Build
  <2>2. served = NONE /\ served' = NONE /\ inbound' = inbound /\ events' = events
    BY <1>1, <2>1 DEF Answered, apiVars
  <2>3. QED
    BY <2>2 DEF Answered, IsSeq
<1>2. ASSUME NEW q \in Requests, Serve(q) PROVE Answered'
  <2>1. /\ stage = "running" /\ stage' = stage /\ events' = events /\ gone' = gone
        /\ UNCHANGED vars
    BY <1>2 DEF Serve, vars
  <2>2. handle(q)' = handle(q)
    BY <2>1, SameHandle
  <2>3. IsSeq(events)'
    BY <2>1 DEF Answered, IsSeq
  <2>4. CASE handle(q).queue # << >> /\ gone
    <3>1. served' = [request |-> q, status |-> 503] /\ inbound' = inbound
      BY <1>2, <2>4 DEF Serve
    <3>2. IsSeq(inbound)'
      BY <3>1 DEF Answered, IsSeq
    <3>3. served'.request = q /\ served'.status = 503
      BY <3>1
    <3>4. QED
      BY <2>1, <2>2, <2>3, <2>4, <3>2, <3>3 DEF Answered
  <2>5. CASE ~(handle(q).queue # << >> /\ gone)
    <3>1. served' = [request |-> q, status |-> handle(q).status] /\ inbound' = inbound \o handle(q).queue
      BY <1>2, <2>5 DEF Serve
    <3>2. served'.request = q /\ served'.status = handle(q).status
      BY <3>1
    <3>3. CASE handle(q).queue = << >>
      <4>1. inbound' = inbound
        BY <3>1, <3>3, SeqsAre DEF Answered
      <4>2. IsSeq(inbound)'
        BY <4>1 DEF Answered, IsSeq
      <4>3. QED
        BY <2>1, <2>2, <2>3, <3>2, <3>3, <4>2 DEF Answered
    <3>4. CASE handle(q).queue # << >>
      <4>1. PICK h : handle(q).queue = <<h>>
        BY <2>1, <3>4, AllAnswered, AnswersAre DEF Answers, Refuses
      <4>2. PICK t : t = inbound \o <<h>>
        OBVIOUS
      <4>3. IsSeq(t) /\ (events \o t)[Len(events \o t)] = h
        BY <4>2, LastIs DEF Answered
      <4>4. inbound' = t
        BY <3>1, <4>1, <4>2
      <4>5. IsSeq(inbound)'
        BY <4>3, <4>4 DEF IsSeq
      <4>6. Handed' = events \o t
        BY <2>1, <4>4 DEF Handed
      <4>7. <<Handed[Len(Handed)]>>' = <<h>>
        BY <4>3, <4>6
      <4>8. QED
        BY <2>1, <2>2, <2>3, <3>2, <4>1, <4>5, <4>7 DEF Answered
    <3>5. QED
      BY <3>3, <3>4
  <2>6. QED
    BY <2>4, <2>5
<1>3. CASE Tick \/ Shutdown \/ UNCHANGED allVars
  <2>1. UNCHANGED vars /\ served' = served /\ (gone => gone')
    BY <1>3 DEF Tick, Shutdown, allVars, apiVars
  <2>2. Handed' = Handed /\ IsSeq(inbound)' /\ IsSeq(events)'
    <3>1. CASE Tick
      <4>1. PICK s : s = events \o inbound
        OBVIOUS
      <4>2. IsSeq(s) /\ s \o << >> = s
        BY <4>1, SeqsAre DEF Answered
      <4>3. events' = s /\ inbound' = << >>
        BY <3>1, <4>1 DEF Tick
      <4>4. IsSeq(events)' /\ IsSeq(inbound)'
        BY <4>2, <4>3, SeqsAre DEF IsSeq
      <4>5. QED
        BY <4>1, <4>2, <4>3, <4>4 DEF Handed
    <3>2. CASE Shutdown \/ UNCHANGED allVars
      <4>1. events' = events /\ inbound' = inbound
        BY <3>2 DEF Shutdown, allVars, apiVars
      <4>2. QED
        BY <4>1 DEF Handed, Answered, IsSeq
    <3>3. QED
      BY <1>3, <3>1, <3>2
  <2>3. CASE served = NONE
    BY <2>1, <2>2, <2>3 DEF Answered
  <2>4. CASE served # NONE
    <3>1. PICK q \in Requests :
            /\ served.request = q
            /\ \/ served.status = 503 /\ gone /\ handle(q).queue # << >>
               \/ /\ served.status = handle(q).status
                  /\ handle(q).queue # << >> => handle(q).queue = <<Handed[Len(Handed)]>>
      BY <2>4 DEF Answered
    <3>2. stage = "running" /\ stage' = stage
      BY <2>1, <2>4 DEF Answered, vars
    <3>3. handle(q)' = handle(q)
      BY <2>1, SameHandle
    <3>4. <<Handed[Len(Handed)]>>' = <<Handed[Len(Handed)]>>
      BY <2>2
    <3>5. QED
      BY <2>1, <2>2, <3>1, <3>2, <3>3, <3>4 DEF Answered
  <2>5. QED
    BY <2>3, <2>4
<1>4. QED
  BY <1>1, <1>2, <1>3 DEF ApiNext

(* Answered, and what the routes grant, are ServedFaithfully.              *)
LEMMA AnsweredServes == ASSUME Compiled, Answered PROVE ServedFaithfully
<1> SUFFICES ASSUME served # NONE PROVE ServedFaithfully
  BY DEF ServedFaithfully
<1>1. PICK q \in Requests :
        /\ served.request = q
        /\ \/ served.status = 503 /\ gone /\ handle(q).queue # << >>
           \/ /\ served.status = handle(q).status
              /\ handle(q).queue # << >> => handle(q).queue = <<Handed[Len(Handed)]>>
  BY DEF Answered
<1>2. stage = "running"
  BY DEF Answered
<1>3. PICK last : last = Handed[Len(Handed)]
  OBVIOUS
<1>4. CASE Refuses(handle(q)) /\ ~(Deserves(q) /\ q.path[2] # "clock")
  BY <1>1, <1>4 DEF ServedFaithfully, Refuses
<1>5. CASE \E h : handle(q) = Queued(h) /\ Deserves(q) /\ Faithful(h, q)
  <2>1. PICK h : handle(q) = Queued(h) /\ Deserves(q) /\ Faithful(h, q)
    BY <1>5
  <2>2. handle(q).queue = <<h>> /\ handle(q).queue # << >> /\ handle(q).status = 202
    BY <2>1, AnswersAre
  <2>3. CASE served.status = 503 /\ gone
    BY <1>1, <2>3 DEF ServedFaithfully
  <2>4. CASE served.status = 202 /\ <<h>> = <<last>>
    <3>1. Handed[Len(Handed)] = h
      BY <1>3, <2>4
    <3>2. Faithful(Handed[Len(Handed)], q)
      BY <2>1, <3>1 DEF Faithful
    <3>3. QED
      BY <1>1, <2>1, <2>4, <3>2 DEF ServedFaithfully, Faithful
  <2>5. QED
    BY <1>1, <1>3, <2>2, <2>3, <2>4
<1>6. QED
  BY <1>1, <1>2, <1>4, <1>5, AllAnswered DEF Answers

-----------------------------------------------------------------------------
(* What the compiler reports is exactly what is wrong with the             *)
(* configuration: every faulty place is blamed, a sound one only when a    *)
(* device was dropped, and it is refused exactly when something is wrong   *)
(* (compile::compile).                                                     *)
THEOREM ReportsFaults == Spec => []FaultsReported
<1>1. Compiled => FaultsReported
  BY CompiledFaults
<1>2. QED
  BY <1>1, AlwaysCompiled, PTL

(* What is built runs the configuration: slots, bindings, capabilities,    *)
(* references, qualifiers and the number of commands (build_engine).       *)
THEOREM BuildsRunnable == Spec => []Runnable
<1>1. Compiled => Runnable
  BY CompiledRuns
<1>2. QED
  BY <1>1, AlwaysCompiled, PTL

(* The API accepts a write exactly when the configuration lets it, and     *)
(* hands the engine what was asked for (rest_api/routes.rs).               *)
THEOREM ServesFaithfully == Spec => []ServedFaithfully
<1>1. ApiInit => Answered
  BY SeqsAre DEF ApiInit, Init, Answered
<1>2. Compiled /\ Answered /\ [ApiNext]_allVars => Answered'
  BY AnsweredNext
<1>3. Compiled /\ Answered => ServedFaithfully
  BY AnsweredServes
<1>4. QED
  BY <1>1, <1>2, <1>3, AlwaysCompiled, PTL DEF Spec

=============================================================================
