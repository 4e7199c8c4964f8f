------------------------------- MODULE Levels -------------------------------
(***************************************************************************)
(* Brightness, which the engine counts in percent and devices in levels:   *)
(* 0 .. 254 for zigbee2mqtt and Matter (adapters/mod.rs), 0 .. 99 for      *)
(* Z-Wave (zwavejs.rs).  A relative step (Engine::                         *)
(* resolve_implicit_state_command) is taken from what was last reported,   *)
(* so the two conversions together decide where a dimmer comes to rest.    *)
(***************************************************************************)
EXTENDS Integers, TLAPS

Percent == 0 .. 100

AtMost(x, n) == IF x < n THEN x ELSE n

pct_to_level(pct) == (AtMost(pct, 100) * 254 + 50) \div 100
level_to_pct(raw) == (AtMost(raw, 254) * 100 + 127) \div 254

pct_to_zwave(pct)   == (AtMost(pct, 100) * 99 + 50) \div 100
zwave_to_pct(level) == (AtMost(level, 99) * 100 + 49) \div 99

(* A fade, from milliseconds to the tenths of a second of a 16-bit field   *)
(* (matter.rs, command_to_cluster).                                        *)
transition_ds(ms) == (ms \div 100) % 65536

(* A step from the reported brightness, in whole percent.                  *)
Stepped(reported, by) ==
  LET sum == reported + by
  IN  IF sum < 0 THEN 0 ELSE AtMost(sum, 100)

(* What the device reports once it has carried the step out.               *)
SteppedLevel(reported, by) == level_to_pct(pct_to_level(Stepped(reported, by)))
SteppedZwave(reported, by) == zwave_to_pct(pct_to_zwave(Stepped(reported, by)))

-----------------------------------------------------------------------------

(* Every percentage has a level on the device's scale, and every reading,  *)
(* in range or not, is reported as a percentage.                           *)
THEOREM LevelsInRange ==
  /\ \A p \in Nat : pct_to_level(p) \in 0 .. 254 /\ pct_to_zwave(p) \in 0 .. 99
  /\ \A l \in Nat : level_to_pct(l) \in Percent /\ zwave_to_pct(l) \in Percent
<1>1. \A p \in Nat : pct_to_level(p) \in 0 .. 254 /\ pct_to_zwave(p) \in 0 .. 99
  BY DEF pct_to_level, pct_to_zwave, AtMost
<1>2. \A l \in Nat : level_to_pct(l) \in Percent /\ zwave_to_pct(l) \in Percent
  BY DEF level_to_pct, zwave_to_pct, AtMost, Percent
<1>3. QED
  BY <1>1, <1>2

(* What the rounding of level_to_pct comes to.                             *)
LEMMA Quotient ==
  ASSUME NEW a \in Nat, NEW q \in Nat, 254 * q <= a, a < 254 * q + 254
  PROVE  a \div 254 = q
OBVIOUS

(* A zigbee2mqtt or Matter dimmer reports exactly the percentage it was    *)
(* told (adapters/mod.rs: level_to_pct is the "Inverse of" pct_to_level).  *)
THEOREM LevelRoundTrip == \A p \in Percent : level_to_pct(pct_to_level(p)) = p
<1>1. SUFFICES ASSUME NEW p \in Percent
               PROVE  level_to_pct(pct_to_level(p)) = p
  OBVIOUS
<1> DEFINE l == pct_to_level(p)
<1>2. l \in Nat /\ 100 * l <= 254 * p + 50 /\ 254 * p + 50 < 100 * l + 100
  BY DEF pct_to_level, AtMost, Percent
<1>3. l <= 254
  BY LevelsInRange DEF Percent
<1>4. 254 * p <= 100 * l + 127 /\ 100 * l + 127 < 254 * p + 254
  BY <1>2 DEF Percent
<1>5. (100 * l + 127) \div 254 = p
  BY <1>2, <1>4, Quotient DEF Percent
<1>6. QED
  BY <1>2, <1>3, <1>5 DEF level_to_pct, AtMost

(* A Z-Wave dimmer does so but for one value: told 50 it reports 51,       *)
(* although zwavejs.rs calls zwave_to_pct the "Inverse of" pct_to_zwave.   *)
THEOREM ZwaveRoundTrip ==
  \A p \in Percent : zwave_to_pct(pct_to_zwave(p)) = IF p = 50 THEN 51 ELSE p
<1>1. SUFFICES ASSUME NEW p \in Percent
               PROVE  zwave_to_pct(pct_to_zwave(p)) = IF p = 50 THEN 51 ELSE p
  OBVIOUS
<1> DEFINE l == pct_to_zwave(p)
<1>2. l \in Nat /\ 100 * l <= 99 * p + 50 /\ 99 * p + 50 < 100 * l + 100 /\ l <= 99
  BY LevelsInRange DEF pct_to_zwave, AtMost, Percent
<1>3. CASE p = 50
  BY <1>3 DEF pct_to_zwave, zwave_to_pct, AtMost
<1>4. CASE p # 50
  <2>1. 99 * p <= 100 * l + 49 /\ 100 * l + 49 < 99 * p + 99
    BY <1>2, <1>4 DEF Percent
  <2>2. (100 * l + 49) \div 99 = p
    BY <1>2, <2>1 DEF Percent
  <2>3. QED
    BY <1>2, <1>4, <2>2 DEF zwave_to_pct, AtMost
<1>5. QED
  BY <1>3, <1>4

(* Every step of a zigbee2mqtt or Matter dimmer goes the way it was asked, *)
(* by exactly that much or to the end of the range.                        *)
THEOREM StepsExact ==
  \A p \in Percent, by \in Int :
     /\ p + by \in Percent => SteppedLevel(p, by) = p + by
     /\ p + by < 0 => SteppedLevel(p, by) = 0
     /\ p + by > 100 => SteppedLevel(p, by) = 100
<1>1. SUFFICES ASSUME NEW p \in Percent, NEW by \in Int
               PROVE  /\ p + by \in Percent => SteppedLevel(p, by) = p + by
                      /\ p + by < 0 => SteppedLevel(p, by) = 0
                      /\ p + by > 100 => SteppedLevel(p, by) = 100
  OBVIOUS
<1>2. Stepped(p, by) \in Percent
  BY DEF Stepped, AtMost, Percent
<1>3. SteppedLevel(p, by) = Stepped(p, by)
  BY <1>2, LevelRoundTrip DEF SteppedLevel
<1>4. QED
  BY <1>3 DEF Stepped, AtMost, Percent

(* A Z-Wave dimmer stepped down by one never passes 51: it is told 50 and  *)
(* reports 51 again.  Elsewhere, and upwards, single steps are exact.      *)
THEOREM ZwaveSticks ==
  /\ SteppedZwave(51, -1) = 51
  /\ \A p \in Percent \ {51} : p > 0 => SteppedZwave(p, -1) = p - 1
<1>1. SteppedZwave(51, -1) = 51
  BY DEF SteppedZwave, Stepped, pct_to_zwave, zwave_to_pct, AtMost
<1>2. ASSUME NEW p \in Percent \ {51}, p > 0
      PROVE  SteppedZwave(p, -1) = p - 1
  <2>1. Stepped(p, -1) = p - 1 /\ p - 1 \in Percent /\ p - 1 # 50
    BY <1>2 DEF Stepped, AtMost, Percent
  <2>2. QED
    BY <2>1, ZwaveRoundTrip DEF SteppedZwave
<1>3. QED
  BY <1>1, <1>2

(* The field keeps what fits it.                                           *)
LEMMA Fits == ASSUME NEW x \in Nat, NEW n \in Nat, x < n PROVE x % n = x
OBVIOUS

(* A Matter fade is rounded down to a tenth of a second as long as it fits *)
(* the field; the first that does not becomes an immediate change.         *)
THEOREM FadesFit ==
  /\ \A ms \in Nat : ms < 6553600 => 100 * transition_ds(ms) <= ms /\ ms < 100 * transition_ds(ms) + 100
  /\ transition_ds(6553600) = 0
<1>1. ASSUME NEW ms \in Nat, ms < 6553600
      PROVE  100 * transition_ds(ms) <= ms /\ ms < 100 * transition_ds(ms) + 100
  <2>1. ms \div 100 \in Nat /\ ms \div 100 < 65536
    BY <1>1
  <2>2. transition_ds(ms) = ms \div 100
    BY <2>1, Fits DEF transition_ds
  <2>3. QED
    BY <1>1, <2>2
<1>2. transition_ds(6553600) = 0
  BY DEF transition_ds
<1>3. QED
  BY <1>1, <1>2
=============================================================================
