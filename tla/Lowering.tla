------------------------------ MODULE Lowering ------------------------------
(***************************************************************************)
(* compile/lower.rs: the nodes of rules and scenes (triggers, conditions   *)
(* and commands), checked against what the configuration declares and      *)
(* translated to what the engine runs.                                     *)
(*                                                                         *)
(* A raw node is a record with its verb and its payload's fields; a node   *)
(* whose shape serde or the lowerer refuses (not a single-key map, a       *)
(* payload of the wrong form) has the verb "malformed".  A condition is    *)
(* the set of its nodes: every list collects the errors of all its members *)
(* and lowers if all of them do, so nesting makes no difference here.      *)
(***************************************************************************)
EXTENDS Integers, Sequences, FiniteSets

CONSTANTS
  NONE,
  MaxMillis        \* u64::MAX: the longest duration

BoolKinds    == {"switch", "occupancy", "contact", "water_leak", "smoke", "sun_up"}
NumericKinds == {"brightness", "battery", "color_temperature", "time_of_day", "temperature",
                 "humidity", "illuminance", "power"}
Kind         == BoolKinds \cup NumericKinds \cup {"color", "ir_transmitter"}
Writable     == {"switch", "brightness", "color", "color_temperature", "ir_transmitter"}
(* What a configuration may name: all but the clock's own.                 *)
Declarable   == Kind \ {"time_of_day", "sun_up"}

ASSUME LoweringAssumption == NONE \notin Int \cup Kind /\ MaxMillis \in Nat

(* The fields a node's payload has (ast.rs), an optional one with NONE.    *)
PayloadFields ==
  [event |-> {"device", "event"}, changed |-> {"device", "capability"},
   crosses |-> {"device", "capability", "above", "below"}, reports |-> {"device", "capability"},
   timer |-> {"key"}, schedule |-> {"name"}, command_failed |-> {"device"},
   all |-> {}, any |-> {}, not |-> {}, sun_up |-> {}, switch |-> {"device"}, occupancy_is |-> {"device"},
   compare |-> {"device", "capability", "op"}, color_is |-> {"device", "color"},
   time_after |-> {"time"}, time_before |-> {"time"},
   turn_on |-> {"device"}, turn_off |-> {"device"}, toggle |-> {"device"}, send_ir_code |-> {"device"},
   set_brightness |-> {"device", "transition"}, decrease_brightness |-> {"device"},
   increase_brightness |-> {"device"}, set_color |-> {"device", "color", "transition"},
   set_color_temperature |-> {"device", "kelvin", "mireds", "transition"},
   activate_scene |-> {"name"}, schedule_timer |-> {"key", "after"}, cancel_timer |-> {"key"}]

IsTime(t)     == t \in Nat \X Nat /\ t # NONE
IsDuration(d) == d.n \in Nat /\ d # NONE

(* What serde lets through, of the verbs the lowerer knows.                *)
IsNode(v) ==
  v.verb \in DOMAIN PayloadFields =>
    /\ DOMAIN v = {"verb"} \cup PayloadFields[v.verb]
    /\ \A f \in DOMAIN v :
         /\ f \in {"device", "event", "capability", "op", "name", "color"} => v[f] # NONE
         /\ f \in {"kelvin", "mireds"} => v[f] \in Nat \cup {NONE}
         /\ f = "time" => IsTime(v[f])
         /\ f = "after" => IsDuration(v[f])
         /\ f = "transition" /\ v[f] # NONE => IsDuration(v[f])

-----------------------------------------------------------------------------
(* Literals: the value, or NONE with an error *)

UnitMillis == [ms |-> 1, s |-> 1000, m |-> 60000, h |-> 3600000]

parse_duration(d) ==
  IF d.unit \in DOMAIN UnitMillis /\ d.n =< MaxMillis \div UnitMillis[d.unit]
  THEN d.n * UnitMillis[d.unit] ELSE NONE

(* HH:MM as <<h, m>>, to the minute of the day.                            *)
parse_time(t) == IF t[1] < 24 /\ t[2] < 60 THEN t[1] * 60 + t[2] ELSE NONE

(* "#RRGGBB" or {r, g, b}, both as a triple.                               *)
parse_color(c) == IF \A i \in 1..3 : c[i] \in 0..255 THEN c ELSE NONE

parse_color_temperature(v) ==
  IF (v.kelvin = NONE) = (v.mireds = NONE) THEN NONE
  ELSE IF v.kelvin # NONE
  THEN IF v.kelvin \in 1000..10000 THEN 1000000 \div v.kelvin ELSE NONE
  ELSE IF v.mireds \in 100..1000 THEN v.mireds ELSE NONE

-----------------------------------------------------------------------------
(* Checks *)

(* A node's checks in the order the code makes them.  One that Stops       *)
(* returns at once (the "?" of the code), hiding the later ones; the       *)
(* capability check only reports and goes on.                              *)
Stops(ok, code)   == [ok |-> ok, code |-> code, stops |-> TRUE]
Reports(ok, code) == [ok |-> ok, code |-> code, stops |-> FALSE]

Failing(checks)  == {i \in DOMAIN checks : ~checks[i].ok}
Stopping(checks) == {i \in Failing(checks) : checks[i].stops}
Errors(checks)   == {checks[i].code : i \in {j \in Failing(checks) : \A k \in Stopping(checks) : j =< k}}
Lowers(checks)   == Stopping(checks) = {}

(* lw, the Lowerer: devices (name -> [id, capabilities, events]), the ids  *)
(* of scenes and schedules by name, and the clock's device id.             *)
Known(lw, n) == Stops(n \in DOMAIN lw.devices, "E_UNKNOWN_DEVICE")

Has(lw, n, kind) ==
  Reports(n \in DOMAIN lw.devices => kind \in lw.devices[n].capabilities, "E_MISSING_CAPABILITY")

Capability(name, kinds, code) ==
  IF name \in Declarable THEN Stops(name \in kinds, code) ELSE Stops(FALSE, "E_BAD_CAPABILITY")

Malformed == Stops(FALSE, "E_BAD_NODE")

(* Fades are optional.                                                     *)
Fade(v) == Stops(v.transition # NONE => parse_duration(v.transition) # NONE, "E_BAD_DURATION")

EdgeVerbs == {"changed", "crosses"}

TriggerChecks(lw, v) ==
  CASE v.verb = "malformed" -> << Malformed >>
    [] v.verb = "event" ->
         << Known(lw, v.device),
            Stops(v.device \in DOMAIN lw.devices => v.event \in DOMAIN lw.devices[v.device].events,
                  "E_UNKNOWN_EVENT") >>
    [] v.verb = "changed" ->
         << Known(lw, v.device), Capability(v.capability, BoolKinds, "E_NON_BOOL_CAPABILITY"),
            Has(lw, v.device, v.capability) >>
    [] v.verb = "crosses" ->
         << Known(lw, v.device), Capability(v.capability, NumericKinds, "E_NON_NUMERIC_CAPABILITY"),
            Has(lw, v.device, v.capability), Stops((v.above = NONE) # (v.below = NONE), "E_BAD_CROSS") >>
    [] v.verb = "reports" ->
         << Known(lw, v.device), Capability(v.capability, Kind, "E_BAD_CAPABILITY"),
            Has(lw, v.device, v.capability) >>
    [] v.verb = "timer" -> << >>
    [] v.verb = "schedule" -> << Stops(v.name \in DOMAIN lw.schedules, "E_UNKNOWN_SCHEDULE") >>
    [] v.verb = "command_failed" -> IF v.device = "*" THEN << >> ELSE << Known(lw, v.device) >>
    [] OTHER -> << Stops(FALSE, "E_UNKNOWN_TRIGGER") >>

ConditionChecks(lw, v) ==
  CASE v.verb = "malformed" -> << Malformed >>
    [] v.verb \in {"all", "any", "not", "sun_up"} -> << >>
    [] v.verb = "switch" -> << Known(lw, v.device), Has(lw, v.device, "switch") >>
    [] v.verb = "occupancy_is" -> << Known(lw, v.device), Has(lw, v.device, "occupancy") >>
    [] v.verb = "compare" ->
         << Known(lw, v.device), Capability(v.capability, NumericKinds, "E_NON_NUMERIC_CAPABILITY"),
            Stops(v.op \in {"<", "<=", "==", "!=", ">=", ">"}, "E_BAD_OP"),
            Has(lw, v.device, v.capability) >>
    [] v.verb = "color_is" ->
         << Known(lw, v.device), Has(lw, v.device, "color"),
            Stops(parse_color(v.color) # NONE, "E_BAD_COLOR") >>
    [] v.verb \in {"time_after", "time_before"} -> << Stops(parse_time(v.time) # NONE, "E_BAD_TIME") >>
    [] OTHER -> << Stops(FALSE, "E_UNKNOWN_CONDITION") >>

(* The capability a command needs of the device it is sent to.             *)
NeededBy == [turn_on |-> "switch", turn_off |-> "switch", toggle |-> "switch",
             set_brightness |-> "brightness", decrease_brightness |-> "brightness",
             increase_brightness |-> "brightness", set_color |-> "color",
             set_color_temperature |-> "color_temperature", send_ir_code |-> "ir_transmitter"]

(* Those with a payload to check as well.                                  *)
Payloads == {"set_brightness", "set_color", "set_color_temperature"}

CommandChecks(lw, v) ==
  LET known == Known(lw, v.device)
      has   == Has(lw, v.device, NeededBy[v.verb])
  IN  CASE v.verb = "malformed" -> << Malformed >>
        [] v.verb = "set_brightness" -> << known, has, Fade(v) >>
        [] v.verb = "set_color" ->
             << known, has, Stops(parse_color(v.color) # NONE, "E_BAD_COLOR"), Fade(v) >>
        [] v.verb = "set_color_temperature" ->
             << known, has, Stops(parse_color_temperature(v) # NONE, "E_BAD_COLOR_TEMP"), Fade(v) >>
        [] v.verb = "activate_scene" -> << Stops(v.name \in DOMAIN lw.scenes, "E_UNKNOWN_SCENE") >>
        [] v.verb = "schedule_timer" -> << Stops(parse_duration(v.after) # NONE, "E_BAD_DURATION") >>
        [] v.verb = "cancel_timer" -> << >>
        [] v.verb \in DOMAIN NeededBy \ Payloads -> << known, has >>
        [] OTHER -> << Stops(FALSE, "E_UNKNOWN_COMMAND") >>

(* A rule's "for:", looked at only once its trigger and condition lower.   *)
ForChecks(rule) ==
  IF rule.for = NONE THEN << >>
  ELSE << Stops(rule.when.verb \in EdgeVerbs, "E_FOR_UNSUPPORTED"),
          Stops(parse_duration(rule.for) # NONE, "E_BAD_DURATION") >>
-----------------------------------------------------------------------------
(* What nodes become *)

Field(v, f) == IF f \in DOMAIN v THEN v[f] ELSE NONE

(* The device a node is about; the time and the sun are the clock's, and   *)
(* "*" is any device.                                                      *)
Subject(lw, v) ==
  IF v.verb \in {"sun_up", "time_after", "time_before"} THEN lw.clock
  ELSE IF /\ Field(v, "device") \in DOMAIN lw.devices
          /\ ~(v.verb = "command_failed" /\ v.device = "*")
       THEN lw.devices[v.device].id ELSE NONE

(* ... and its capability.                                                 *)
KindOf(v) ==
  CASE v.verb \in DOMAIN NeededBy                -> NeededBy[v.verb]
    [] v.verb \in {"time_after", "time_before"}  -> "time_of_day"
    [] v.verb \in {"sun_up", "switch"}           -> v.verb
    [] v.verb = "occupancy_is"                   -> "occupancy"
    [] v.verb = "color_is"                       -> "color"
    [] OTHER                                     -> Field(v, "capability")

(* The value of its payload, where references and literals are resolved.   *)
Argument(lw, v) ==
  CASE v.verb = "event"                        -> lw.devices[v.device].events[v.event]
    [] v.verb = "schedule"                     -> lw.schedules[v.name]
    [] v.verb = "activate_scene"               -> lw.scenes[v.name]
    [] v.verb \in {"timer", "cancel_timer"}    -> v.key
    [] v.verb = "schedule_timer"               -> <<v.key, parse_duration(v.after)>>
    [] v.verb \in {"time_after", "time_before"} -> parse_time(v.time)
    [] v.verb \in {"set_color", "color_is"}    -> parse_color(v.color)
    [] v.verb = "set_color_temperature"        -> parse_color_temperature(v)
    [] OTHER                                   -> NONE

Lowered(lw, v) ==
  [verb |-> v.verb, device |-> Subject(lw, v), kind |-> KindOf(v), arg |-> Argument(lw, v)]

(* Of a set of positions: how many there are up to i, and which is the kth.*)
Place(i, I) == Cardinality({j \in I : j =< i})
Nth(k, I)   == CHOOSE i \in I : Place(i, I) = k

commands(lw, vs) ==
  LET good == {i \in DOMAIN vs : Lowers(CommandChecks(lw, vs[i]))}
  IN  [k \in 1..Cardinality(good) |-> Lowered(lw, vs[Nth(k, good)])]
CommandErrors(lw, vs) == UNION {Errors(CommandChecks(lw, vs[i])) : i \in DOMAIN vs}
=============================================================================
