------------------------------ MODULE Compile -------------------------------
(***************************************************************************)
(* The compiler (compile/resolve.rs, compile/mod.rs): a configuration, one *)
(* section after the other, to an object graph with ids for names, and the *)
(* graph to an engine.  Problems are collected as <<severity, code, where>>*)
(* and any error among them refuses the configuration.                     *)
(*                                                                         *)
(* Ids are positions in name order, counted from 1 (from 0 in the code).   *)
(* The engine's slot 1 is its scheduler.                                   *)
(***************************************************************************)
EXTENDS Lowering

CONSTANTS
  NameOrder,   \* the names a configuration uses, sorted
  Configs,     \* the configurations to compile
  Zones,       \* the IANA time zone names
  NodeIds,     \* the addresses that are decimal numbers
  CronExprs    \* the expressions that croner parses

Names == {NameOrder[i] : i \in DOMAIN NameOrder}

IsSeq(s)    == s \in Seq({s[i] : i \in DOMAIN s})
IsNodes(vs) == IsSeq(vs) /\ \A i \in DOMAIN vs : IsNode(vs[i])

(* What serde makes of a file.                                             *)
IsConfig(c) ==
  /\ \A section \in {c.adapters, c.devices, c.scenes, c.schedules, c.rules} : DOMAIN section \subseteq Names
  /\ \A n \in DOMAIN c.scenes : IsNodes(c.scenes[n])
  /\ \A n \in DOMAIN c.schedules : \A f \in {"daily", "weekday", "weekend"} :
       c.schedules[n][f] # NONE => IsTime(c.schedules[n][f])
  /\ \A n \in DOMAIN c.rules :
       /\ IsNode(c.rules[n].when) /\ (\A v \in c.rules[n].if : IsNode(v)) /\ IsNodes(c.rules[n].then)
       /\ c.rules[n].for # NONE => IsDuration(c.rules[n].for)

ASSUME CompileAssumption ==
  /\ IsSeq(NameOrder) /\ NONE \notin Names
  /\ \A i, j \in DOMAIN NameOrder : NameOrder[i] = NameOrder[j] => i = j
  /\ \A c \in Configs : IsConfig(c)

VARIABLES
  raw,       \* the configuration
  stage,     \* what the compiler does next
  adapters,  \* Seq of [name, type, config]
  devices,   \* Seq of [name, adapter, capabilities, events, address]
  schedules, \* set of [id, name]
  scenes,    \* Seq of [name, commands]
  rules,     \* set of [id, name, trigger, conditions, for, commands]
  diags,
  engine     \* what was built: [slots, binding, northbound], or NONE

vars == <<raw, stage, adapters, devices, schedules, scenes, rules, diags, engine>>

-----------------------------------------------------------------------------
(* Plugins *)

Types == {"zigbee2mqtt", "matter", "zwavejs", "mock", "virtual", "mock_northbound"}
Northbound == {"mock_northbound"}
WebSocket  == {"matter", "zwavejs"}

UrlOk(type, url) ==
  IF type \in WebSocket THEN url.scheme \in {"ws", "wss"}
  ELSE IF url.scheme \in {"mqtt", "tcp", NONE} THEN url.host # NONE ELSE url.port # NONE

(* validate_config: a block is malformed, or has a url, or what it exposes.*)
ConfigErrors(type, config) ==
  CASE type \in {"mock", "virtual"} -> {}
    [] OTHER ->
         IF config = NONE THEN {"E_ADAPTER_CONFIG"}
         ELSE IF type \in Northbound
         THEN IF config.expose.keyword \in {NONE, "all"} THEN {} ELSE {"E_ADAPTER_CONFIG"}
         ELSE IF UrlOk(type, config.url) THEN {} ELSE {"E_BAD_URL"}

(* validate_device *)
AddressErrors(type, address) ==
  CASE type \in {"mock", "virtual", "mock_northbound"} -> {}
    [] OTHER -> IF address = NONE THEN {"E_MISSING_ADDRESS"}
                ELSE IF type \in WebSocket /\ address \notin NodeIds THEN {"E_BAD_ADDRESS"} ELSE {}

-----------------------------------------------------------------------------
(* Name order *)

Places(S) == {i \in DOMAIN NameOrder : NameOrder[i] \in S}
Sorted(S) == [k \in 1..Cardinality(Places(S)) |-> NameOrder[Nth(k, Places(S))]]
Position(n) == CHOOSE i \in DOMAIN NameOrder : NameOrder[i] = n
Rank(n, S) == Place(Position(n), Places(S))
Ids(section) == [n \in DOMAIN section |-> Rank(n, DOMAIN section)]

(* Interned events, by device and then by event.                           *)
ActionId(n, e) ==
  Cardinality({ev \in Names \X Names :
    /\ ev[1] \in DOMAIN raw.devices /\ ev[2] \in raw.devices[ev[1]].events
    /\ \/ Position(ev[1]) < Position(n)
       \/ ev[1] = n /\ Position(ev[2]) =< Position(e)})

Error(codes, where)   == {<<"error", c, where>> : c \in codes}
Warning(codes, where) == {<<"warning", c, where>> : c \in codes}
When(cond, code)      == IF cond THEN {code} ELSE {}

-----------------------------------------------------------------------------
Init ==
  /\ raw \in Configs
  /\ stage = "adapters"
  /\ adapters = <<>> /\ devices = <<>> /\ schedules = {} /\ scenes = <<>> /\ rules = {}
  /\ diags = {} /\ engine = NONE

AdapterDef(n) == [name |-> n, type |-> raw.adapters[n].type, config |-> raw.adapters[n].config]

AdapterErrors(a) ==
  IF a.type \in Types THEN ConfigErrors(a.type, a.config) ELSE {"E_UNKNOWN_ADAPTER_TYPE"}

AdapterDefs ==
  LET order == Sorted(DOMAIN raw.adapters) IN [i \in DOMAIN order |-> AdapterDef(order[i])]
AdapterDiags ==
  UNION {Error(AdapterErrors(raw.adapters[n]), <<"adapter", n>>) : n \in DOMAIN raw.adapters}

Adapters ==
  /\ stage = "adapters" /\ stage' = "devices"
  /\ adapters' = AdapterDefs /\ diags' = diags \cup AdapterDiags
  /\ UNCHANGED <<raw, devices, schedules, scenes, rules, engine>>

(* A device whose adapter is unknown gets no id and no entry.              *)
Kept == {n \in DOMAIN raw.devices : raw.devices[n].adapter \in DOMAIN raw.adapters}

DeviceDef(n) ==
  LET d == raw.devices[n]
  IN  [name |-> n, adapter |-> Rank(d.adapter, DOMAIN raw.adapters),
       capabilities |-> d.capabilities \cap Declarable,
       events |-> [e \in d.events |-> ActionId(n, e)], address |-> d.address]

DeviceErrors(n) ==
  When(n \notin Kept, "E_UNKNOWN_ADAPTER")
  \cup When(~(raw.devices[n].capabilities \subseteq Declarable), "E_UNKNOWN_CAPABILITY")
DeviceWarnings(d) == When(d.capabilities = {} /\ d.events = {}, "E_INERT_DEVICE")

DeviceDefs == LET order == Sorted(Kept) IN [i \in DOMAIN order |-> DeviceDef(order[i])]
DeviceDiags ==
  UNION {Error(DeviceErrors(n), <<"device", n>>) \cup Warning(DeviceWarnings(raw.devices[n]), <<"device", n>>) :
           n \in DOMAIN raw.devices}

Devices ==
  /\ stage = "devices" /\ stage' = "schedules"
  /\ devices' = DeviceDefs /\ diags' = diags \cup DeviceDiags
  /\ UNCHANGED <<raw, adapters, schedules, scenes, rules, engine>>

-----------------------------------------------------------------------------
(* Schedules: a cron expression, or sugar for one.  A bad time returns at  *)
(* once, before anybody counts the forms.                                  *)
Sugars(s) == {f \in {"daily", "weekday", "weekend"} : s[f] # NONE}
ScheduleErrors(s) ==
  IF \E f \in Sugars(s) : parse_time(s[f]) = NONE THEN {"E_BAD_TIME"}
  ELSE IF Cardinality(Sugars(s)) + (IF s.cron = NONE THEN 0 ELSE 1) # 1 THEN {"E_BAD_SCHEDULE"}
  ELSE When(s.cron # NONE /\ s.cron \notin CronExprs, "E_BAD_CRON")

ScheduleDefs ==
  {[id |-> Ids(raw.schedules)[n], name |-> n] :
     n \in {m \in DOMAIN raw.schedules : ScheduleErrors(raw.schedules[m]) = {}}}
ScheduleDiags ==
  UNION {Error(ScheduleErrors(raw.schedules[n]), <<"schedule", n>>) : n \in DOMAIN raw.schedules}

Schedules ==
  /\ stage = "schedules" /\ stage' = "scenes"
  /\ schedules' = ScheduleDefs /\ diags' = diags \cup ScheduleDiags
  /\ UNCHANGED <<raw, adapters, devices, scenes, rules, engine>>

(* The clock's device comes after the user's.                              *)
ClockDevice == Len(devices) + 1

Lowerer ==
  [devices   |-> [n \in Kept |-> LET id == Rank(n, Kept)
                                 IN  [id |-> id, capabilities |-> devices[id].capabilities,
                                      events |-> devices[id].events]],
   scenes    |-> Ids(raw.scenes),
   schedules |-> Ids(raw.schedules),
   clock     |-> ClockDevice]

LoweredScene(n) == [name |-> n, commands |-> commands(Lowerer, raw.scenes[n])]
SceneDefs == LET order == Sorted(DOMAIN raw.scenes) IN [i \in DOMAIN order |-> LoweredScene(order[i])]
SceneDiags ==
  UNION {Error(CommandErrors(Lowerer, raw.scenes[n]), <<"scene", n>>) : n \in DOMAIN raw.scenes}

LowerScenes ==
  /\ stage = "scenes" /\ stage' = "rules"
  /\ scenes' = SceneDefs /\ diags' = diags \cup SceneDiags
  /\ UNCHANGED <<raw, adapters, devices, schedules, rules, engine>>

(* A rule's trigger and condition are needed before its "for:" is read.    *)
RuleLowers(rule) ==
  /\ Lowers(TriggerChecks(Lowerer, rule.when))
  /\ \A v \in rule.if : Lowers(ConditionChecks(Lowerer, v))

ConditionErrors(rule) == UNION {Errors(ConditionChecks(Lowerer, v)) : v \in rule.if}

(* Fault: an optional qualifier is not worth an error.                     *)
FaultRuleErrors(rule) ==
  Errors(TriggerChecks(Lowerer, rule.when)) \cup CommandErrors(Lowerer, rule.then)
  \cup ConditionErrors(rule)

RuleErrors(rule) ==
  Errors(TriggerChecks(Lowerer, rule.when)) \cup CommandErrors(Lowerer, rule.then)
  \cup ConditionErrors(rule)
  \cup (IF RuleLowers(rule) THEN Errors(ForChecks(rule)) ELSE {})

LoweredRule(n) ==
  LET rule == raw.rules[n]
  IN  [id |-> Ids(raw.rules)[n], name |-> n, trigger |-> Lowered(Lowerer, rule.when),
       conditions |-> {Lowered(Lowerer, v) : v \in rule.if},
       for |-> IF rule.for # NONE /\ Lowers(ForChecks(rule)) THEN parse_duration(rule.for) ELSE NONE,
       commands |-> commands(Lowerer, rule.then)]

RuleDefs  == {LoweredRule(n) : n \in {m \in DOMAIN raw.rules : RuleLowers(raw.rules[m])}}
RuleDiags == UNION {Error(RuleErrors(raw.rules[n]), <<"rule", n>>) : n \in DOMAIN raw.rules}

LowerRules ==
  /\ stage = "rules" /\ stage' = "lints"
  /\ rules' = RuleDefs /\ diags' = diags \cup RuleDiags
  /\ UNCHANGED <<raw, adapters, devices, schedules, scenes, engine>>

-----------------------------------------------------------------------------
(* The whole program *)

Nodes == UNION {{raw.scenes[n][i] : i \in DOMAIN raw.scenes[n]} : n \in DOMAIN raw.scenes}
         \cup UNION {{raw.rules[n].when}
                     \cup {raw.rules[n].then[i] : i \in DOMAIN raw.rules[n].then} : n \in DOMAIN raw.rules}
Mentioned(verbs, field) == {v[field] : v \in {w \in Nodes : w.verb \in verbs}}

DanglingKeys == Mentioned({"timer", "cancel_timer"}, "key") \ Mentioned({"schedule_timer"}, "key")

AdapterLints ==
  UNION {Warning(When(adapters[i].type \notin Northbound /\ \A d \in DOMAIN devices : devices[d].adapter # i,
                      "E_UNUSED_ADAPTER"), <<"adapter", adapters[i].name>>) : i \in DOMAIN adapters}
SceneLints ==
  UNION {Warning(When(n \notin Mentioned({"activate_scene"}, "name"), "E_UNUSED_SCENE"), <<"scene", n>>) :
           n \in DOMAIN raw.scenes}
ScheduleLints ==
  UNION {Warning(When(s.name \notin Mentioned({"schedule"}, "name"), "E_UNUSED_SCHEDULE"), <<"schedule", s.name>>) :
           s \in schedules}
TimerLints == UNION {Warning({"E_DANGLING_TIMER"}, <<"timer", k>>) : k \in DanglingKeys}

Lints ==
  AdapterLints \cup SceneLints \cup ScheduleLints \cup TimerLints
  \cup Warning(When(DOMAIN raw.devices = {}, "E_NO_DEVICES"), <<"system", NONE>>)

DeviceNames == {devices[i].name : i \in DOMAIN devices}

(* expose_spec: a list of names, or (whatever the keyword) every device.   *)
Exposed(config) == IF config.expose.names = NONE THEN DeviceNames ELSE config.expose.names

ExposeDiags ==
  UNION {LET where == <<"adapter", adapters[i].name>>
         IN  Warning(When(Exposed(adapters[i].config) = {}, "E_EMPTY_EXPOSE"), where)
             \cup Error(When(~(Exposed(adapters[i].config) \subseteq DeviceNames), "E_UNKNOWN_EXPOSED_DEVICE"), where)
         : i \in {j \in DOMAIN adapters : adapters[j].type \in Northbound /\ adapters[j].config # NONE}}

AddressDiags ==
  UNION {LET type == adapters[devices[i].adapter].type
         IN  Error(IF type \in Types THEN AddressErrors(type, devices[i].address) ELSE {},
                   <<"device", devices[i].name>>) : i \in DOMAIN devices}

ZoneDiags == Error(When(raw.zone \notin Zones, "E_BAD_TIMEZONE"), <<"system", NONE>>)

Rejected(ds) == \E d \in ds : d[1] = "error"

(* The lints, expose, addresses and the time zone; then the verdict.       *)
Conclude ==
  /\ stage = "lints"
  /\ diags' = diags \cup Lints \cup ExposeDiags \cup AddressDiags \cup ZoneDiags
  /\ stage' = IF Rejected(diags') THEN "rejected" ELSE "accepted"
  /\ UNCHANGED <<raw, adapters, devices, schedules, scenes, rules, engine>>

-----------------------------------------------------------------------------
(* build_engine *)

South == {i \in DOMAIN adapters : adapters[i].type \notin Northbound}
BoundTo(i) == {d \in DOMAIN devices : devices[d].adapter = i}

(* Fault: slots are numbered like the adapters of the configuration.       *)
FaultSlot(i) == IF i \in South THEN 1 + i ELSE NONE

(* runtime_idx: southbound adapters get slots in order; a northbound one   *)
(* gets none (usize::MAX in the code).                                     *)
Slot(i) == IF i \in South THEN 1 + Place(i, South) ELSE NONE

SlotOrder == [k \in 1..Cardinality(South) |-> Nth(k, South)]

Slots ==
  << [adapter |-> "scheduler", drives |-> {}] >>
  \o [s \in DOMAIN SlotOrder |-> [adapter |-> adapters[SlotOrder[s]].name, drives |-> BoundTo(SlotOrder[s])]]
  \o << [adapter |-> "clock", drives |-> {ClockDevice}] >>

Binding == [d \in 1..ClockDevice |-> IF d = ClockDevice THEN Len(SlotOrder) + 2 ELSE Slot(devices[d].adapter)]

Subscribed ==
  [i \in DOMAIN adapters \ South |-> {d \in DOMAIN devices : devices[d].name \in Exposed(adapters[i].config)}]

Build ==
  /\ stage = "accepted" /\ stage' = "running"
  /\ engine' = [slots |-> Slots, binding |-> Binding, northbound |-> Subscribed]
  /\ UNCHANGED <<raw, adapters, devices, schedules, scenes, rules, diags>>

CompileNext == \/ Adapters \/ Devices \/ Schedules \/ LowerScenes \/ LowerRules \/ Conclude \/ Build
=============================================================================
