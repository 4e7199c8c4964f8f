--------------------------- MODULE ApiProperties ----------------------------
(***************************************************************************)
(* What the compiler promises the engine, and the API its clients.  Names  *)
(* and declarations are those of the configuration, not the tables the     *)
(* compiler made of it.                                                    *)
(***************************************************************************)
EXTENDS Api

Concluded == stage \in {"accepted", "rejected", "running"}

-----------------------------------------------------------------------------
(* What is wrong with a configuration, place by place *)

Declares(n, kind) == n \in DOMAIN raw.devices /\ kind \in raw.devices[n].capabilities \cap Declarable
Given(v, f) == Field(v, f) # NONE

TriggerVerbs   == {"event", "changed", "crosses", "reports", "timer", "schedule", "command_failed"}
ConditionVerbs == {"all", "any", "not", "sun_up", "switch", "occupancy_is", "compare", "color_is",
                   "time_after", "time_before"}
CommandVerbs   == DOMAIN NeededBy \cup {"activate_scene", "schedule_timer", "cancel_timer"}

(* Every name of a node is declared, every literal has a value.            *)
Sound(v, verbs) ==
  /\ v.verb \in verbs
  /\ Given(v, "device") /\ ~(v.verb = "command_failed" /\ v.device = "*") =>
       /\ v.device \in DOMAIN raw.devices
       /\ KindOf(v) # NONE => Declares(v.device, KindOf(v))
       /\ Given(v, "event") => v.event \in raw.devices[v.device].events
  /\ v.verb = "changed" => KindOf(v) \in BoolKinds
  /\ v.verb \in {"crosses", "compare"} => KindOf(v) \in NumericKinds
  /\ v.verb = "crosses" => Given(v, "above") # Given(v, "below")
  /\ Given(v, "op") => v.op \in {"<", "<=", "==", "!=", ">=", ">"}
  /\ v.verb = "schedule" => v.name \in DOMAIN raw.schedules
  /\ v.verb = "activate_scene" => v.name \in DOMAIN raw.scenes
  /\ Given(v, "color") => \A i \in 1..3 : v.color[i] \in 0..255
  /\ Given(v, "time") => v.time[1] =< 23 /\ v.time[2] =< 59
  /\ v.verb = "set_color_temperature" => Given(v, "kelvin") # Given(v, "mireds") /\ parse_color_temperature(v) # NONE
  /\ \A f \in {"transition", "after", "for"} : Given(v, f) => parse_duration(v[f]) # NONE

SoundRule(rule) ==
  /\ Sound(rule.when, TriggerVerbs)
  /\ \A v \in rule.if : Sound(v, ConditionVerbs)
  /\ \A i \in DOMAIN rule.then : Sound(rule.then[i], CommandVerbs)
  /\ rule.for # NONE => rule.when.verb \in {"changed", "crosses"} /\ parse_duration(rule.for) # NONE

SoundSchedule(s) ==
  LET forms == {f \in {"cron", "daily", "weekday", "weekend"} : s[f] # NONE}
  IN  /\ Cardinality(forms) = 1
      /\ \A f \in forms : IF f = "cron" THEN s.cron \in CronExprs ELSE s[f][1] =< 23 /\ s[f][2] =< 59

SoundDevice(d) ==
  /\ d.capabilities \subseteq Declarable
  /\ d.adapter \in DOMAIN raw.adapters
  /\ LET type == raw.adapters[d.adapter].type
     IN  type \notin Northbound /\ (type \in Types => AddressErrors(type, d.address) = {})

SoundAdapter(a) ==
  /\ a.type \in Types /\ ConfigErrors(a.type, a.config) = {}
  /\ a.type \in Northbound /\ a.config.expose.names # NONE => a.config.expose.names \subseteq DOMAIN raw.devices

Faulty ==
  {<<"adapter", n>> : n \in {m \in DOMAIN raw.adapters : ~SoundAdapter(raw.adapters[m])}}
  \cup {<<"device", n>> : n \in {m \in DOMAIN raw.devices : ~SoundDevice(raw.devices[m])}}
  \cup {<<"schedule", n>> : n \in {m \in DOMAIN raw.schedules : ~SoundSchedule(raw.schedules[m])}}
  \cup {<<"scene", n>> : n \in {m \in DOMAIN raw.scenes :
          \E i \in DOMAIN raw.scenes[m] : ~Sound(raw.scenes[m][i], CommandVerbs)}}
  \cup {<<"rule", n>> : n \in {m \in DOMAIN raw.rules : ~SoundRule(raw.rules[m])}}
  \cup {<<"system", NONE>> : z \in {raw.zone} \ Zones}

(* The devices declared under a northbound adapter, which drives none.     *)
Misplaced == {n \in DOMAIN raw.devices :
                /\ raw.devices[n].adapter \in DOMAIN raw.adapters
                /\ raw.adapters[raw.devices[n].adapter].type \in Northbound}

ErrorPlaces == {d[3] : d \in {e \in diags : e[1] = "error"}}

(* "One compile reports them all" (lower.rs): although checks return early *)
(* and sections build on what earlier ones kept, every faulty place is     *)
(* named by an error, and a sound place only if some device was dropped    *)
(* with its unknown adapter.  So a configuration is accepted exactly when  *)
(* nothing is wrong with it.  One fault no code looks for: a device that is*)
(* declared under a northbound adapter (see DevicesBound).                 *)
FaultsReported ==
  Concluded =>
    /\ Faulty \ {<<"device", n>> : n \in Misplaced} \subseteq ErrorPlaces
    /\ Misplaced = {} =>
         /\ Kept = DOMAIN raw.devices => ErrorPlaces = Faulty
         /\ stage = "rejected" <=> Faulty # {}

-----------------------------------------------------------------------------
(* What was lowered, in the engine's terms.                                *)
Ran(cs)   == {cs[j] : j \in DOMAIN cs}
SceneRuns == UNION {Ran(scenes[i].commands) : i \in DOMAIN scenes}
RuleRuns  == UNION {{r.trigger} \cup r.conditions \cup Ran(r.commands) : r \in rules}
Runs      == SceneRuns \cup RuleRuns

Provides(d) == IF d = ClockDevice THEN {"time_of_day", "sun_up"} ELSE devices[d].capabilities

(* The device has a slot of the engine, and that slot's adapter drives it. *)
Bound(d) == /\ d \in DOMAIN engine.binding
            /\ engine.binding[d] \in DOMAIN engine.slots
            /\ d \in engine.slots[engine.binding[d]].drives

AdapterOf(d) == engine.slots[engine.binding[d]].adapter

(* "A device never binds to a northbound adapter (the resolver rejects     *)
(* that), so its slot is always a real southbound one" (mod.rs:213-215).   *)
(* The code does not have this property: nothing rejects such a device, and*)
(* its slot is usize::MAX.                                                 *)
DevicesBound == stage = "running" => \A d \in DOMAIN devices : Bound(d)

(* The engine runs what the configuration says, if no device is misplaced. *)
(* Every device is bound to the adapter it was declared under, although    *)
(* northbound adapters have no slot and come anywhere among the others;    *)
(* every trigger, condition and command is about a bound device and a      *)
(* capability of it; "for:" stands only on edges; every scene, schedule    *)
(* and command of the configuration is there.                              *)
Runnable ==
  stage = "running" /\ Misplaced = {} =>
    /\ \A d \in DOMAIN devices : Bound(d) /\ AdapterOf(d) = raw.devices[devices[d].name].adapter
    /\ Bound(ClockDevice) /\ AdapterOf(ClockDevice) = "clock"
    /\ \A v \in Runs : v.device # NONE =>
         Bound(v.device) /\ (v.kind # NONE => v.kind \in Provides(v.device))
    /\ \A v \in Runs : /\ v.verb = "activate_scene" => v.arg \in DOMAIN scenes
                       /\ v.verb = "schedule" => \E s \in schedules : s.id = v.arg
    /\ \A r \in rules : r.for # NONE => r.trigger.verb \in EdgeVerbs
    /\ \A n \in DOMAIN raw.rules : \E r \in rules :
         r.name = n /\ Len(r.commands) = Len(raw.rules[n].then) /\ (r.for = NONE) = (raw.rules[n].for = NONE)
    /\ \A i \in DOMAIN scenes : Len(scenes[i].commands) = Len(raw.scenes[scenes[i].name])

-----------------------------------------------------------------------------
(* The name a queued request was about.                                    *)
NameOf(d) == devices[d].name
Handed == events \o inbound

(* What the client asked for, by the configuration: the device declares    *)
(* the event, or a capability that can be set.                             *)
Deserves(q) ==
  /\ q.method = "POST"
  /\ \/ /\ Matches(q.path, <<"devices", "*", "events", "*">>)
        /\ q.path[2] \in DOMAIN raw.devices /\ q.path[4] \in raw.devices[q.path[2]].events
     \/ /\ Matches(q.path, <<"devices", "*", "intent">>) /\ OneKey(q.body)
        /\ \E kind \in Writable :
             /\ Declares(q.path[2], kind)
             /\ IF KeyOf(q.body) = "set"
                THEN /\ OneKey(q.body.value.set) /\ KeyOf(q.body.value.set) = kind
                     /\ ValueOk(kind, q.body.value.set.value[kind])
                ELSE /\ KeyOf(q.body) \in DOMAIN IntentKind /\ IntentKind[KeyOf(q.body)] = kind
                     /\ PayloadOk(KeyOf(q.body), q.body.value[KeyOf(q.body)])
     \/ Matches(q.path, <<"scenes", "*", "activate">>) /\ q.path[2] \in DOMAIN raw.scenes

(* A write is accepted only if the configuration declares what it names,   *)
(* and what the engine is handed is about exactly that; and it is refused  *)
(* only if it does not, or the engine has stopped, or the device is called *)
(* like the clock, which hides it.                                         *)
ServedFaithfully ==
  served # NONE =>
    LET q == served.request
        h == Handed[Len(Handed)]
    IN  /\ served.status = 202 =>
             /\ Deserves(q)
             /\ h.to = "scene" => scenes[h.scene].name = q.path[2]
             /\ h.to # "scene" => h.device \in DOMAIN devices /\ NameOf(h.device) = q.path[2]
             /\ h.to = "device" => h.kind \in devices[h.device].capabilities \cap Writable
             /\ h.to = "action" => devices[h.device].events[q.path[4]] = h.action
        /\ Deserves(q) /\ q.path[2] # "clock" => served.status = 202 \/ (gone /\ served.status = 503)
=============================================================================
