------------------------------- MODULE MCApi --------------------------------
(***************************************************************************)
(* A small home of every kind of entry, and all the ways to get one or two *)
(* of its sections wrong.                                                  *)
(***************************************************************************)
EXTENDS ApiProperties

MCNames == << "api", "button", "clock", "cosy", "dawn", "dim", "dusk", "evening", "ghost", "hold", "hub",
              "lamp", "night", "press", "sensor", "zw" >>

(* A function on names given pair by pair.                                 *)
One(n, x) == [m \in {n} |-> x]
And(f, g) == [m \in DOMAIN f \cup DOMAIN g |-> IF m \in DOMAIN f THEN f[m] ELSE g[m]]

Url(s, h, p)  == [url |-> [scheme |-> s, host |-> h, port |-> p]]
Hub(config)   == [type |-> "zigbee2mqtt", config |-> config]
Zwave(config) == [type |-> "zwavejs", config |-> config]
Expose(keyword, names) ==
  [type |-> "mock_northbound", config |-> [expose |-> [keyword |-> keyword, names |-> names]]]

GoodHub == Hub(Url("mqtt", "broker", NONE))
GoodAdapters == And(One("api", Expose(NONE, NONE)), And(One("hub", GoodHub), One("zw", Zwave(Url("ws", "zwjs", 3000)))))

AdapterChoices ==
  {GoodAdapters, One("hub", GoodHub), [GoodAdapters EXCEPT !["hub"].type = "modem"]}
  \cup {[GoodAdapters EXCEPT !["hub"] = a] : a \in {Hub(NONE), Hub(Url("ws", "broker", NONE)), Zwave(Url("mqtt", "x", NONE)),
                                                    [type |-> "mock", config |-> NONE]}}
  \cup {[GoodAdapters EXCEPT !["api"] = a] : a \in {Expose("all", NONE), Expose("everything", NONE), Expose(NONE, {}),
                                                    Expose(NONE, {"lamp", "ghost"}), Expose(NONE, {"lamp"})}}

Dev(adapter, address, caps, evs) ==
  [adapter |-> adapter, address |-> address, capabilities |-> caps, events |-> evs]
Lamp   == Dev("hub", "lamp", {"switch", "brightness", "color", "color_temperature"}, {})
Button == Dev("zw", "7", {}, {"hold", "press"})
Sensor == Dev("zw", "8", {"occupancy", "illuminance"}, {"press"})
GoodDevices == And(One("button", Button), And(One("lamp", Lamp), One("sensor", Sensor)))

DeviceChoices ==
  {GoodDevices, One("lamp", Lamp), And(GoodDevices, One("clock", [Lamp EXCEPT !.events = {"press"}]))}
  \cup {[GoodDevices EXCEPT !["lamp"] = d] :
          d \in {[Lamp EXCEPT !.adapter = "ghost"], [Lamp EXCEPT !.adapter = "api"], [Lamp EXCEPT !.address = NONE],
                 [Lamp EXCEPT !.capabilities = {}], [Lamp EXCEPT !.capabilities = {"switch", "sun_up"}]}}
  \cup {[GoodDevices EXCEPT !["button"] = d] : d \in {[Button EXCEPT !.adapter = "ghost"], [Button EXCEPT !.address = "ghost"]}}

On(verb)        == [verb |-> verb, device |-> "lamp"]
Scene(n)        == [verb |-> "activate_scene", name |-> n]
Bad             == [verb |-> "malformed"]
Odd             == [verb |-> "frobnicate"]
For(n, unit)    == [n |-> n, unit |-> unit]
Color(c, fade)  == [verb |-> "set_color", device |-> "lamp", color |-> c, transition |-> fade]
Warm(k, m)      == [verb |-> "set_color_temperature", device |-> "lamp", kelvin |-> k, mireds |-> m, transition |-> NONE]
Level(fade)     == [verb |-> "set_brightness", device |-> "lamp", transition |-> fade]
Nap(after)      == [verb |-> "schedule_timer", key |-> "nap", after |-> after]

Commands == {On(v) : v \in DOMAIN NeededBy \ {"set_color", "set_color_temperature", "set_brightness"}}
  \cup {Scene("cosy"), Scene("ghost"), Bad, Odd, [verb |-> "toggle", device |-> "ghost"],
        [verb |-> "toggle", device |-> "sensor"], [verb |-> "cancel_timer", key |-> "nap"],
        Color(<<255, 0, 0>>, For(2, "s")), Color(<<256, 0, 0>>, NONE), Color(<<1, 2, 3>>, For(2, "d")),
        Warm(2700, NONE), Warm(NONE, 370), Warm(NONE, NONE), Warm(2700, 370), Warm(999, NONE), Warm(NONE, 1001),
        Level(NONE), Level(For(500, "ms")), Level(For(5, NONE)), Nap(For(1, "h")), Nap(For(30, "h"))}

SceneChoices ==
  {And(One("cosy", << On("turn_on"), Level(NONE) >>), One("dim", << Scene("cosy") >>))}
  \cup {And(One("cosy", <<c>>), One("dim", << Scene("dim"), Nap(For(1, "s")) >>)) : c \in Commands}

Sched(cron, daily, weekday, weekend) ==
  [cron |-> cron, daily |-> daily, weekday |-> weekday, weekend |-> weekend]
At(h, m) == Sched(NONE, <<h, m>>, NONE, NONE)
ScheduleChoices ==
  {And(One("dawn", s), One("dusk", At(20, 30))) :
     s \in {At(6, 0), At(24, 0), At(6, 60), Sched("0 6 * * *", NONE, NONE, NONE), Sched("0 6 * *", NONE, NONE, NONE),
            Sched(NONE, NONE, NONE, NONE), Sched("0 6 * * *", NONE, <<7, 0>>, NONE), Sched(NONE, <<25, 0>>, <<7, 0>>, NONE)}}

Of(dev, cap)  == [device |-> dev, capability |-> cap]
Changed(d, c) == And([verb |-> "changed"], Of(d, c))
Crosses(d, c, above, below) == And([verb |-> "crosses", above |-> above, below |-> below], Of(d, c))
Event(d, e)   == [verb |-> "event", device |-> d, event |-> e]

Triggers ==
  {Event("button", "press"), Event("button", "ghost"), Event("lamp", "press"), Event("ghost", "press"), Event("sensor", "press"),
   Changed("sensor", "occupancy"), Changed("sensor", "illuminance"), Changed("sensor", "sun_up"), Changed("lamp", "occupancy"),
   Crosses("sensor", "illuminance", 10, NONE), Crosses("sensor", "illuminance", NONE, 5), Crosses("sensor", "illuminance", 10, 5),
   Crosses("sensor", "illuminance", NONE, NONE), Crosses("sensor", "occupancy", 1, NONE), Crosses("ghost", "power", 1, NONE),
   And([verb |-> "reports"], Of("lamp", "color")), And([verb |-> "reports"], Of("lamp", "ghost")),
   [verb |-> "timer", key |-> "nap"], [verb |-> "schedule", name |-> "dawn"], [verb |-> "schedule", name |-> "ghost"],
   [verb |-> "command_failed", device |-> "*"], [verb |-> "command_failed", device |-> "lamp"],
   [verb |-> "command_failed", device |-> "ghost"], Bad, Odd}

Compare(cap, op) == And([verb |-> "compare", op |-> op], Of("sensor", cap))
Conditions ==
  {[verb |-> "not"], [verb |-> "sun_up"], On("switch"), [verb |-> "occupancy_is", device |-> "sensor"], On("occupancy_is"),
   Compare("illuminance", "<"), Compare("illuminance", "=<"), Compare("occupancy", "<"), Compare("humidity", "~"),
   [verb |-> "color_is", device |-> "lamp", color |-> <<0, 0, 255>>], [verb |-> "color_is", device |-> "sensor", color |-> <<0, 0, 300>>],
   [verb |-> "time_after", time |-> <<22, 0>>], [verb |-> "time_before", time |-> <<24, 0>>], Bad, Odd}

Rule(when, if, for, then) == [when |-> when, if |-> if, for |-> for, then |-> then]
Motion  == Changed("sensor", "occupancy")
Evening == Rule(Motion, {[verb |-> "sun_up"]}, NONE, << On("turn_on"), Scene("dim") >>)
Night   == Rule(Event("button", "hold"), {}, NONE, << On("turn_off") >>)
GoodRules == And(One("evening", Evening), One("night", Night))

RuleChoices ==
  {GoodRules, One("night", Night)}
  \cup {And(One("evening", r), One("night", Night)) :
    r \in {Rule(t, {}, for, << On("toggle") >>) : t \in Triggers, for \in {NONE, For(5, "m"), For(5, "x")}}
          \cup {Rule(Motion, {[verb |-> "any"], c, d}, For(5, "m"), <<>>) : c \in Conditions, d \in {[verb |-> "sun_up"], Bad}}
          \cup {Rule(Event("button", "press"), {}, NONE, << c, On("turn_off") >>) : c \in Commands}}

Base == [zone |-> "UTC", adapters |-> GoodAdapters, devices |-> GoodDevices, schedules |-> One("dusk", At(20, 30)),
         scenes |-> And(One("cosy", << On("turn_on") >>), One("dim", << Scene("cosy") >>)), rules |-> GoodRules]

Choice == [zone |-> {"UTC", "UTC+25"}, adapters |-> AdapterChoices, devices |-> DeviceChoices,
           schedules |-> ScheduleChoices, scenes |-> SceneChoices, rules |-> RuleChoices]

(* Everything as in Base but for two sections, each chosen freely.         *)
MCConfigs ==
  UNION {{[Base EXCEPT ![pair[1]] = x, ![pair[2]] = y] : x \in Choice[pair[1]], y \in Choice[pair[2]]} :
           pair \in {<<"adapters", "devices">>, <<"devices", "scenes">>, <<"devices", "rules">>, <<"schedules", "rules">>,
                     <<"zone", "scenes">>}}

Json(t, v) == [json |-> t, value |-> v]
Obj(f)     == Json("object", f)
Set(f)     == Obj([set |-> Obj(f)])
Bodies ==
  {Json("bool", TRUE), Obj([m \in {} |-> 0]), Obj([toggle |-> Json("bool", TRUE), set |-> Obj([switch |-> Json("bool", TRUE)])]),
   Obj([toggle |-> Json("object", <<>>)]), Obj([adjust_brightness |-> Json("int", -128)]),
   Obj([adjust_brightness |-> Json("int", 128)]), Obj([send_ir_code |-> Json("string", "code")]), Obj([blink |-> Json("int", 1)]),
   Set([switch |-> Json("bool", TRUE)]), Set([switch |-> Json("int", 1)]), Set([brightness |-> Json("int", 100)]),
   Set([brightness |-> Json("int", 101)]), Set([occupancy |-> Json("bool", TRUE)]), Set([sun_up |-> Json("bool", TRUE)]),
   Set([color |-> Obj([r |-> Json("int", 1), g |-> Json("int", 1), b |-> Json("int", 255)])]),
   Set([color |-> Obj([r |-> Json("int", 1), g |-> Json("int", 1)])]), Set([ghost |-> Json("int", 1)])}

Send(method, path, body) == [method |-> method, path |-> path, body |-> body]
MCRequests ==
  {Send("POST", <<"devices", n, "intent">>, b) : n \in {"lamp", "sensor"}, b \in Bodies}
  \cup {Send("POST", <<"devices", n, "intent">>, b) : n \in {"clock", "ghost"},
          b \in {Set([sun_up |-> Json("bool", TRUE)]), Set([switch |-> Json("bool", TRUE)])}}
  \cup {Send("POST", <<"devices", n, "events", e>>, NONE) : n \in {"button", "sensor", "clock"}, e \in {"press", "hold"}}
  \cup {Send("POST", <<"scenes", n, "activate">>, NONE) : n \in {"dim", "ghost"}}
  \cup {Send("GET", p, NONE) : p \in {<<"devices">>, <<"devices", "clock">>, <<"rules", "ghost">>, <<"scenes", "dim", "activate">>, <<>>}}
=============================================================================
