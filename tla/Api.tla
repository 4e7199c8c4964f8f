-------------------------------- MODULE Api ---------------------------------
(***************************************************************************)
(* The REST API's directory and routes (rest_api/mod.rs, routes.rs and     *)
(* json.rs) over a compiled configuration: a request is answered from the  *)
(* directory, and a write is queued for the adapter's next tick.           *)
(*                                                                         *)
(* A path is the sequence of its segments.  A JSON value is [json, value]; *)
(* an object's value is a record.                                          *)
(***************************************************************************)
EXTENDS Compile

CONSTANTS
  Requests,    \* what clients send: [method, path, body]
  MaxRequests  \* bound

ASSUME ApiAssumption == MaxRequests \in Nat /\ \A q \in Requests : IsSeq(q.path)

VARIABLES
  served,   \* the request answered last, with its status, or NONE
  inbound,  \* queued for the engine
  events,   \* what ticks gave to the engine
  gone      \* the engine dropped its end of the queue

apiVars == <<served, inbound, events, gone>>
allVars == <<vars, apiVars>>

-----------------------------------------------------------------------------
(* Directory::from_config: the devices, and the clock as one more.         *)
Clock == [id |-> ClockDevice, name |-> "clock", capabilities |-> {"time_of_day", "sun_up"},
          events |-> [e \in {} |-> NONE]]
Entries == Append([d \in DOMAIN devices |->
                     [id |-> d, name |-> devices[d].name,
                      capabilities |-> devices[d].capabilities, events |-> devices[d].events]],
                  Clock)

(* The map from names is filled in order, so a later entry replaces an     *)
(* earlier one of its name: a user's device called "clock" is not found.   *)
Called(n) == {i \in DOMAIN Entries : Entries[i].name = n}
DirectoryDevice(n) == Entries[CHOOSE i \in Called(n) : \A j \in Called(n) : j =< i]

HasDevice(n) == Called(n) # {}
HasScene(n) == \E i \in DOMAIN scenes : scenes[i].name = n
HasRule(n)  == \E r \in rules : r.name = n

-----------------------------------------------------------------------------
(* An answer is a status and what is to be queued: at most one inbound.    *)
Answer(status)  == [status |-> status, queue |-> << >>]
Queued(request) == [status |-> 202, queue |-> <<request>>]
Malformed400    == Answer(400)

IntIn(v, lo, hi) == v.json = "int" /\ lo =< v.value /\ v.value =< hi

(* state_from_json; the 32-bit bound of what can not be set is left out.   *)
ValueOk(kind, v) ==
  CASE kind \in BoolKinds                           -> v.json = "bool"
    [] kind \in {"brightness", "battery", "humidity"} -> IntIn(v, 0, 100)
    [] kind = "color_temperature"                   -> IntIn(v, 0, 65535)
    [] kind = "temperature"                         -> IntIn(v, -32768, 32767)
    [] kind = "time_of_day"                         -> IntIn(v, 0, 1439)
    [] kind \in {"illuminance", "power"}            -> v.json = "int" /\ v.value >= 0
    [] kind = "color"         -> /\ v.json = "object" /\ DOMAIN v.value = {"r", "g", "b"}
                                 /\ \A k \in DOMAIN v.value : IntIn(v.value[k], 0, 255)
    [] kind = "ir_transmitter" -> FALSE

(* Fault: what a device declares can be set.                               *)
FaultMay(entry, kind) == kind \in entry.capabilities

(* require_capability *)
May(entry, kind) == kind \in entry.capabilities \cap Writable

(* A single key of an object.                                              *)
OneKey(v) == v.json = "object" /\ Cardinality(DOMAIN v.value) = 1
KeyOf(v)  == CHOOSE k \in DOMAIN v.value : TRUE

IntentKind == [toggle |-> "switch", adjust_brightness |-> "brightness", send_ir_code |-> "ir_transmitter"]

PayloadOk(intent, v) ==
  CASE intent = "toggle"            -> TRUE
    [] intent = "adjust_brightness" -> IntIn(v, -128, 127)
    [] intent = "send_ir_code"      -> v.json = "string"

Device(entry, intent, kind) == [to |-> "device", device |-> entry.id, intent |-> intent, kind |-> kind]

parse_set(entry, v) ==
  IF ~OneKey(v) THEN Malformed400
  ELSE IF ~May(entry, KeyOf(v)) THEN Answer(422)
  ELSE IF ~ValueOk(KeyOf(v), v.value[KeyOf(v)]) THEN Malformed400
  ELSE Queued(Device(entry, "set", KeyOf(v)))

parse_intent(entry, body) ==
  IF ~OneKey(body) THEN Malformed400
  ELSE LET intent == KeyOf(body)
       IN  CASE intent = "set" -> parse_set(entry, body.value.set)
             [] intent \in DOMAIN IntentKind ->
                  IF ~May(entry, IntentKind[intent]) THEN Answer(422)
                  ELSE IF ~PayloadOk(intent, body.value[intent]) THEN Malformed400
                  ELSE Queued(Device(entry, intent, IntentKind[intent]))
             [] OTHER -> Malformed400

Found(known, answer) == IF known THEN answer ELSE Answer(404)

fire_event(n, e) ==
  Found(HasDevice(n) /\ e \in DOMAIN DirectoryDevice(n).events,
        Queued([to |-> "action", device |-> DirectoryDevice(n).id, action |-> DirectoryDevice(n).events[e]]))

activate(n) ==
  Found(HasScene(n), Queued([to |-> "scene", scene |-> CHOOSE i \in DOMAIN scenes : scenes[i].name = n]))

(* handle: the verb is checked after the path and before the name.         *)
Matches(path, shape) == Len(path) = Len(shape) /\ \A i \in DOMAIN path : shape[i] \in {path[i], "*"}
GetRoutes  == { <<"system">>, <<"devices">>, <<"devices", "*">>, <<"scenes">>, <<"scenes", "*">>,
                <<"rules">>, <<"rules", "*">> }
PostRoutes == { <<"devices", "*", "intent">>, <<"devices", "*", "events", "*">>, <<"scenes", "*", "activate">> }

Read(path) ==
  Found(Len(path) = 2 => CASE path[1] = "devices" -> HasDevice(path[2])
                           [] path[1] = "scenes"  -> HasScene(path[2])
                           [] path[1] = "rules"   -> HasRule(path[2]), Answer(200))
Write(path, body) ==
  CASE Matches(path, <<"devices", "*", "intent">>) ->
         IF HasDevice(path[2]) THEN parse_intent(DirectoryDevice(path[2]), body) ELSE Answer(404)
    [] Matches(path, <<"devices", "*", "events", "*">>) -> fire_event(path[2], path[4])
    [] OTHER -> activate(path[2])

handle(q) ==
  LET Verb(method, answer) == IF q.method = method THEN answer ELSE Answer(405)
  IN  IF \E shape \in GetRoutes : Matches(q.path, shape) THEN Verb("GET", Read(q.path))
      ELSE IF \E shape \in PostRoutes : Matches(q.path, shape) THEN Verb("POST", Write(q.path, q.body))
      ELSE Answer(404)

-----------------------------------------------------------------------------
(* A connection thread answers; what it queues is refused once the engine  *)
(* has stopped.                                                            *)
Serve(q) ==
  /\ stage = "running" /\ Len(inbound) + Len(events) < MaxRequests
  /\ LET a == handle(q)
     IN  IF a.queue # << >> /\ gone
         THEN served' = [request |-> q, status |-> 503] /\ UNCHANGED inbound
         ELSE served' = [request |-> q, status |-> a.status] /\ inbound' = inbound \o a.queue
  /\ UNCHANGED <<vars, events, gone>>

(* The adapter's tick.                                                     *)
Tick ==
  /\ stage = "running" /\ ~gone /\ inbound # <<>>
  /\ events' = events \o inbound /\ inbound' = <<>>
  /\ UNCHANGED <<vars, served, gone>>

Shutdown ==
  /\ stage = "running" /\ ~gone
  /\ gone' = TRUE
  /\ UNCHANGED <<vars, served, inbound, events>>

ApiInit == Init /\ served = NONE /\ inbound = <<>> /\ events = <<>> /\ gone = FALSE
ApiNext == (CompileNext /\ UNCHANGED apiVars) \/ (\E q \in Requests : Serve(q)) \/ Tick \/ Shutdown
Spec == ApiInit /\ [][ApiNext]_allVars
=============================================================================
