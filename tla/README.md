# Domiform in TLA+

Specifications, model-checking runs and machine-checked proofs for domiform, the
home-automation engine of this repository. Paths are relative to the repository;
`engine.rs` without a path is `src/engine.rs`, and so on.

## 1. The system and its parts

Domiform compiles a YAML configuration into devices, scenes and rules, and runs
them on a **single-threaded, deterministic engine**. Everything concurrent is kept
at the edge: transports that talk to a broker or a controller, the HTTP server, a
signal handler, each with threads of their own, reach the engine only through
queues that it drains when the host makes it *tick*.

| part | state it keeps | operations | talks to |
|---|---|---|---|
| engine core (`engine.rs`) | virtual time, event queue, `pending_for`, `retries`, two key counters | `start`, `inject`, `advance`, each ending in `drain` | adapters by calls (`tick`, `dispatch`), observers and northbound adapters by callbacks |
| rules, conditions, store (`rule.rs`, `state.rs`, `model.rs`) | last reported value of each capability | match a trigger, evaluate a condition (three-valued) | called by the engine |
| scheduler (`adapters/scheduler.rs`) | pending timers by key | schedule, cancel, collect what is due | adapter 0 of the engine |
| clock (`adapters/clock.rs`) | last minute reported, next occurrence of each schedule | tick, `next_wake` | an adapter; fed with virtual time |
| host (`main.rs`, `wake.rs`) | the instant last read, the wake channel, the shutdown flag | the pump: plan, wait, check, advance | engine, transports, signal thread |
| REST adapter (`rest_api/mod.rs`) | state mirror, rule status, request channel | `state_folded`, `tick`; `request` from HTTP threads | engine on one side, HTTP threads on the other |
| REST server and stream (`rest_api/http.rs`, `stream.rs`) | live connections, subscriber registry with a bounded queue each, subscriber count | accept, serve, subscribe, broadcast, write, unsubscribe, shut down | one thread per connection, the engine thread, the signal thread |
| REST routes (`rest_api/routes.rs`, `json.rs`) | the directory, fixed at start | find the route, check names, capabilities and values, render an answer | mirror, request channel |
| zigbee2mqtt adapter (`zigbee2mqtt.rs`) | devices by friendly name, requests to prime them; the client library's bounded request channel and its event loop's thread | subscribe, prime, publish, translate reports; the library reconnects | engine, an MQTT broker |
| websocket adapters (`zwavejs.rs`, `matter.rs`) | name tables, last hue/saturation; a transport thread with a command queue and a reconnect loop | translate commands and reports; reconnect | engine, a controller |
| mock and virtual devices, mock northbound | none; a mirror | confirm a command at once; flip ahead of the engine | engine |
| compiler (`compile/`) | none | parse, resolve, lower, build | produces what the engine runs |
| health check, observers, plugin registry, CLI | none that matters | answer, log, look up | |

What makes each of them hard, and what makes it correct:

* **Engine.** One call of `drain` interleaves reports, elapsed timers, retries,
  scenes and `for:` waits whose order nobody wrote a test for. Correct means: a
  `for:` rule fires only if its predicate held for the whole duration; a timer is
  owned by exactly one wait; a retry happens once and ends; feedback between rules
  ends; a northbound copy that ran ahead is put right.
* **Clock.** Time jumps: a tick can be late by several occurrences. Every one must
  fire, once, in order; the minute must follow midnight and a change of the offset.
* **Host.** A wakeup must survive the gap between a tick and the next wait, a
  signal must end the process from wherever the pump is, and virtual time should
  keep up with real time.
* **Stream.** The registry, the mirror and the atomics are touched by different
  threads in different orders; queues overflow; writers sleep on a condition
  variable while shutdown notifies without the lock. Correct means: no frame is
  lost silently, no writer sleeps on one, every slot is returned.
* **Websocket transports.** A command accepted by `dispatch` may be lost while
  reconnecting; reports are split and combined (hue and saturation).
* **MQTT.** Building the adapter fills a bounded channel that nobody empties yet; a tick
  drops what finds it full; one topic serves several devices; the library repeats or
  forgets requests after an outage, and the broker forgets the subscriptions.
* **Compiler.** It must name every fault of a configuration in one go, although checks
  return early, later sections build on what earlier ones kept, and what it emits
  must be what the engine takes for granted: slots, ids, capabilities, `for:` on edges.
* **Routes.** What is queued for the engine must be what the client asked for and the
  configuration declares, by a directory that numbers its entries on its own.

`PROJECT.json` lists the hazards at their lines, and which property covers each.

## 2. Modules

```
Rules ── Scheduler      Sustained (what "for:" promises)
   \       /             │
    Engine ── EngineProperties ── EngineProofs ── PromiseProofs
                     \─ MCEngine (engine, toggle_race, scene_cycle)
Clock ── Host ── HostProperties ── HostProofs
                     \─ MCHost (host)
Stream ── StreamProperties ── StreamProofs
                     \─ MCStream (stream, stream_lost_update, stream_budget)
Bridge ── BridgeProperties ── BridgeProofs      Delivery (what a link promises)
                     \─ MCBridge (bridge)         │
Mqtt ── MqttProperties ── MqttProofs             │
                     \─ MCMqtt (mqtt, mqtt_deaf)
Lowering ── Compile ── Api ── ApiProperties ── ApiProofs
                     \─ MCApi (compile, northbound_device)
Levels (theorems only)
```

**Rules** has the vocabulary: capability kinds, triggers, conditions over a node
arena (evaluated by a recursive *function*, as the proofs require), prior values.
**Scheduler** has the operations on the pending map. **Engine** composes both. A
step is one iteration of a loop of `engine.rs`: one due timer collected, one event
popped, one rule considered, one `for:` timer armed, one `dispatch_at`. Nothing can
run in between, so this adds no behaviour; it turns the recursion of `dispatch_at`
into the sequence `work` of calls still to be made.

| code | model |
|---|---|
| `advance`, `inject` | `Advance`, `Inject` |
| `tick_adapters` | `TickTimer`, `SchedulerTicked`, `TickSouth`, `TickNorth`, `TickDone` |
| `drain`, its branches in order | `DropRunaway`, `RetryElapsed`, `ForElapsed`, `Requested`, `RequestedScene`, `FoldReport`, `TakeEvent` |
| loop over the rules; `arm_for_timer` | `ConsiderRule`; `ArmFor` |
| `cancel_reverted_for_timers` | `Reverted`, in `FoldReport` |
| `dispatch_at` and its outcomes | `ExpandScene`, `SetTimer`, `DispatchOk`, `DispatchTransient`, `DispatchPermanent` |
| `schedule_retry`, `give_up` | `ScheduleRetry`, `GiveUp` |
| `start`, `sync_northbound_startup_state` | `Init`, the tick, `Quiesce` with `booting` |

An adapter is what it may answer: `"echo"` confirms a set with a report at once
(mock, virtual), `"remote"` answers Ok, Transient or Permanent and reports whenever
it likes (the protocols), `"none"` is a device without an adapter. `heldFrom` is a
history variable.

**Sustained** is the abstract specification of `for:`: rules whose predicates hold since
some time, rules that wait, and four steps (a report, a wait begins, a wait is over and
its commands are called, time passes). It knows of no events, keys, timers or queue.
`EngineProperties` instantiates it: a rule waits if `pendingFor` has a key for it, `since`
is `heldFrom`, and what is called is `work`. `ForKeepsPromise` says that every step of the
engine is one of Sustained's or changes nothing there: `FoldReport` is a report, `ArmFor`
begins a wait, `ForElapsed` ends the one of the timer's owner, `Advance` passes time.

**Clock** keeps `reported` (with `last_emit_min`), `armed`, `nextFire` and the
history `fired`. The time zone, the ephemeris and the cron parser are external:
constants give an offset and a light for every instant and a set of occurrences for
every schedule. `CatchUp` is the `while let` of `fire_due_schedules`. **Host** adds
the pump, one program counter step per operation on something shared, the wake
channel as a counter (each `recv` takes one), transports in two steps (queue, then
wake), and the signal thread in two (flag, then wake). Real time has `Sub` units to
the millisecond; virtual time has milliseconds.

**Stream** has one process for the engine's callbacks (broadcast, notify, mirror), the
accept loop, a thread per connection and the signal thread. A step is one critical
section or one atomic operation; the registry's mutex is held across steps only by
a writer between its shutdown check and its look at the queue (`"checked"`). `view`
is what a client believes, `told` who was told of a gap, `overtaken` which
capabilities were broadcast but not yet mirrored when a client subscribed.

**Bridge** is what the Z-Wave JS and the Matter adapter share: a transport thread that
connects, sends `start_listening`, pumps frames both ways and starts over after
`RECONNECT_DELAY`, with an unbounded queue on either side. `thread` is the place in
`run_connection`; the updates of one frame are queued one by one (`parsed`), because a
tick may come between. Matter's `hue_sat` is `seen`, and a Z-Wave value is a capability of
one attribute; `notification` is Z-Wave's. A device is followed through its numbered
values, so that old and new can be told apart. Server and socket are external: frames
arrive in order, and a break loses what is on its way to the server and some of what
comes from it. `lost`, `executed` and `acted` are history.

**Mqtt** has the engine's thread (`connect`'s subscriptions one by one, the first tick's
priming requests one by one, `tick` and `dispatch`), the client library's thread (connect,
send, receive, break, recover) and, external, the broker with zigbee2mqtt behind it.
`requests` is the library's channel; a subscription blocks while it is full, a publish is
dropped or refused. A value carries the field of the device it comes from and a number, so a
belief says whose it is and how old. After a break the library keeps what it had not
seen acknowledged, in an order of its own, or forgets it; the broker's session is clean.
A dispatch that answers Transient or Permanent changes nothing and has no action.

| code | model |
|---|---|
| `connect`; the prime loop of the first `tick`; `tick` with `poll`; `dispatch` | `Subscribe`; `Prime`; `Tick`; `Dispatch` |
| `json_to_device_events`, `read_attr`, `command_to_publish` | `Reports`, `Readable`, `Settable` |
| the loop over `connection.iter()` | `Connected`, `ConnectFailed`, `Broken`, `Recover`, `Send`, `Receive` |

**Delivery** is the abstract specification of both links, as seen by whoever dispatches: which
commands were accepted, which will still arrive (`underway`), which of those keep their place
in the order (`fresh`), and what arrived. It has no threads, queues, frames, acknowledgements
or sessions, and four steps: a command is sent, one arrives, an outage, a loss while the link
is down. `BridgeProperties` instantiates it without repetition: under way is what is in the
queue or on the socket, all of it is fresh, and the link is down while the socket is broken
(`DeliversOnce`). `MqttProperties` instantiates it with repetition: under way is what is in the
channel, put aside, or on the wire; fresh is what was accepted since the last break; a break
brings back, stale, what was executed and not yet acknowledged; and the link is down after a break
until the next connection (`Delivers`).

**Lowering** is `compile/lower.rs`: for each kind of node the sequence of its checks in the
code's order, each of which either returns at once (a `?`) or reports and goes on, and what a
node becomes. **Compile** is `resolve.rs` and `build_engine`: one action per section
(`Adapters`, `Devices`, `Schedules`, `LowerScenes`, `LowerRules`), `Conclude` for the lints, the
exposed devices, the addresses and the verdict, and `Build`, which numbers the engine's slots.
The plugins' `validate_*` functions are `ConfigErrors` and `AddressErrors`. **Api** puts the
REST directory and `handle` on the compiled graph: `Serve` answers one request, `Tick` takes
what was queued, `Shutdown` is the engine's end of the queue going away. A name is a position
in sorted order, as in the code, whose maps are B-trees; ids count from 1 instead of 0.

**Levels** has the conversions between percent and device levels and the relative steps of
`resolve_implicit_state_command`. It has no state, only theorems.

Definitions named `Fault...` beside an action or operator are the variants a plausible
slip would produce. No specification uses them; each shows that the property paired with
it in `PROJECT.json` fails when the code has that slip.

## 3. Runs

All bounds are constants, named in the modules and given in the `.cfg` files.

| run | instance | what it shows |
|---|---|---|
| `engine` | a lamp that confirms at once, a light that may refuse or time out, a siren in a feedback loop, a fan without adapter; 7 rules (two with `for:`), a scene of two toggles, a user timer, 3 outside events, 3 attempts, time to 4 in steps of 2 | `TypeOK`; `ForSustained`: a wait never outlives its predicate; `ForTimersOwned`: each wait has exactly one timer or one elapsed event, each such timer one owner; `NothingOverdue`; `RetriesOwned`; `MirrorSettles`; `ForKeepsPromise`: the engine implements Sustained; liveness `DrainTerminates`, `RetriesSettle`, `ForWaitsEnd` |
| `host` | 2 transports, 2 messages, 2 schedules with coinciding and consecutive occurrences and one at boot, midnight and an offset change, 2 signals, 8 ms of 2 units | `FiredExactly`, `ClockCurrent`, `NeverOversleeps`, `NoLostWakeup`, `LagBounded`, liveness `ShutdownExits` |
| `stream` | 2 connection threads, 1 capability of 1 value, queue of 1, 2 frames, 2 accepts | `OnlyOvertakenLost`, `NoSleepOnFrames`, `NewestKept`, `SlotsExact`, liveness `FramesDelivered`, `StreamsEnd` |
| `bridge` | one device of two attributes with a button, 2 commands, 1 change by hand, 1 press, 2 failed or broken connections | `DeliversOnce`: the transport implements Delivery without repetition; `CommandsAccounted`: what an outage may lose and what it may not; `PressesOnce`; `NeverRegresses`; liveness `Settles` |
| `mqtt` | a switch with 2 loads under one name and a meter under another, a channel of 3, 2 new values by command or by hand, 2 failed or broken connections | `SubscribeNeverBlocks`, `PrimesGetThrough`: what fits the channel at start; `BelievesOwnLoad`; `Delivers`: adapter, library and broker implement Delivery with repetition; liveness `LearnsUntilBreak`, `LastCommandWins` |
| `compile` | a home of 3 adapters, 3 devices, 1 schedule, 2 scenes and 2 rules, varied in five pairs of its sections to 2812 configurations, right and wrong ones; one request of any kind | `FaultsReported`: every faulty place is named, and no sound one (but see `northbound_device`); `Runnable`: what is built is what was declared and what the engine relies on; `ServedFaithfully`: the engine gets what clients may ask for, under the right ids |

These bounds are enough for the cases to meet. In `engine` three events allow an edge, a revert
and a second edge, or two waits and a request at once; a step of 2 jumps over the end of the
wait of 1 and of the nap (1), and hits that of the wait of 2 just when it is due; three attempts
use both back-off intervals, and depth 2 cuts the siren's loop. In `host` two units to the
millisecond are the least that can be truncated, 8 ms span four minutes of a day of four, so
that no minute comes round twice, and two transports with two messages include a wake between a
drain and a wait. In `stream` a queue of one overflows with two frames, two clients are served
at once or one after the other by one thread, and a third is refused. In `bridge` two breaks put
a whole connection, with its snapshot, between two outages, and two commands can be one before
and one during an outage. In `mqtt` the channel holds the subscriptions and one more request,
and two names are to be primed: one request may have to be dropped, never both. What priming
leaves in the channel is what the commands find there. Commands and changes by hand share one
bound, two, so that there are two commands, two changes, or one of each; two breaks let what was put
aside at the first be put aside again. In `compile` pairs of sections suffice, because a section
looks at most at one other (rules at devices or schedules, scenes at devices, exposed names and
bindings at adapters and devices). The mutants are the evidence: each run finds the slip its
property is about.

Runs expected to fail state what a document or comment says and the code does not do:

| run | statement | what happens |
|---|---|---|
| `toggle_race` | `ToggleFlips`: relative commands "can't race with in-flight state" (`tests/requested_change.rs`) | two toggles drained in one tick are both resolved against the store before the first confirmation is folded: the device flips once |
| `scene_cycle` | `DrainTerminates` | scenes that activate each other are accepted by the compiler, and `dispatch_at` expands them at one causal depth, so `max_cascade_depth` never ends it (in the code, the stack does) |
| `stream_lost_update` | `InSync`: registering before the snapshot closes the lost-update window (`stream.rs:131-135`) | `fan_state_folded` broadcasts before the mirror is updated; who subscribes and reads its snapshot in between gets neither |
| `stream_budget` | `StreamsBudgetedApart`: streams are "not counted here" and "budgeted separately" (`http.rs:55-63`, `README.md:302-304`) | a stream keeps the connection slot it was accepted under until its thread ends, and `MAX_STREAMS` is only a second limit: with a stream open, a plain request less than `MAX_CONNECTIONS` fills the server, and the next gets 503 |
| `mqtt_deaf` | `OutagesHeal`: a broker that goes away "isn't fatal" (`ARCHITECTURE.md:440-441`) | the topics are subscribed once, before the thread starts, and the loop lets the ConnAck of a new, clean session pass: after a reconnect commands go out, but no report comes in any more |
| `northbound_device` | `DevicesBound`: "a device never binds to a northbound adapter (the resolver rejects that)" (`compile/mod.rs:213-215`) | no check looks for it: the device is accepted and bound to `NO_SLOT`. A debug build panics at the assertion, a release build at the first command to the device |

What remains true beside these: `OnlyOvertakenLost` (the window between broadcast and
mirror is the only silent loss), `SlotsExact` (every slot is given back, and `MAX_CONNECTIONS` bounds
requests and streams together), `Runnable` (a home without such a device runs what it
declares), and `LearnsUntilBreak` and `LastCommandWins` (until the first outage the engine knows
its devices, and commands work after it).

### Fairness

* Engine: a call runs on once it has begun (`WF` of `Drain`, of the two scheduler
  steps and of `TickDone`): it is a loop without blocking operations. The host keeps
  calling `advance`, at the latest after `MAX_SLEEP` (`main.rs:36-40`). Nothing is
  assumed of devices: an adapter may never answer.
* Host: the threads that can run do. There is no fairness on time, signals or messages;
  `ShutdownExits` therefore holds without any help from a timeout.
* Stream: each thread that can run does. A write to a socket succeeds or fails in
  bounded time (`IO_TIMEOUT`, `http.rs:64-70`), and a wait ends after
  `STREAM_KEEPALIVE`. `StreamsEnd` depends on the latter, because `shutdown` notifies
  without the lock and a writer may be just short of its wait.
* Bridge: the transport's task runs, `select!` starves no branch that stays ready, the
  server answers once it is reachable, and the host ticks. Breaks are bounded, not
  unfair: `Settles` says what holds when they end. That a reachable server sends its
  first frame is assumed; `negotiate_schema` (`zwavejs.rs:565`) has no timeout of its own.

* Mqtt: the engine's thread, the library's and the broker run on; breaks are bounded. The
  `Subscribe` that waits for room is the engine's thread not running on: no fairness helps it.
* Compiler and routes: no liveness; a compilation is a fixed number of steps.

Deadlock checking is off where a system ends (a process that exited, closed
streams) or the bounds stop the environment.

## 4. Proofs

Checked by TLAPS for all values of the constants that satisfy the named assumptions
(`RulesAssumption`, `KeyAssumption`, `InputAssumption`, `EngineAssumption`, `ClockAssumption`,
`HostAssumption`, `StreamAssumption`, `BridgeAssumption`, `MqttAssumption`,
`LoweringAssumption`, `CompileAssumption`, `ApiAssumption`), that is, for every set of rules,
schedules, devices, connections, events, configurations, requests and bounds. The sets of
schedules, connections and devices are assumed finite: in the code they are vectors and maps.

Engine:

* `EngineProofs!TypeCorrect`: `Spec => []TypeOK`. One lemma per shape of event, one
  for each helper (`Calls`, `Resolve`, `Backoff`, the scheduler's operations), one
  step per action.
* `EngineProofs!SustainedCorrect`: `Spec => []ForSustained`. A `for:` wait that
  is owned implies its predicate in the store. This is not inductive: `ArmFor`
  starts a wait some steps after the edge was matched. `SustainedInv` adds
  `MatchedIsFolded` (while a report is matched, the store holds the reported value,
  because nothing folds between `FoldReport` and the last `ConsiderRule`) and
  `ArmsSustained` (each rule on `arms` has its predicate in the store). `EdgeMatch` links
  them: an edge trigger that matches a report implies its predicate of that value.
  The step that may change the store, `FoldReport`, cancels what it falsifies.
* `PromiseProofs!PromiseKept`: `Spec => ForKeepsPromise`, the refinement of Sustained. That a
  wait is not cut short is a fact about a key that travels: from `ArmFor` into the
  scheduler's map, from there into the queue, from there to its owner. `PromiseInv` says
  of each stage what is needed at the next: `KeysOwned` and `KeysFresh` (a key waits for
  one rule, and the next key is in neither place, so no elapsed event of an earlier wait can
  be mistaken for a later one's), `HeldTruly` (`heldFrom` is right), and `NotEarly` (the timer
  is set for the end of the duration or later, and a queued elapse means it is over). With
  `ForSustained` each step maps to one of Sustained's (`FoldMaps`, `ArmMaps`,
  `ElapsedMaps`) or to a stutter. `KeyAssumption` is needed in one place: a `schedule_timer`
  of a configuration must not replace the timer of a wait.
* `PromiseProofs!OwnersCorrect` and `RetriesCorrect`: `Spec => []ForTimersOwned` and
  `Spec => []RetriesOwned`. `QueueInv` is about the queue: elapsed timers are at its front and
  at depth 0 (so the cut-off never drops one), each once, and gone before a report is
  matched or a timer armed (so a replaced or cancelled timer is never already on its
  way). `KeysInv` matches the keys that will come back, `Coming`, with who waits for them: a
  generated key is in the scheduler or in the queue and never in both, and belongs to a rule
  or to a command in `retries`. `KeyAssumption` is needed again: an elapsed timer that only rules
  take is nobody's wait.
* `EngineProofs!MirrorCorrect`: `Spec => []MirrorSettles`. While calls run, a mirror may
  differ from the store, but only if the request that made it run ahead is still in the
  queue (`OnlyAhead`), at depth 0, where the cut-off of runaway cascades cannot drop it.
* `EngineProofs!NothingOverdueCorrect`: `Spec => []NothingOverdue`. After the scheduler's tick
  nothing is due, just now included (`NowIsDone`, `NowStep`), so that the other adapters tick after
  every timer; and whatever is set in the rest of the call is set for now or later (`PastIsDone`).

Host and clock (`HostProofs`):

* `WakeupsCorrect`: `Spec => []NoLostWakeup`, any number of transports.
  The invariant `Accounted` extends the claim from the wait to the whole span since the
  tick that missed the message.
* `LagCorrect`: `Spec => []LagBounded`, any resolution of real time.
  `LagInv` adds that virtual time stands still before the loop and that `last` is
  never in the future; `MillisDropped` is the arithmetic of the truncation.
* `TypesCorrect`, `SchedulesCorrect`, `SleepCorrect`: `Spec => []TypeOK`, `[]FiredExactly` and
  `[]NeverOversleeps`, any set of schedules with any occurrences, any offsets and any
  times between ticks. The invariant is `IInv`: `Present` (types, and with `LagInv` that
  virtual time stays within the run), `Caught` (everything up to the present is fired,
  in order, and from the boot tick on each schedule waits for its next occurrence) and `Reported`.
  `FiredExactly` alone says nothing of `nextFire`, so the next tick could fire anything. The
  loop of `fire_due_schedules` is a recursive function; `CatchUpIs` proves what it computes:
  the closed form satisfies the loop's equation (`LoopsStep`), so the equation has a solution, and
  two solutions cannot differ, because at the last occurrence where they would, they agree on
  the next. `LoopsFromNext` then says that a tick from the occurrence after one instant to another
  fires exactly what lies between (`TickCatchesUp`), `OrderExists` that any finite set of fires
  can be sorted, and `InOrderIs` that the sort loses and repeats nothing.
* `ReportsCorrect`: `Spec /\ [][NoLap]_vars => []ClockCurrent`. The hypothesis is what
  `last_emit_min` relies on: no single advance moves to another minute with the same minute
  of the day. Without it the theorem is false, and so it would be of the code: after a tick
  that is late by exactly a day, or by the hour that the clocks went back, the minute is right
  and `SunUp` is that of the earlier one. What holds without it is `Reported`.

Event stream (`StreamProofs`), any number of connections, capabilities and frames and any
queue capacity, from one invariant `IInv`, which is inductive:

* `TypesCorrect` and `SlotsCorrect` (`TypeOK`, `SlotsExact`): `Structure` says who is registered
  by the place of the connection's thread; `Slots` that the counter counts the open ones, streams
  included; the guard of `Accept` keeps it within `MaxConnections`.
* `AwakeCorrect` (`NoSleepOnFrames`) is inductive once `Structure` is there.
* `NewestCorrect` (`NewestKept`): whatever overflows, a queue keeps its bound and ends with the frame
  just broadcast, until the notification; and a queue that is flagged stays full until its writer
  takes it, because nothing else takes from it.
* `ClientsCorrect` (`OnlyOvertakenLost`): the claim is about clients whose queue is empty, and
  says nothing of the way there. `Synced` states it for every registered client at every moment:
  read through its batch and its queue to the end, it believes what the mirror *will* say once
  the fold under way is done (`Expected`), for each capability its snapshot has read or a
  queued frame is about; except what overtook it, and unless it was or will be told that it lags.
  One lemma for each of the steps that move a frame: broadcast, fold, read, take, write.

Websocket transports (`BridgeProofs`), any number of commands, attributes, breaks and presses:

* `OrderCorrect`: `Spec => []CommandsInOrder`.
  `OrderInv` makes the queue, the socket and the history, read backwards, one increasing
  sequence of commands, with `start_listening` anywhere between them; each action takes
  from the front of one and appends to the next, or drops. No run checks `CommandsInOrder`
  any more, since `DeliversOnce` says more: not only what was executed but what executes next.
* `DeliversCorrect`: `Spec => DeliversOnce`, the refinement of Delivery, from `OrderInv`. `Dispatch`
  sends, `ServerExecutes` delivers, `Break` is the outage, `WriteFrame` moves a command or loses it
  on a socket that is broken already; everything else is a stutter, `start_listening` included.
  `OrderInv` is what makes the head of the socket the oldest command under way.
* `AccountsCorrect` (`CommandsAccounted`): `Everything` is an equation between what was issued and the
  four places it can be in; `WireInv` gives the condition under which something is lost at all.
* `PressesCorrect` (`PressesOnce`) and `FreshCorrect` (`NeverRegresses`, an action property): `Way`
  makes the frames, the parsed updates and the inbound queue one sequence in which nothing is
  older than what precedes it, true when it was sent (`Sent`) and news to the engine (`News`);
  `Past` says the engine knows nothing from the future. Why a snapshot after an outage is
  no way around: it goes to the end of the same queue. `TickFolds` and `TickActs` are about what a
  tick makes of the whole queue at once.

MQTT (`MqttProofs`), any number of devices and any capacity:

* `StartCorrect`, `NeverStarts`, `PrimesCorrect`: start-up never blocks if every friendly name has
  a slot in the channel, and hangs for ever if not (64 in the code, `zigbee2mqtt.rs:541`); the
  priming requests dropped are at most those beyond what the subscriptions leave.
  `SubscribingInv` counts: slots used plus names to go are all names, for as long as nobody
  empties the channel; `PrimingInv` goes on from there.
* `TypesCorrect` and `LoadsCorrect` (`TypeOK`, `BelievesOwnLoad`): `Typed` follows whose value each
  request, report and belief carries, over the whole round trip: a command names the node whose
  field its value belongs to, and a report gives each field of its node a value of that field.
* `CommandsCorrect` (`CommandsKept`): a command leaves `unacked` when an acknowledgement arrives that
  carries no name, so the claim rests on acknowledgements and requests matching by position.
  `Window` states it: what the library waits for is, in order, the requests whose acknowledgements
  are on their way down, all executed, and then those on their way up. Two counting functions
  place them, since no prover here unfolds a recursive count. `Untroubled` (history, wire
  and channel are one rising sequence until the first break) gives that nothing is executed twice.
* `DeliversCorrect`: `Spec => Delivers`, the refinement of Delivery, which holds after breaks too.
  `Turns` says that unacknowledged requests, those put aside and those in the channel are, in
  this order, free of repetitions, and that a recent command has only newer ones behind it. It
  speaks of `unacked` and not of the wire, because a break puts aside what was unacknowledged.
  `WireTurns` gets the wire from it by `Window`: what the wire carries is among the
  unacknowledged, in their order, and the unacknowledged that it does not carry were executed.
  Hence the broker takes the oldest if it is recent, and a break brings back nothing that was not
  under way or executed. After a break nothing is recent (`NoneRecent`), so the order in
  which the library puts things aside does not matter. That only a session after a break
  forgets is `Untroubled` again: at the first connection nothing is put aside.
  `CommandsCorrect` is still proved, for it names the place of a command, but no longer checked by a run.

Compiler and routes (`ApiProofs`), any set of configurations and any requests. `IsConfig` says what
a configuration is after serde: every list a sequence, every field of a node's payload there or
optional, every literal of its syntactic form (`IsNode`, `PayloadFields`, from the structs of
`ast.rs`). It does not say that a name is declared or a value in range: that is the compiler's to
find out. A request has a path that is a sequence; its body is anything.

* `ReportsFaults`: `Spec => []FaultsReported`. The invariant is `Compiled`: every table is what its
  section made of the configuration (`AdapterDefs` to `RuleDefs`), the diagnostics are exactly those
  of the sections done so far, and the verdict is theirs. `FaultsReported` says nothing of the
  sections in between, so it needs all of it. The rest is about one configuration:
  - *Order.* Ids are positions, so `PlaceIs` (counting up is a bijection between a finite set of
    positions and `1..n`, `Nth` its inverse) and `SortedIs` (in name order nobody is left out or
    listed twice) make the device with a name's id the device with that name (`DeviceDefsAre`).
  - *Checks.* A node's checks may stop at the first that fails. `ErrorsIs`: that hides errors, but
    never that there is one, because the first failing check always reports. `TriggerDecides`,
    `ConditionDecides` and `CommandDecides` then say, verb by verb, that a node has errors exactly
    if it is not `Sound`, and lowers if it is, given tables that reflect the declarations
    (`Reflects`): that is where a device dropped with its unknown adapter makes a sound node fail.
  - *Misplaced devices.* A device under a northbound adapter is `Faulty` but fails no check. `Checked` are
    the places that fail one; `VerdictIs` says that those are what the errors name and the verdict
    goes by, `FaultyIs` that they are all faulty places but the misplaced ones.
  - *Blame.* `Accuses` is claimed of each section's diagnostics against its own kind of place; lints
    never blame (`LintsWarn`). `RuleDecides` shows why a `for:` that is not read until trigger and
    condition lower is still always reported, or its rule is for another reason.
* `BuildsRunnable`: `Spec => []Runnable`, from `Compiled` and the previous theorem, for a configuration
  with no misplaced device: what was accepted is sound everywhere (`AllSound`), so nothing was
  dropped, `commands` kept every command (`CommandsLower`), and each node refers to a bound device that provides what is used of it
  (`NodeBound`, `NodeResolved`). `SlotsAre`: slot and driver agree although northbound adapters,
  which have no slot, come anywhere among the others; `AdaptersSouth` and `BoundIs`: so every device
  has a slot, and the adapter there is its own.
* `ServesFaithfully`: `Spec => []ServedFaithfully`. The invariant is `Answered`: the last answer is what
  `handle` says, and the request it queued is still the last of what the engine took or will take.
  `DirectoryIs` relates the API's own numbering to the compiler's, `Routed` shows that a path fits one
  route, and `SetAnswered` to `ScenesAnswered` go through the writes, both ways: accepted only if
  deserved, and refused only if not, but for the clock's name and a stopped engine.

These proofs changed the model in three places. Two branches of `CommandChecks` overlapped, which
TLA+ leaves open, so that nothing followed for a verb in both. A device called `*`, a legal name, made
`command_failed` about that device in `Subject` and in `Sound`; in `lower.rs:335-342` a star is any
device. And what serde guarantees had to be said.

Arithmetic:

* `Levels`: for every percentage, `LevelRoundTrip` (a zigbee2mqtt or Matter dimmer reports
  what it was told), hence `StepsExact`; `ZwaveRoundTrip` and `ZwaveSticks`: on Z-Wave's
  scale 50 comes back as 51, the one exception, so a dimmer stepped down by one stops
  there, although `zwavejs.rs:228` calls the function an inverse. `FadesFit`: a Matter
  fade of 6553.6 s wraps to none. They are arithmetic, each from the bounds of a quotient.

Only model-checked: all liveness (fairness and `ENABLED` are beyond the prover). Every invariant and
safety property of a passing run has a theorem.

Some definitions have the form they have so that they can be reasoned about: what a tick makes
of a queue is stated by the place of the last update that counts (`LastOf`, `Newest`, `LastRead`)
or by position (`Presses`, `Listed`), not by a fold, and the order of fires by what is ordered.
The runs check the same definitions that the proofs use.

## 5. Plan

Done in this order, the most important behaviour first: engine with rules and
scheduler; stream; clock and host; the websocket transports; MQTT; the abstract `for:`
rule and its refinement; compiler and REST requests; proofs of all invariants; the abstract
link and its two refinements.
Next:

1. **Composition**: `Engine` with a `"remote"` binding that is `Delivery` instead of a free choice
   of answers and reports.
2. **Rule status** in the REST mirror, and the composition of the mirror with `Engine`
   instead of the nondeterministic folds of `Stream`.

## 6. Not modelled, and why

* The translation tables of the protocols (cluster, attribute and value ids, colour
  spaces): data without state. A colour made of one new and one old half, which Matter's
  separate reports cause, is in `Bridge`, but no property forbids it.
* Syntax: parsing of HTTP, JSON and YAML, durations and colours as text, the wording of
  diagnostics, the bodies of answers (`describe.rs`). A node of a configuration is a record or
  "malformed", a JSON value is a tagged value. Whether a request is authorised only
  decides whether it is served.
* Event actions of zigbee2mqtt devices: like a report, without a store.
* A user's device called `clock`: the clock hides it from the API. `ServedFaithfully` leaves
  it out.
* That the subscriber count never lags: the code stores it outside the lock it was computed
  under, and no document claims more. It is listed as a hazard.
* That virtual time keeps up with the wall clock ("it tracks wall-clock elapsed",
  `README.md:287-288`): every iteration of the pump truncates the elapsed time to milliseconds and
  forgets the rest (`main.rs:405`). Each message is an iteration, and so is each surplus wakeup
  (`wake.rs:53-55` says that they coalesce, but `wait` takes one). A hundred messages a second cost
  about 50 ms a second, and the time of day and all schedules are derived from this time. `Host` has
  this behaviour, and `LagBounded` is the bound it does keep: less than a millisecond an advance, and
  never a gain. Any bound that does not grow with the advances fails.
* Observers that log, the health check (a fixed answer), the plugin table, the command
  line.
* The synchronisation primitives of the standard library are taken as documented:
  a mutex, a condition variable whose wait ends by a notification or the timeout (a spurious
  wakeup is a timeout that comes early), an unbounded channel.
* User timer keys are assumed distinct from the engine's `__for:` and `__retry:` keys
  (`KeyAssumption`), as the design wants them (`05-for-duration.md:124`). The compiler does
  not enforce it.
* A whole day, or an hour that a change of the offset repeats, between two ticks of
  the clock: the minute would be the same and a changed `SunUp` would wait for the next
  minute. The pump ticks at least once a minute; `host` covers less than a day.
