-------------------------------- MODULE Host --------------------------------
(***************************************************************************)
(* The host of the engine: the pump of main.rs (run_engine), the wake      *)
(* channel (wake.rs), the signal thread, and the transport threads that    *)
(* queue what they receive and wake the pump.                              *)
(*                                                                         *)
(* Real time passes in fractions of a millisecond, Sub to the millisecond; *)
(* virtual time in milliseconds.  An action is one operation on something  *)
(* two threads share: a transport's queue, the wake channel, the shutdown  *)
(* flag, or real time.  The engine's own work is Engine; here a tick takes *)
(* everything the transports queued, and drives the clock.                 *)
(***************************************************************************)
EXTENDS Clock

CONSTANTS
  Sources,      \* transport threads
  Sub,          \* units of real time in a millisecond
  MaxSleep,     \* MAX_SLEEP, in milliseconds
  MaxInbound,   \* bound: messages the transports receive
  MaxSignals    \* bound: SIGINT and SIGTERM received

ASSUME HostAssumption ==
  /\ Sub \in Nat \ {0} /\ MaxSleep \in Nat \ {0}
  /\ MaxInbound \in Nat /\ MaxSignals \in Nat

VARIABLES
  real,       \* real time since boot_epoch_ms was read
  now,        \* Engine::now
  pump,       \* "build" | "start" | "loop" | "wait" | "check" | "advance" | "exited"
  last,       \* the instant the pump last read
  began,      \* history: the first one
  until,      \* when the wait under way times out; 0 outside a wait
  wakeups,    \* signals in the wake channel
  inbound,    \* messages queued for the next tick
  source,     \* transport thread -> "idle" | "queued", between its push and its wake
  shutdown,   \* the flag
  signals,    \* the signal thread: "idle" | "flagged", between the flag and the wake
  advances,   \* history: calls of advance
  received, signalled   \* bounds

pumpVars == <<now, pump, last, began, until, advances>>
sourceVars == <<source, received>>
signalVars == <<shutdown, signals, signalled>>
vars == <<clockVars, real, pumpVars, wakeups, inbound, sourceVars, signalVars>>

Init ==
  /\ ClockInit
  /\ real = 0 /\ now = 0 /\ pump = "build"
  /\ last = 0 /\ began = 0 /\ until = 0 /\ advances = 0
  /\ wakeups = 0 /\ inbound = 0
  /\ source = [s \in Sources |-> "idle"] /\ received = 0
  /\ shutdown = FALSE /\ signals = "idle" /\ signalled = 0

Running == pump # "exited"

-----------------------------------------------------------------------------
(* The pump *)

(* engine.start(): the boot tick, at virtual time 0.                       *)
Start ==
  /\ pump = "build"
  /\ ClockTick(0)
  /\ inbound' = 0
  /\ pump' = "start"
  /\ UNCHANGED <<real, now, last, began, until, advances, wakeups, sourceVars, signalVars>>

(* let mut last = Instant::now(): whatever starting took is not counted.   *)
EnterLoop ==
  /\ pump = "start"
  /\ last' = real
  /\ began' = real
  /\ pump' = "loop"
  /\ UNCHANGED <<clockVars, real, now, until, advances, wakeups, inbound, sourceVars, signalVars>>

Timeout == IF NextWake(now) < MaxSleep THEN NextWake(now) ELSE MaxSleep

Plan ==
  /\ pump = "loop"
  /\ IF shutdown
     THEN /\ pump' = "exited"
          /\ UNCHANGED until
     ELSE /\ pump' = "wait"
          /\ until' = real + Sub * Timeout
  /\ UNCHANGED <<clockVars, real, now, last, began, advances, wakeups, inbound, sourceVars, signalVars>>

(* WakeListener::wait: one signal is taken off the channel, or the time is *)
(* up.                                                                     *)
Signaled ==
  /\ pump = "wait"
  /\ wakeups > 0
  /\ wakeups' = wakeups - 1
  /\ pump' = "check"
  /\ until' = 0
  /\ UNCHANGED <<clockVars, real, now, last, began, advances, inbound, sourceVars, signalVars>>

TimedOut ==
  /\ pump = "wait"
  /\ wakeups = 0
  /\ real >= until
  /\ pump' = "check"
  /\ until' = 0
  /\ UNCHANGED <<clockVars, real, now, last, began, advances, wakeups, inbound, sourceVars, signalVars>>

CheckShutdown ==
  /\ pump = "check"
  /\ pump' = IF shutdown THEN "exited" ELSE "advance"
  /\ UNCHANGED <<clockVars, real, now, last, began, until, advances, wakeups, inbound, sourceVars, signalVars>>

(* Duration::as_millis drops the fraction of the millisecond.              *)
FaultRoundedUp(span) == (span + Sub - 1) \div Sub
AsMillis(span) == span \div Sub

(* engine.advance(elapsed): every transport's queue is taken, and drained. *)
Advance ==
  /\ pump = "advance"
  /\ now' = now + AsMillis(real - last)
  /\ last' = real
  /\ ClockTick(now')
  /\ inbound' = 0
  /\ advances' = advances + 1
  /\ pump' = "loop"
  /\ UNCHANGED <<real, began, until, wakeups, sourceVars, signalVars>>

-----------------------------------------------------------------------------
(* The other threads *)

(* A transport queues what it received, then wakes the pump.               *)
Queue(s) ==
  /\ Running
  /\ source[s] = "idle"
  /\ received < MaxInbound
  /\ inbound' = inbound + 1
  /\ received' = received + 1
  /\ source' = [source EXCEPT ![s] = "queued"]
  /\ UNCHANGED <<clockVars, real, pumpVars, wakeups, signalVars>>

FaultWakeIfAsleep(s) ==
  /\ Running
  /\ source[s] = "queued"
  /\ wakeups' = IF pump = "wait" THEN wakeups + 1 ELSE wakeups
  /\ source' = [source EXCEPT ![s] = "idle"]
  /\ UNCHANGED <<clockVars, real, pumpVars, inbound, received, signalVars>>
Wake(s) ==
  /\ Running
  /\ source[s] = "queued"
  /\ wakeups' = wakeups + 1
  /\ source' = [source EXCEPT ![s] = "idle"]
  /\ UNCHANGED <<clockVars, real, pumpVars, inbound, received, signalVars>>

(* The signal thread exists once the engine has started.  A second signal  *)
(* ends the process.                                                       *)
Signal ==
  /\ pump \notin {"build", "exited"}
  /\ signals = "idle"
  /\ signalled < MaxSignals
  /\ signalled' = signalled + 1
  /\ shutdown' = TRUE
  /\ IF shutdown
     THEN pump' = "exited" /\ UNCHANGED signals
     ELSE signals' = "flagged" /\ UNCHANGED pump
  /\ UNCHANGED <<clockVars, real, now, last, began, until, advances, wakeups, inbound, sourceVars>>

FaultNoWake ==
  /\ Running
  /\ signals = "flagged"
  /\ signals' = "idle"
  /\ UNCHANGED <<clockVars, real, pumpVars, wakeups, inbound, sourceVars, shutdown, signalled>>
SignalWake ==
  /\ Running
  /\ signals = "flagged"
  /\ wakeups' = wakeups + 1
  /\ signals' = "idle"
  /\ UNCHANGED <<clockVars, real, pumpVars, inbound, sourceVars, shutdown, signalled>>

Pass ==
  /\ Running
  /\ real < Sub * MaxTime
  /\ real' = real + 1
  /\ UNCHANGED <<clockVars, pumpVars, wakeups, inbound, sourceVars, signalVars>>

Pump == Start \/ EnterLoop \/ Plan \/ Signaled \/ TimedOut \/ CheckShutdown \/ Advance

Next ==
  \/ Pump
  \/ \E s \in Sources : Queue(s) \/ Wake(s)
  \/ Signal \/ SignalWake
  \/ Pass

Spec == Init /\ [][Next]_vars

(* Threads that can run do run; nothing makes a transport receive, a       *)
(* signal arrive, or (the runs being bounded) time pass.                   *)
Fairness ==
  /\ WF_vars(Pump)
  /\ WF_vars(SignalWake)
  /\ \A s \in Sources : WF_vars(Wake(s))

FairSpec == Spec /\ Fairness
=============================================================================
