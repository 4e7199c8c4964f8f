------------------------------ MODULE MCEngine ------------------------------
(***************************************************************************)
(* A small home for the engine, with a device and a rule of each kind the  *)
(* engine treats differently: a lamp that confirms every command at once,  *)
(* a light behind a protocol adapter that may accept, refuse or be out of  *)
(* reach, a fan no adapter serves, a siren whose rule feeds back on itself,*)
(* and sensors that start and end "for:" waits.                            *)
(***************************************************************************)
EXTENDS EngineProperties

Motion == <<"sensor", "Occupancy">>
Heat   == <<"sensor", "Temperature">>
Lamp   == <<"lamp", "Switch">>
Light  == <<"light", "Switch">>
Level  == <<"light", "Brightness">>
Siren  == <<"siren", "Switch">>
Fan    == <<"fan", "Switch">>
MCCells == {Motion, Heat, Lamp, Light, Level, Siren, Fan}

MCBinding == [d \in {"sensor", "lamp", "light", "siren", "fan"} |->
                CASE d \in {"lamp", "siren"} -> "echo"
                  [] d = "light"             -> "remote"
                  [] OTHER                   -> "none"]

Nap == <<"user", "nap">>
MCUserTimers == {Nap}

Set(cell, v) == [op |-> "set", cell |-> cell, value |-> v]
Toggle(cell) == [op |-> "toggle", cell |-> cell]
Dim(by)      == [op |-> "adjust", cell |-> Level, by |-> by]
Changed(cell, to) == [on |-> "changed", cell |-> cell, to |-> to]
Rule(trigger, cond, cmds, for) == [trigger |-> trigger, cond |-> cond, cmds |-> cmds, for |-> for]

(* not (lamp on): Unknown until the lamp was heard from                    *)
LampNotOn == << [is |-> "bool", cell |-> Lamp, value |-> 1], [is |-> "not", of |-> <<1>>] >>

MCRules == <<
  Rule(Changed(Motion, 1), Always, << Set(Lamp, 1), [op |-> "cancel", key |-> Nap] >>, NONE),
  Rule(Changed(Motion, 0), Always, << Set(Lamp, 0), Toggle(Light) >>, 2),
  Rule([on |-> "crosses", cell |-> Heat, bound |-> 2, dir |-> "above"], Always,
       << [op |-> "activate", scene |-> "cool"] >>, 1),
  Rule(Changed(Lamp, 0), Always, << [op |-> "schedule", key |-> Nap, after |-> 1] >>, NONE),
  Rule([on |-> "timer", key |-> Nap], LampNotOn, << Toggle(Lamp) >>, NONE),
  Rule([on |-> "failed", device |-> "light"], Always, << Set(Siren, 1) >>, NONE),
  Rule([on |-> "reports", cell |-> Siren], Always, << Toggle(Siren) >>, NONE)
>>

(* Two scenes that activate each other, which the compiler accepts.        *)
MCCyclicScenes == [s \in {"cool", "warm"} |->
                     << [op |-> "activate", scene |-> IF s = "cool" THEN "warm" ELSE "cool"] >>]

MCNoRules == <<>>

MCScenes == [s \in {"cool"} |-> << Toggle(Lamp), Toggle(Lamp) >>]

Reports(cell, vs) == {[type |-> "report", cell |-> cell, value |-> v] : v \in vs}
Change(want) == [type |-> "change", want |-> want]
MCSouth == Reports(Motion, {0, 1}) \cup Reports(Heat, {2}) \cup Reports(Level, {95})
             \cup {[type |-> "action", device |-> "sensor", action |-> "press"]}
MCNorth == {Change(Toggle(Lamp)), Change(Dim(10)), Change(Set(Motion, 1)), [type |-> "scene", scene |-> "cool"]}
MCSwitchRequests == {Change(Set(Lamp, 0)), Change(Toggle(Lamp))}
=============================================================================
