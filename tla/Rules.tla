------------------------------- MODULE Rules -------------------------------
(***************************************************************************)
(* The vocabulary and the rule semantics of domiform: rule.rs, state.rs    *)
(* and the parts of model.rs they read.                                    *)
(*                                                                         *)
(* State lives on capabilities.  A cell is a pair <<device, kind>> and the *)
(* state store maps every declared cell to an integer or to NONE, which    *)
(* is Rust's None: "never reported".  A boolean state is 0 or 1; a colour  *)
(* is an opaque code.                                                      *)
(***************************************************************************)
EXTENDS Integers, Sequences

LOCAL INSTANCE SequencesExt

CONSTANT NONE                 \* Option::None

-----------------------------------------------------------------------------
(* Capability kinds *)

BoolKinds    == {"Switch", "Occupancy", "SunUp", "Contact", "WaterLeak", "Smoke"}
NumericKinds == {"Brightness", "Battery", "ColorTemperature", "TimeOfDay",
                 "Temperature", "Humidity", "Illuminance", "Power"}
WritableKinds == {"Switch", "Brightness", "Color", "ColorTemperature", "IrTransmitter"}
Kind == BoolKinds \cup NumericKinds \cup {"Color", "IrTransmitter"}

DeviceOf(cell) == cell[1]
KindOf(cell)   == cell[2]

(* The boolean view and the numeric view of a stored value: None when the  *)
(* capability has another shape or was never reported.                     *)
AsBool(cell, v) == IF KindOf(cell) \in BoolKinds    THEN v ELSE NONE
AsNum(cell, v)  == IF KindOf(cell) \in NumericKinds THEN v ELSE NONE

DeviceOps == {"set", "toggle", "adjust", "ir"}

TargetDevice(cmd) == IF cmd.op \in DeviceOps THEN DeviceOf(cmd.cell) ELSE NONE

-----------------------------------------------------------------------------
(* Triggers *)

EdgeTriggers == {"changed", "crosses"}

(* Does a value satisfy the predicate of an edge trigger?  A value nobody  *)
(* has reported satisfies none.                                            *)
Satisfies(trigger, v) ==
  \/ /\ trigger.on = "changed"
     /\ AsBool(trigger.cell, v) # NONE
     /\ v = trigger.to
  \/ /\ trigger.on = "crosses"
     /\ AsNum(trigger.cell, v) # NONE
     /\ IF trigger.dir = "above" THEN v >= trigger.bound ELSE v =< trigger.bound

PredicateHolds(trigger, store) ==
  trigger.on \in EdgeTriggers /\ Satisfies(trigger, store[trigger.cell])

(* Whether ev fires the trigger; prior is the store's value of the         *)
(* reported cell before the report was folded.                             *)
Matches(trigger, ev, prior) ==
  \/ /\ ev.type = "report"
     /\ trigger.on \in EdgeTriggers
     /\ trigger.cell = ev.cell
     /\ Satisfies(trigger, ev.value)
     /\ ~Satisfies(trigger, prior)
  \/ ev.type = "report"  /\ trigger.on = "reports" /\ trigger.cell = ev.cell
  \/ ev.type = "action"  /\ trigger.on = "action"
                         /\ trigger.device = ev.device /\ trigger.action = ev.action
  \/ ev.type = "elapsed" /\ trigger.on = "timer"   /\ trigger.key = ev.key
  \/ ev.type = "time"    /\ trigger.on = "time"    /\ trigger.schedule = ev.schedule
  \/ ev.type = "failed"  /\ trigger.on = "failed"
                         /\ trigger.device \in {NONE, TargetDevice(ev.cmd)}

-----------------------------------------------------------------------------
(* Three-valued conditions *)

Truth == {"True", "False", "Unknown"}

FromBool(b) == IF b THEN "True" ELSE "False"

Not(a) == CASE a = "True" -> "False" [] a = "False" -> "True" [] OTHER -> "Unknown"

And(a, b) == IF "False" \in {a, b} THEN "False"
             ELSE IF {a, b} = {"True"} THEN "True" ELSE "Unknown"

Or(a, b) == IF "True" \in {a, b} THEN "True"
            ELSE IF {a, b} = {"False"} THEN "False" ELSE "Unknown"

CmpTest(op, actual, bound) ==
  CASE op = "Lt" -> actual < bound  [] op = "Le" -> actual =< bound
    [] op = "Eq" -> actual = bound  [] op = "Ne" -> actual # bound
    [] op = "Ge" -> actual >= bound [] op = "Gt" -> actual > bound

(* A leaf reads one cell; reading what was never reported is Unknown.      *)
Leaf(node, store) ==
  LET v == CASE node.is = "bool"    -> AsBool(node.cell, store[node.cell])
             [] node.is = "compare" -> AsNum(node.cell, store[node.cell])
             [] node.is = "color"   -> store[node.cell]
  IN  IF v = NONE THEN "Unknown"
      ELSE IF node.is = "compare" THEN FromBool(CmpTest(node.cmp, v, node.value))
      ELSE FromBool(v = node.value)

(* A condition is its tree in postorder: a sequence of nodes in which a    *)
(* node names its children by their (smaller) positions in "of", and the   *)
(* root comes last.                                                        *)
Always == << [is |-> "always"] >>

Eval(cond, store) ==
  LET truth[i \in DOMAIN cond] ==
        LET node     == cond[i]
            children == [k \in DOMAIN node.of |-> truth[node.of[k]]]
        IN  CASE node.is = "always" -> "True"
              [] node.is = "not"    -> Not(children[1])
              [] node.is = "and"    -> FoldLeft(And, "True", children)
              [] node.is = "or"     -> FoldLeft(Or, "False", children)
              [] OTHER              -> Leaf(node, store)
  IN  truth[Len(cond)]
=============================================================================
