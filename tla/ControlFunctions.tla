--------------------------- MODULE ControlFunctions ---------------------------
(***************************************************************************)
(* The control functions of FDS as ctrl.f90 evaluates them: what a control  *)
(* of each FUNCTION_TYPE makes of the states of its inputs.                 *)
(*                                                                          *)
(* A control is described by a record with the fields                       *)
(*   kind     its CONTROL_INDEX                                             *)
(*   inputs   a sequence of records [type, id], as INPUT_TYPE and INPUT     *)
(*   initial  INITIAL_STATE            latch  LATCH                         *)
(*   n        N                        delay  DELAY                         *)
(*   upper    ON_BOUND > 0                                                  *)
(* A device has a logical state, the time of its last change of state and a *)
(* SMOOTHED_VALUE, of which a DEADBAND or CUSTOM control can only tell      *)
(* whether it is below both setpoints, between them or above both.          *)
(***************************************************************************)
EXTENDS Integers, Sequences

Below   == 0
Between == 1
Above   == 2

Never == 1000000     (* T_CHANGE of what has not changed state yet           *)

Gates   == {"AND_GATE", "OR_GATE", "XOR_GATE", "X_OF_N_GATE"}
Single  == {"TIME_DELAY", "KILL", "CORE_DUMP", "DEADBAND", "CUSTOM"}
Kinds   == Gates \cup Single

(* The inputs EVALUATE_CONTROL looks at: a gate at all of them, every other  *)
(* function at the first.                                                    *)
UsedInputs(cf) == IF cf.kind \in Gates THEN 1..Len(cf.inputs) ELSE {1}

ControlInputs(cf) ==
  {cf.inputs[k].id : k \in {j \in UsedInputs(cf) : cf.inputs[j].type = "control"}}

(* STATE2 of a gate, of KILL and of CORE_DUMP, when count inputs are TRUE.   *)
GateTrips(cf, count) ==
  CASE cf.kind = "AND_GATE"    -> count = Len(cf.inputs)
    [] cf.kind = "OR_GATE"     -> count > 0
    [] cf.kind = "XOR_GATE"    -> count = cf.n
    [] cf.kind = "X_OF_N_GATE" -> count >= cf.n
    [] OTHER                   -> count = 1

(* STATE2 of a thermostat that is in state current.                          *)
(* Mutant: one setpoint only.                                                *)
DeadbandTrips_OneSetpoint(cf, current, level) ==
  IF cf.upper THEN level = Above ELSE level = Below

DeadbandTrips(cf, current, level) ==
  IF cf.upper
  THEN IF current = cf.initial THEN level = Above ELSE level # Below
  ELSE IF current = cf.initial THEN level = Below ELSE level # Above

(* STATE2 of a CUSTOM control whose ramp is positive for high values.        *)
CustomTrips(level) == level = Above

(* A TIME_DELAY flips when its input changed state DELAY ago or longer and   *)
(* it has not flipped since, or has never flipped.                           *)
(* Mutants: the first flip has no case of its own, or does not wait.         *)
DelayFlips_NoFirst(cf, now, tChange, inputChange) ==
  now - inputChange >= cf.delay /\ tChange <= inputChange

DelayFlips_FirstAtOnce(cf, now, tChange, inputChange) ==
  tChange = Never \/ (now - inputChange >= cf.delay /\ tChange <= inputChange)

DelayFlips(cf, now, tChange, inputChange) ==
  /\ now - inputChange >= cf.delay
  /\ tChange <= inputChange \/ tChange = Never

(* CURRENT_STATE of a control whose STATE2 is trips.                         *)
StateFor(cf, trips) == IF trips THEN ~cf.initial ELSE cf.initial

(* CONTROL_LOOP_1: a latched control that has changed state is not           *)
(* evaluated again, except at the start of the run.                          *)
(* Mutant: RUN_START without its negation.                                   *)
Held_AtStart(cf, current, runStart) == runStart /\ cf.latch /\ cf.initial # current
Held(cf, current, runStart) == ~runStart /\ cf.latch /\ cf.initial # current
=============================================================================
