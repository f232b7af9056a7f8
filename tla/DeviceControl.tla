---------------------------- MODULE DeviceControl ----------------------------
(***************************************************************************)
(* Devices, controls and what they switch in FDS on several MPI processes. *)
(* Every process has a copy of all devices and all controls.  In a time    *)
(* step (main.f90) it updates the devices of its own meshes                *)
(* (UPDATE_DEVICES, dump.f90), then all controls from its copies           *)
(* (UPDATE_CONTROLS, ctrl.f90), and only then are the devices exchanged    *)
(* (DUMP_GLOBAL_OUTPUTS).  In the next step OPEN_AND_CLOSE (init.f90) acts *)
(* on what has changed: it creates and removes obstructions and holes and  *)
(* opens and closes vents of its own meshes.                               *)
(*                                                                         *)
(* A device with an INIT_ID is tied to a particle, which drifts from mesh  *)
(* to mesh and may disappear.                                              *)
(*                                                                         *)
(* What a device measures is only compared with its SETPOINT: Above means  *)
(* beyond it in the TRIP_DIRECTION, Between equal to it.  Controls are     *)
(* gates and timers; their evaluation, which ControlNetwork models step by *)
(* step, is one step here.  The length of a time step is 1.                *)
(***************************************************************************)
EXTENDS ControlFunctions, FiniteSets, FiniteSetsExt

CONSTANTS
  LastMesh,   (* NMESHES                                                     *)
  Process,    (* PROCESS: the process each mesh belongs to                   *)
  LastDevc,   (* N_DEVC                                                      *)
  Devc,       (* the devices: records [mesh, initial, latch, tied, noUpdate] *)
  LastCtrl,   (* N_CTRL                                                      *)
  Ctrl,       (* the controls: records as in ControlFunctions                *)
  Obst,       (* the parts of removable obstructions, one for each mesh:     *)
              (* records [mesh, input, hole, parent, consumable]             *)
  Vent,       (* the controlled vents: records [mesh, input]                 *)
  Levels,     (* the outcomes of a measurement                               *)
  MaxT        (* the run has MaxT time steps, at least one (main.f90:774)    *)

Meshes    == 1..LastMesh
Processes == {Process[m] : m \in Meshes}
Devices   == 1..LastDevc
Controls  == 1..LastCtrl

NoInput == [type |-> "none", id |-> 0]
Inputs  == [type : {"device"}, id : Devices] \cup [type : {"control"}, id : Controls]

(* As in ControlNetwork: without it EVALUATE_CONTROL does not return.        *)
Ranks(rank) == \A c \in Controls : \A i \in ControlInputs(Ctrl[c]) : rank[i] < rank[c]
Acyclic     == \E rank \in [Controls -> Controls] : Ranks(rank)

ASSUME DeviceControlAssumption ==
  /\ LastMesh \in Nat \ {0} /\ LastDevc \in Nat /\ LastCtrl \in Nat
  /\ Process \in [Meshes -> Nat]
  /\ Devc \in [Devices -> [mesh : Meshes, initial : BOOLEAN, latch : BOOLEAN,
                           tied : BOOLEAN, noUpdate : Inputs \cup {NoInput}]]
  /\ \A c \in Controls :
       /\ Ctrl[c].kind \in {"AND_GATE", "OR_GATE", "TIME_DELAY"}
       /\ Ctrl[c].inputs \in Seq(Inputs) /\ Ctrl[c].inputs # << >>
       /\ Ctrl[c].initial \in BOOLEAN /\ Ctrl[c].latch \in BOOLEAN
  /\ Acyclic
  /\ \A o \in DOMAIN Obst :
       Obst[o] \in [mesh : Meshes, input : Inputs, hole : BOOLEAN,
                    parent : Inputs \cup {NoInput}, consumable : BOOLEAN]
  /\ \A v \in DOMAIN Vent : Vent[v] \in [mesh : Meshes, input : Inputs]
  /\ Levels \subseteq {Below, Between, Above}
  /\ MaxT \in 1..(Never - 1)

VARIABLES
  now,        (* the time step: T at the end of it                           *)
  pc,         (* what each process does next                                 *)
  dev,        (* DEVICE of each process: CURRENT_STATE, PRIOR_STATE,         *)
              (* T_CHANGE and MESH                                           *)
  ctl,        (* CONTROL of each process: CURRENT_STATE, PRIOR_STATE and     *)
              (* T_CHANGE                                                    *)
  particle,   (* the mesh the particle of a device is in, 0 if in none       *)
  hidden,     (* HIDDEN of each part of an obstruction                       *)
  burnt,      (* the parts with CONSUMABLE and MASS <= 0                     *)
  vent        (* whether each vent is open, and its T_IGN                    *)

vars == <<now, pc, dev, ctl, particle, hidden, burnt, vent>>

(* Whether an input is TRUE, and has just changed, for copies of the devices *)
(* and the controls.                                                         *)
On(d, c, in) == \/ in.type = "device" /\ d[in.id].current
                \/ in.type = "control" /\ c[in.id].current

Edge(d, c, in) == \/ in.type = "device" /\ d[in.id].current # d[in.id].prior
                  \/ in.type = "control" /\ c[in.id].current # c[in.id].prior

Initially(in) == IF in.type = "device" THEN Devc[in.id].initial ELSE Ctrl[in.id].initial

(* LP_TAG > 0: only the process that inserts the particle gets to know it.   *)
Tagged(p, d) == Process[Devc[d].mesh] = p

(* READ_DEVC gives a device that is tied to a particle the mesh 1 when its   *)
(* point lies in no mesh, as here: of such a device all that the input gives *)
(* is INIT_ID.  With a point inside mesh NM it would start with MESH=NM.     *)
(* VOLUME_INIT_PARTICLE gives it the mesh of the particle, on one process.   *)
Init ==
  /\ now = 0
  /\ pc = [p \in Processes |-> "devices"]
  /\ dev = [p \in Processes |-> [d \in Devices |->
       [current |-> Devc[d].initial, prior |-> Devc[d].initial,
        tChange |-> 10 * Never,
        mesh |-> IF Devc[d].tied /\ ~Tagged(p, d) THEN 1 ELSE Devc[d].mesh]]]
  /\ ctl = [p \in Processes |-> [c \in Controls |->
       [current |-> Ctrl[c].initial, prior |-> Ctrl[c].initial, tChange |-> Never]]]
  /\ particle = [d \in Devices |-> IF Devc[d].tied THEN Devc[d].mesh ELSE 0]
  /\ hidden = [o \in DOMAIN Obst |-> FALSE]
  /\ burnt = {}
  /\ vent = [v \in DOMAIN Vent |->
       [open |-> Initially(Vent[v].input),
        tIgn |-> IF Initially(Vent[v].input) THEN 0 ELSE Never]]

Goes(p, place) == pc' = [pc EXCEPT ![p] = place]

-----------------------------------------------------------------------------
(* UPDATE_DEVICES                                                            *)

(* CURRENT_STATE of a device that measures level.                            *)
Tripped(d, current, level) ==
  CASE level = Above -> ~Devc[d].initial
    [] level = Below /\ ~Devc[d].latch -> Devc[d].initial
    [] OTHER -> current

(* A device that is tied to a particle is in mesh m when the particle is.    *)
InMesh(p, copy, d, m) ==
  IF Devc[d].tied THEN Tagged(p, d) /\ particle[d] = m ELSE copy[d].mesh = m

(* Mutant: PRIOR_STATE is only saved for a device that is not frozen.        *)
Updated_FrozenFirst(p, copy, d, m, level) ==
  LET was == copy[d].current
      new == Tripped(d, was, level)
  IN  IF ~InMesh(p, copy, d, m) \/ On(copy, ctl[p], Devc[d].noUpdate) THEN copy
      ELSE [copy EXCEPT ![d] = [current |-> new, prior |-> was, mesh |-> m,
                                tChange |-> IF new # was THEN now ELSE @.tChange]]

(* The body of DEVICE_LOOP.                                                  *)
Updated(p, copy, d, m, level) ==
  LET was == copy[d].current
      new == IF On(copy, ctl[p], Devc[d].noUpdate) THEN was ELSE Tripped(d, was, level)
  IN  IF ~InMesh(p, copy, d, m) THEN copy
      ELSE [copy EXCEPT ![d] = [current |-> new, prior |-> was, mesh |-> m,
                                tChange |-> IF new # was THEN now ELSE @.tChange]]

(* DEVICE_LOOP: the devices in their order.                                  *)
DeviceLoop(p, copy, m, level) ==
  LET after[d \in 0..LastDevc] ==
        IF d = 0 THEN copy ELSE Updated(p, after[d - 1], d, m, level[d])
  IN  after[LastDevc]

(* UPDATE_GLOBAL_OUTPUTS of every mesh of the process.                       *)
UpdateGlobalOutputs(p, level) ==
  LET after[m \in 0..LastMesh] ==
        IF m = 0 THEN dev[p]
        ELSE IF Process[m] = p THEN DeviceLoop(p, after[m - 1], m, level)
        ELSE after[m - 1]
  IN  after[LastMesh]

UpdateDevices(p) ==
  /\ pc[p] = "devices"
  /\ \E level \in [Devices -> Levels] :
       dev' = [dev EXCEPT ![p] = UpdateGlobalOutputs(p, level)]
  /\ Goes(p, "controls")
  /\ UNCHANGED <<now, ctl, particle, hidden, burnt, vent>>

-----------------------------------------------------------------------------
(* UPDATE_CONTROLS                                                           *)

(* CURRENT_STATE of a control whose inputs have these states and times of    *)
(* change.                                                                   *)
Evaluated(cf, was, state, change) ==
  IF cf.kind = "TIME_DELAY"
  THEN IF DelayFlips(cf, now, was.tChange, change[1]) THEN ~was.current ELSE was.current
  ELSE StateFor(cf, GateTrips(cf, Cardinality({k \in DOMAIN state : state[k]})))

(* Mutant: PRIOR_STATE of a latched control is left as it is.                *)
Passed_KeepsPrior(was) == was
Passed(was) == [was EXCEPT !.prior = was.current]

(* An input of a control, when the controls are as in new.                   *)
InputOf(p, new, in) == IF in.type = "device" THEN dev[p][in.id] ELSE new[in.id]

(* A control after the sweep, when the others are as in new.  RUN_START is   *)
(* TRUE before the first time step.                                          *)
NewControl(p, new, c) ==
  LET was == ctl[p][c]
      cf  == Ctrl[c]
      current == Evaluated(cf, was,
                   [k \in UsedInputs(cf) |-> InputOf(p, new, cf.inputs[k]).current],
                   [k \in UsedInputs(cf) |-> InputOf(p, new, cf.inputs[k]).tChange])
  IN  IF Held(cf, was.current, now = 0) THEN Passed(was)
      ELSE [current |-> current, prior |-> was.current,
            tChange |-> IF current # was.current THEN now ELSE was.tChange]

NewControls(p) ==
  LET new[c \in Controls] == NewControl(p, new, c) IN new

UpdateControls(p) ==
  /\ pc[p] = "controls"
  /\ ctl' = [ctl EXCEPT ![p] = NewControls(p)]
  /\ Goes(p, "exchange")
  /\ UNCHANGED <<now, dev, particle, hidden, burnt, vent>>

-----------------------------------------------------------------------------
(* DUMP_GLOBAL_OUTPUTS: states are combined with MPI_LXOR, times with        *)
(* MPI_SUM, over the processes that own the mesh their copy names.           *)

(* Mutant: every process contributes its copy.                               *)
Contributors_All(d) == Processes
Contributors(d) == {p \in Processes : Process[dev[p][d].mesh] = p}

Lxor(P) == Cardinality(P) % 2 = 1

DumpGlobalOutputs ==
  /\ \A p \in Processes : pc[p] = "exchange"
  /\ dev' = [p \in Processes |-> [d \in Devices |->
       [current |-> Lxor({q \in Contributors(d) : dev[q][d].current}),
        prior   |-> Lxor({q \in Contributors(d) : dev[q][d].prior}),
        tChange |-> MapThenSumSet(LAMBDA q : dev[q][d].tChange, Contributors(d)),
        mesh    |-> dev[p][d].mesh]]]
  /\ pc' = [p \in Processes |-> IF now = 0 THEN "first"
                                ELSE IF now < MaxT THEN "open" ELSE "over"]
  /\ UNCHANGED <<now, ctl, particle, hidden, burnt, vent>>

-----------------------------------------------------------------------------
(* OPEN_AND_CLOSE                                                            *)

(* What the states say of a part: a hole is open, its filler away, when its  *)
(* input is TRUE, and there is nothing to fill without the parent.           *)
Shows(p, ob) ==
  IF ob.hole
  THEN /\ ob.parent # NoInput => On(dev[p], ctl[p], ob.parent)
       /\ ~On(dev[p], ctl[p], ob.input)
  ELSE On(dev[p], ctl[p], ob.input)

(* Mutant: a hole does not look whether its parent has just appeared.        *)
Acts_NotWithParent(p, ob) ==
  \/ Edge(dev[p], ctl[p], ob.input)
  \/ ob.hole /\ ob.parent # NoInput /\ ~On(dev[p], ctl[p], ob.parent)

(* After T_BEGIN a part is only touched when something has changed.          *)
Acts(p, ob) ==
  \/ Edge(dev[p], ctl[p], ob.input)
  \/ /\ ob.hole /\ ob.parent # NoInput
     /\ \/ ~On(dev[p], ctl[p], ob.parent)
        \/ ~On(dev[p], ctl[p], ob.input) /\ Edge(dev[p], ctl[p], ob.parent)

OpenObst(p, first) ==
  hidden' = [o \in DOMAIN Obst |->
    IF Process[Obst[o].mesh] # p THEN hidden[o]
    ELSE IF o \in burnt THEN TRUE
    ELSE IF first \/ Acts(p, Obst[o]) THEN ~Shows(p, Obst[o])
    ELSE hidden[o]]

(* A vent that is not ACTIVATED is closed at T_BEGIN whatever its input says.*)
OpenVents(p, first) ==
  vent' = [v \in DOMAIN Vent |->
    LET in == Vent[v].input
        closed == [open |-> FALSE, tIgn |-> Never]
    IN  IF Process[Vent[v].mesh] # p THEN vent[v]
        ELSE IF first /\ ~Initially(in) THEN closed
        ELSE IF ~Edge(dev[p], ctl[p], in) THEN vent[v]
        ELSE IF On(dev[p], ctl[p], in)
        THEN [open |-> TRUE, tIgn |-> IF first THEN now ELSE now + 1]
        ELSE closed]

(* Once at T_BEGIN, and then in every step after T = T + DT.                 *)
OpenAndClose(p) ==
  /\ pc[p] \in {"first", "open"}
  /\ OpenObst(p, pc[p] = "first")
  /\ OpenVents(p, pc[p] = "first")
  /\ Goes(p, IF pc[p] = "first" THEN "open" ELSE "particles")
  /\ UNCHANGED <<now, dev, ctl, particle, burnt>>

(* The corrector: consumable obstructions burn, particles drift to another   *)
(* mesh or disappear, MESH_EXCHANGE hands them over.                         *)
Corrector ==
  /\ \A p \in Processes : pc[p] = "particles"
  /\ now' = now + 1
  /\ \E to \in [Devices -> 0..LastMesh] :
       /\ \A d \in Devices : particle[d] = 0 => to[d] = 0
       /\ particle' = to
  /\ \E B \in SUBSET {o \in DOMAIN Obst : Obst[o].consumable} : burnt' = burnt \cup B
  /\ pc' = [p \in Processes |-> "devices"]
  /\ UNCHANGED <<dev, ctl, hidden, vent>>

Finished == (\A p \in Processes : pc[p] = "over") /\ UNCHANGED vars

Next ==
  \/ \E p \in Processes : UpdateDevices(p) \/ UpdateControls(p) \/ OpenAndClose(p)
  \/ DumpGlobalOutputs
  \/ Corrector
  \/ Finished

Spec == Init /\ [][Next]_vars

-----------------------------------------------------------------------------
(* Properties                                                                *)

(* The types of the variables.                                               *)
Times == 0..MaxT

TypeOK ==
  /\ now \in Times
  /\ pc \in [Processes -> {"devices", "controls", "exchange", "first", "open",
                           "particles", "over"}]
  /\ dev \in [Processes -> [Devices ->
       [current : BOOLEAN, prior : BOOLEAN, tChange : Times \cup {10 * Never},
        mesh : Meshes]]]
  /\ ctl \in [Processes -> [Controls ->
       [current : BOOLEAN, prior : BOOLEAN, tChange : Times \cup {Never}]]]
  /\ particle \in [Devices -> 0..LastMesh]
  /\ hidden \in [DOMAIN Obst -> BOOLEAN]
  /\ burnt \subseteq DOMAIN Obst
  /\ vent \in [DOMAIN Vent -> [open : BOOLEAN, tIgn : Times \cup {Never}]]

(* The process a device is measured on.                                      *)
Owner(d) == Process[Devc[d].mesh]

(* When a process has opened and closed, every part of an obstruction and    *)
(* every hole in its meshes is as the owners of the devices, or its own      *)
(* copies of the controls, say: no change is lost between the update of a    *)
(* device on one process and the obstruction on another, whatever else       *)
(* changed in that step.                                                     *)
StateSeen(p, in) ==
  IF in.type = "device" THEN dev[Owner(in.id)][in.id].current ELSE ctl[p][in.id].current

PartsFollow ==
  \A o \in DOMAIN Obst :
    LET ob == Obst[o]
        p  == Process[ob.mesh]
        there == StateSeen(p, ob.input)
    IN  pc[p] = "particles" =>
          hidden[o] = \/ o \in burnt
                      \/ ~ob.hole /\ ~there
                      \/ ob.hole /\ there
                      \/ ob.hole /\ ob.parent # NoInput /\ ~StateSeen(p, ob.parent)

(* A vent is opened in the step after its device or control has changed, on  *)
(* every process, and T_IGN, from which its ramps are counted, stays the     *)
(* time of that step: the change is acted on once.  (Not so for a device     *)
(* whose particle is lost right after the change.)                           *)
VentsActOnce ==
  \A v \in DOMAIN Vent :
    LET in == Vent[v].input
        p  == Process[Vent[v].mesh]
        changed == IF in.type = "device" THEN dev[Owner(in.id)][in.id].tChange
                                         ELSE ctl[p][in.id].tChange
    IN  pc[p] = "particles" /\ (in.type = "device" => ~Devc[in.id].tied) =>
          /\ vent[v].open = StateSeen(p, in)
          /\ vent[v].tIgn = IF ~vent[v].open THEN Never
                            ELSE IF changed >= Never THEN 0 ELSE changed + 1

(* "If this logical value is set to .TRUE. the device will only change state *)
(* once" (LATCH, FDS_User_Guide.tex:6408), on whatever process one looks.    *)
DeviceLatchedOnce ==
  [][\A p \in Processes, d \in Devices :
       Devc[d].latch /\ dev[p][d].current # Devc[d].initial =>
         dev'[p][d].current = dev[p][d].current]_vars

(* A gate, latched or not, over devices of one process that are FALSE at the *)
(* start, and over such gates, has on every other process the state it had   *)
(* on that process one step before: the others lag, but they never part.     *)
FollowsBy(p, gate, c) ==
  /\ Ctrl[c].kind \in Gates /\ ~Ctrl[c].initial
  /\ \A k \in UsedInputs(Ctrl[c]) :
       LET in == Ctrl[c].inputs[k]
       IN  IF in.type = "control" THEN gate[in.id]
           ELSE Owner(in.id) = p /\ ~Devc[in.id].initial /\ ~Devc[in.id].tied

GatesOf(p) ==
  LET gate[c \in Controls] == FollowsBy(p, gate, c) IN {c \in Controls : gate[c]}

ControlsFollow ==
  (\A p \in Processes : pc[p] = "exchange") =>
    \A p, q \in Processes : \A c \in GatesOf(p) :
      q # p => ctl[q][c].current = ctl[p][c].prior
=============================================================================
