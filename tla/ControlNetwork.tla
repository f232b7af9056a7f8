---------------------------- MODULE ControlNetwork ----------------------------
(***************************************************************************)
(* UPDATE_CONTROLS and the recursive EVALUATE_CONTROL of ctrl.f90 on one    *)
(* process.  A sweep visits the controls in the order of the input file;    *)
(* evaluating one first evaluates those of its inputs that are controls and *)
(* have not been evaluated in this sweep.  The recursion is a stack of      *)
(* frames here, each with the loop index NC and what it has accumulated.    *)
(*                                                                          *)
(* Between two sweeps the driver (main.f90) advances T, devices change      *)
(* state in any way, and a CTRL_STOP_STATUS ends the run.  The first sweep  *)
(* is the one with RUN_START, before the time stepping, whose               *)
(* CTRL_STOP_STATUS nobody looks at.                                        *)
(*                                                                          *)
(* The control network is a variable that never changes, so that one run    *)
(* covers every network of a set.                                           *)
(***************************************************************************)
EXTENDS ControlFunctions, FiniteSets

CONSTANTS
  NCtrl,      (* N_CTRL: controls are numbered in the order of declaration   *)
  Devices,
  Levels,     (* the values of devices considered, a subset of Below..Above  *)
  Networks,   (* the networks considered: functions from controls to records *)
  MaxT        (* the run has MaxT time steps of length 1                     *)

Controls == 1..NCtrl

ASSUME SizeAssumption == NCtrl \in Nat /\ MaxT \in Nat

(* What READ_CTRL and PROC_CTRL make sure of; a control of any kind but      *)
(* CUSTOM may have a control as its input, and for a DEADBAND, which reads   *)
(* the SMOOTHED_VALUE of a device, that is assumed away here.                *)
Inputs == [type : {"device"}, id : Devices] \cup [type : {"control"}, id : Controls]

WellFormed(n) ==
  \A c \in Controls :
    /\ n[c].kind \in Kinds
    /\ n[c].inputs \in Seq(Inputs) /\ n[c].inputs # << >>
    /\ n[c].initial \in BOOLEAN /\ n[c].latch \in BOOLEAN
    /\ n[c].upper \in BOOLEAN
    /\ n[c].n \in Nat /\ n[c].delay \in Nat
    /\ n[c].kind \in {"DEADBAND", "CUSTOM"} => n[c].inputs[1].type = "device"
    /\ n[c].kind = "CUSTOM" => ~n[c].latch
    /\ c \notin ControlInputs(n[c])

(* The controls can be ranked so that every input ranks below its user.      *)
(* PROC_CTRL does not make sure of it (it only refuses a control that is its *)
(* own input), and EVALUATE_CONTROL does not return without it.              *)
Ranks(n, rank) ==
  \A c \in Controls : \A i \in ControlInputs(n[c]) : rank[i] < rank[c]

Acyclic(n) == \E rank \in [Controls -> Controls] : Ranks(n, rank)

ASSUME NetworksAssumption ==
  \A n \in Networks : WellFormed(n) /\ Acyclic(n)

VARIABLES
  net,        (* the control network                                         *)
  device,     (* CURRENT_STATE, T_CHANGE and SMOOTHED_VALUE of each device   *)
  now,        (* T                                                           *)
  runStart,   (* RUN_START of the current or last sweep                      *)
  current,    (* CURRENT_STATE of each control                               *)
  prior,      (* PRIOR_STATE                                                 *)
  tChange,    (* T_CHANGE                                                    *)
  updated,    (* UPDATED                                                     *)
  nc,         (* NC of CONTROL_LOOP_2, NCtrl + 1 after the sweep             *)
  stack,      (* the active EVALUATE_CONTROLs, the innermost last            *)
  ctrlStop,   (* CTRL_STOP_STATUS                                            *)
  coreDump,   (* CORE_CLOCK has been set to T in this sweep                  *)
  stopped,    (* the driver has set STOP_STATUS to CTRL_STOP                 *)
  before,     (* history: CURRENT_STATE when the sweep began                 *)
  changed     (* history: when each control last changed state, or Never     *)

state == <<current, prior, tChange, updated>>
vars  == <<net, device, now, runStart, state, nc, stack, ctrlStop, coreDump,
           stopped, before, changed>>

Frame(c) == [ctl |-> c, nc |-> 1, count |-> 0]

Init ==
  /\ net \in Networks
  /\ \E on \in [Devices -> BOOLEAN], level \in [Devices -> Levels] :
       device = [d \in Devices |-> [on |-> on[d], level |-> level[d],
                                    tChange |-> IF on[d] THEN 0 ELSE Never]]
  /\ now = 0
  /\ runStart = TRUE
  /\ current = [c \in Controls |-> net[c].initial]
  /\ prior   = current
  /\ before  = current
  /\ tChange = [c \in Controls |-> Never]
  /\ changed = tChange
  /\ updated = [c \in Controls |-> FALSE]
  /\ nc = 1
  /\ stack = << >>
  /\ ctrlStop = FALSE
  /\ coreDump = FALSE
  /\ stopped = FALSE

-----------------------------------------------------------------------------
(* The driver, between two sweeps: T = T + DT, devices change (their         *)
(* T_CHANGE is the time of the change), UPDATE_CONTROLS enters               *)
(* CONTROL_LOOP_1.                                                           *)
Sweeping == nc <= NCtrl

BeginSweep ==
  /\ ~Sweeping /\ ~stopped /\ ~(ctrlStop /\ ~runStart)
  /\ now < MaxT
  /\ now' = now + 1
  /\ \E on \in [Devices -> BOOLEAN], level \in [Devices -> Levels] :
       device' = [d \in Devices |->
         [on |-> on[d], level |-> level[d],
          tChange |-> IF on[d] # device[d].on THEN now + 1 ELSE device[d].tChange]]
  /\ runStart' = FALSE
  /\ ctrlStop' = FALSE
  /\ coreDump' = FALSE
  /\ updated' = [c \in Controls |-> Held(net[c], current[c], FALSE)]
  /\ prior'   = [c \in Controls |-> IF Held(net[c], current[c], FALSE)
                                    THEN current[c] ELSE prior[c]]
  /\ before' = current
  /\ nc' = 1
  /\ UNCHANGED <<net, current, tChange, stack, stopped, changed>>

(* The driver after a sweep: IF (CTRL_STOP_STATUS) STOP_STATUS = CTRL_STOP.  *)
Stop ==
  /\ ~Sweeping /\ ~runStart /\ ctrlStop /\ ~stopped
  /\ stopped' = TRUE
  /\ UNCHANGED <<net, device, now, runStart, state, nc, stack, ctrlStop,
                 coreDump, before, changed>>

(* CONTROL_LOOP_2 passes a control that has been evaluated already.          *)
SkipUpdated ==
  /\ Sweeping /\ stack = << >> /\ updated[nc]
  /\ nc' = nc + 1
  /\ UNCHANGED <<net, device, now, runStart, state, stack, ctrlStop, coreDump,
                 stopped, before, changed>>

(* CALL EVALUATE_CONTROL: PRIOR_STATE is saved on entry.                     *)
Push(c) ==
  /\ stack' = Append(stack, Frame(c))
  /\ prior' = [prior EXCEPT ![c] = current[c]]

(* Mutant: the loop does not CYCLE past the controls that are UPDATED.       *)
CallFromLoop_Again ==
  /\ Sweeping /\ stack = << >>
  /\ Push(nc)
  /\ UNCHANGED <<net, device, now, runStart, current, tChange, updated, nc,
                 ctrlStop, coreDump, stopped, before, changed>>

CallFromLoop ==
  /\ Sweeping /\ stack = << >> /\ ~updated[nc]
  /\ Push(nc)
  /\ UNCHANGED <<net, device, now, runStart, current, tChange, updated, nc,
                 ctrlStop, coreDump, stopped, before, changed>>

Top == stack[Len(stack)]
cfOf(c) == net[c]

MoreInputs == Top.nc \in UsedInputs(cfOf(Top.ctl))
TopInput   == cfOf(Top.ctl).inputs[Top.nc]

InputState(in) == IF in.type = "device" THEN device[in.id].on ELSE current[in.id]
InputChange(in) ==
  IF in.type = "device" THEN device[in.id].tChange ELSE tChange[in.id]

(* An input that is a control and not yet UPDATED is evaluated first.        *)
(* Mutant: only inputs declared earlier are looked at.                       *)
NeedsCall_Forward(in) ==
  in.type = "control" /\ ~updated[in.id] /\ in.id < Top.ctl
NeedsCall(in) == in.type = "control" /\ ~updated[in.id]

CallFromInput ==
  /\ Sweeping /\ stack # << >> /\ MoreInputs
  /\ NeedsCall(TopInput)
  /\ Push(TopInput.id)
  /\ UNCHANGED <<net, device, now, runStart, current, tChange, updated, nc,
                 ctrlStop, coreDump, stopped, before, changed>>

(* The frame after input NC: NC = NC + 1, and COUNTER if the input is TRUE.  *)
Counted(f) ==
  [ctl |-> f.ctl, nc |-> f.nc + 1,
   count |-> IF InputState(TopInput) THEN f.count + 1 ELSE f.count]

ReadInput ==
  /\ Sweeping /\ stack # << >> /\ MoreInputs
  /\ ~NeedsCall(TopInput)
  /\ stack' = [stack EXCEPT ![Len(stack)] = Counted(Top)]
  /\ UNCHANGED <<net, device, now, runStart, state, nc, ctrlStop, coreDump,
                 stopped, before, changed>>

(* The new CURRENT_STATE of a control of which count inputs are TRUE.        *)
NewState(c, count) ==
  LET cf == cfOf(c)
      in == cf.inputs[1]
  IN  CASE cf.kind = "TIME_DELAY" ->
             IF DelayFlips(cf, now, tChange[c], InputChange(in))
             THEN ~prior[c] ELSE current[c]
        [] cf.kind = "DEADBAND" ->
             StateFor(cf, DeadbandTrips(cf, current[c], device[in.id].level))
        [] cf.kind = "CUSTOM" ->
             StateFor(cf, CustomTrips(device[in.id].level))
        [] OTHER -> StateFor(cf, GateTrips(cf, count))

(* The local T_CHANGE, which only the inputs that are TRUE set in an ONLY or *)
(* AT_LEAST function.                                                        *)
(* Mutant: the change is dated at the end of the next step, T + DT.          *)
ChangeTime_NextStep(c, count) == now + 1
ChangeTime(c, count) ==
  IF cfOf(c).kind \in {"XOR_GATE", "X_OF_N_GATE"} /\ count = 0
  THEN -Never ELSE now

(* RETURN from EVALUATE_CONTROL.                                             *)
Return ==
  /\ Sweeping /\ stack # << >> /\ ~MoreInputs
  /\ LET c   == Top.ctl
         new == NewState(c, Top.count)
     IN  /\ current' = [current EXCEPT ![c] = new]
         /\ tChange' = [tChange EXCEPT ![c] =
                          IF new # prior[c] THEN ChangeTime(c, Top.count) ELSE @]
         /\ changed' = [changed EXCEPT ![c] = IF new # current[c] THEN now ELSE @]
         /\ updated' = [updated EXCEPT ![c] = TRUE]
         /\ ctrlStop' = (ctrlStop \/ (cfOf(c).kind = "KILL" /\ Top.count = 1))
         /\ coreDump' = (coreDump \/ (cfOf(c).kind = "CORE_DUMP" /\ Top.count = 1))
  /\ stack' = SubSeq(stack, 1, Len(stack) - 1)
  /\ UNCHANGED <<net, device, now, runStart, prior, nc, stopped, before>>

Finished ==
  /\ ~Sweeping
  /\ stopped \/ (now = MaxT /\ ~(ctrlStop /\ ~runStart))
  /\ UNCHANGED vars

Evaluate == SkipUpdated \/ CallFromLoop \/ CallFromInput \/ ReadInput \/ Return
Next == BeginSweep \/ Stop \/ Evaluate \/ Finished

Spec == Init /\ [][Next]_vars

-----------------------------------------------------------------------------
(* Properties                                                                *)

(* The types of the variables.                                               *)
TypeOK ==
  /\ WellFormed(net)
  /\ device \in [Devices -> [on : BOOLEAN, level : Levels,
                            tChange : {Never} \cup 0..MaxT]]
  /\ now \in 0..MaxT
  /\ runStart \in BOOLEAN
  /\ current \in [Controls -> BOOLEAN]
  /\ prior   \in [Controls -> BOOLEAN]
  /\ tChange \in [Controls -> {-Never, Never} \cup 0..MaxT]
  /\ updated \in [Controls -> BOOLEAN]
  /\ nc \in 1..(NCtrl + 1)
  /\ stack \in Seq([ctl : Controls, nc : Nat \ {0}, count : Nat])
  /\ ctrlStop \in BOOLEAN /\ coreDump \in BOOLEAN /\ stopped \in BOOLEAN
  /\ before  \in [Controls -> BOOLEAN]
  /\ changed \in [Controls -> {Never} \cup 0..MaxT]

TrueInputs(c) ==
  {k \in UsedInputs(net[c]) : InputState(net[c].inputs[k])}

(* The state of a control is what its function makes of its inputs.          *)
Agrees(c) ==
  LET cf    == net[c]
      level == device[cf.inputs[1].id].level
  IN  /\ cf.kind \in Gates \cup {"KILL", "CORE_DUMP"} =>
           current[c] = StateFor(cf, GateTrips(cf, Cardinality(TrueInputs(c))))
      /\ cf.kind = "DEADBAND" =>
           current[c] = StateFor(cf, DeadbandTrips(cf, before[c], level))
      /\ cf.kind = "CUSTOM" => current[c] = StateFor(cf, CustomTrips(level))

(* After a sweep the state of every control that was evaluated is what its   *)
(* function makes of the states its inputs have after the sweep, wherever    *)
(* the inputs are declared: no control was computed from a value of the      *)
(* sweep before.                                                             *)
Consistent ==
  ~Sweeping =>
    \A c \in Controls :
      IF Held(net[c], before[c], runStart)
      THEN current[c] = before[c]
      ELSE Agrees(c)

(* After a sweep PRIOR_STATE differs from CURRENT_STATE exactly for the      *)
(* controls that changed state in it.  OPEN_AND_CLOSE, the fans and the      *)
(* coils act on that difference, so a control evaluated twice would lose     *)
(* its change, and one not evaluated would repeat it.                        *)
EdgesReported == ~Sweeping => prior = before

(* A control with LATCH changes state once in a run.                         *)
LatchedOnce ==
  [][\A c \in Controls :
       net[c].latch /\ current[c] # net[c].initial => current'[c] = current[c]]_vars

(* A thermostat leaves its state only when the device is beyond the setpoint *)
(* on that side, never when it is between the two.                           *)
Hysteresis ==
  [][\A c \in Controls :
       net[c].kind = "DEADBAND" /\ current'[c] # current[c] =>
         LET turnsOn == current[c] = net[c].initial
         IN  device[net[c].inputs[1].id].level =
               IF turnsOn = net[c].upper THEN Above ELSE Below]_vars

(* A sweep asks for restart files, and after the first one for a stop, if    *)
(* and only if an input of a RESTART or KILL control that it evaluated is    *)
(* TRUE at the end of it.                                                    *)
Asks(kind) ==
  \E c \in Controls : /\ net[c].kind = kind
                      /\ ~Held(net[c], before[c], runStart)
                      /\ TrueInputs(c) # {}

RequestsCurrent ==
  ~Sweeping => (coreDump = Asks("CORE_DUMP")) /\ (ctrlStop = Asks("KILL"))

Delays == {c \in Controls : net[c].kind = "TIME_DELAY" /\ ~net[c].latch}

(* The time at which the input of a TIME_DELAY last changed state.           *)
InputChanged(c) ==
  LET in == net[c].inputs[1]
  IN  IF in.type = "device" THEN device[in.id].tChange ELSE changed[in.id]

(* The timer of a TIME_DELAY that may change state repeatedly starts at each *)
(* change of its input (FDS_User_Guide.tex:6575): when the input has not     *)
(* changed for DELAY the control has changed since.                          *)
DelayExpires ==
  ~Sweeping =>
    \A c \in Delays :
      /\ InputChanged(c) # Never
      /\ InputChanged(c) + net[c].delay <= now
      => changed[c] # Never /\ changed[c] >= InputChanged(c)

(* It changes state when the timer expires (FDS_User_Guide.tex:6575), so     *)
(* once for every change of the input, and not before DELAY has passed.      *)
DelayOnce ==
  [][\A c \in Delays :
       current'[c] # current[c] =>
         /\ now - InputChanged(c) >= net[c].delay
         /\ changed[c] = Never \/ changed[c] < InputChanged(c)]_vars
=============================================================================
