------------------------------- MODULE TimeStep -------------------------------
(***************************************************************************)
(* The time-stepping protocol of FDS: the MAIN_LOOP of main.f90 as it is    *)
(* run by every MPI process, with STOP_CHECK, END_FDS and the parts of      *)
(* DUMP_MESH_OUTPUTS, COMPUTE_RADIATION, CHECK_STABILITY and                *)
(* VELOCITY_PREDICTOR that decide when a run stops, when the time step      *)
(* changes and which files are left behind.                                 *)
(*                                                                          *)
(* A process alternates between local work and calls that every process     *)
(* of MPI_COMM_WORLD has to make together.  A call of the second kind is    *)
(* one joint action, enabled when every process waits in that call; the     *)
(* local work of one process between two such calls is one action of that   *)
(* process.  Every process holds one mesh.  Processes in EvacRanks hold an  *)
(* evacuation mesh only (the EVAC_PROCESS of main.f90).                     *)
(*                                                                          *)
(* Time is counted in units of the smallest step size the model has: DT is  *)
(* an integer, and a DT below DtStable is one that is smaller than          *)
(* DT_INITIAL*LIMITING_DT_RATIO.                                            *)
(***************************************************************************)
EXTENDS Integers, FiniteSets

CONSTANTS
  Ranks,              (* MPI processes, one mesh each                        *)
  EvacRanks,          (* processes whose only mesh is EVACUATION_ONLY        *)
  DtInitial,          (* DT_INITIAL: steps are never longer                  *)
  DtStable,           (* a step shorter than this is a numerical instability *)
  TEnd,               (* T_END                                               *)
  ICycStart,          (* ICYC on entry: 0, or the ICYC of a restart file     *)
  StopAtIter,         (* STOP_AT_ITER: the number in the .stop file, or 0    *)
  AngleIncrement,     (* ANGLE_INCREMENT of the radiation solver             *)
  TimeStepIncrement,  (* TIME_STEP_INCREMENT of the radiation solver         *)
  DtRestart,          (* DT_RESTART: period of the restart files             *)
  StopFileAnyTime,    (* TRUE: the .stop file may appear between the INQUIREs
                         that two processes make in the same cycle           *)
  RestartControl,     (* TRUE: the case has a CTRL of FUNCTION_TYPE RESTART  *)
  LocalFailures       (* the stop codes single processes may raise:
                         a subset of {RealizabilityStop, EvacuationStop}     *)

(* cons.f90: Program Stop Status                                             *)
NoStop            == 0
InstabilityStop   == 1
UserStop          == 2
CtrlStop          == 5
RealizabilityStop == 8
EvacuationStop    == 9
StopCodes == {NoStop, InstabilityStop, UserStop, CtrlStop,
              RealizabilityStop, EvacuationStop}

ASSUME RanksAssumption ==
  /\ Ranks # {} /\ IsFiniteSet(Ranks)
  /\ EvacRanks \subseteq Ranks /\ EvacRanks # Ranks

ASSUME NumbersAssumption ==
  /\ DtInitial \in Nat \ {0}
  /\ DtStable \in 1..DtInitial
  /\ TEnd \in Nat \ {0}
  /\ ICycStart \in Nat
  /\ StopAtIter \in Nat
  /\ AngleIncrement \in Nat \ {0}
  /\ TimeStepIncrement \in Nat \ {0}
  /\ DtRestart \in Nat \ {0}
  /\ StopFileAnyTime \in BOOLEAN
  /\ RestartControl \in BOOLEAN
  /\ LocalFailures \subseteq {RealizabilityStop, EvacuationStop}

FireRanks == Ranks \ EvacRanks
HasEvac   == EvacRanks # {}

VARIABLES
  stopFile,   (* the file CHID.stop exists                                   *)
  pc,         (* where each process is in MAIN_LOOP                          *)
  icyc,       (* ICYC                                                        *)
  t,          (* T                                                           *)
  dt,         (* DT                                                          *)
  ctsi,       (* CHANGE_TIME_STEP_INDEX: an array over meshes per process    *)
  dtNew,      (* DT_NEW: an array over meshes per process                    *)
  diagnostics,(* DIAGNOSTICS                                                 *)
  stopStatus, (* STOP_STATUS                                                 *)
  radCall,    (* RAD_CALL_COUNTER of the process's mesh, modulo its period   *)
  angle,      (* ANGLE_INC_COUNTER of the process's mesh                     *)
  radDone,    (* RADIATION_COMPLETED                                         *)
  radExchange,(* EXCHANGE_RADIATION                                          *)
  coreClock,  (* CORE_CLOCK of the process's mesh                            *)
  core,       (* T in the last restart file of the process's mesh, or -1     *)
  pl3d,       (* T in the last Plot3D file of the process's mesh, or -1      *)
  userSince   (* ICYC when the process first had STOP_STATUS=USER_STOP, or 0 *)

control  == <<pc, diagnostics, stopStatus>>
clocks   == <<icyc, t, dt, ctsi, dtNew>>
rad      == <<radCall, angle, radDone, radExchange>>
files    == <<coreClock, core, pl3d>>
vars     == <<stopFile, control, clocks, rad, files, userSince>>

-----------------------------------------------------------------------------
(* Helpers                                                                   *)

MinOf(S) == CHOOSE x \in S : \A y \in S : x <= y
MaxOf(S) == CHOOSE x \in S : \A y \in S : x >= y

(* Every process waits in the same call.                                     *)
AllAt(call) == \A r \in Ranks : pc[r] = call

Goto(r, from, to) == pc[r] = from /\ pc' = [pc EXCEPT ![r] = to]

(* The cycles whose diagnostics go to the .out file: 1..10, 20, 30, ...,     *)
(* 100, 200, ...  (ICYC is bounded by 10^6 here.)                            *)
DiagnosticsCycle(ic) ==
  \/ \E k \in 0..5 : /\ 10^k <= ic /\ ic < 10^(k + 1)
                     /\ ic % 10^k = 0
  \/ ic % 100 = 0

Init ==
  /\ stopFile \in IF StopAtIter > 0 THEN {TRUE} ELSE {FALSE}
  /\ pc          = [r \in Ranks |-> "top"]
  /\ icyc        = [r \in Ranks |-> ICycStart]
  /\ t           = [r \in Ranks |-> 0]
  /\ dt          = [r \in Ranks |-> DtInitial]
  /\ ctsi        = [r \in Ranks |-> [m \in Ranks |-> 0]]
  /\ dtNew       = [r \in Ranks |-> [m \in Ranks |-> DtInitial]]
  /\ diagnostics = [r \in Ranks |-> FALSE]
  /\ stopStatus  = [r \in Ranks |-> NoStop]
  /\ \E c \in 0..(TimeStepIncrement - 1) : radCall = [r \in Ranks |-> c]
  /\ \E a \in 1..AngleIncrement : angle = [r \in Ranks |-> a]
  /\ radDone     = [r \in Ranks |-> TRUE]
  /\ radExchange = [r \in Ranks |-> FALSE]
  /\ coreClock   = [r \in Ranks |-> DtRestart]
  /\ core        = [r \in Ranks |-> -1]
  /\ pl3d        = [r \in Ranks |-> -1]
  /\ userSince   = [r \in Ranks |-> 0]

-----------------------------------------------------------------------------
(* The user creates CHID.stop.  Unless StopFileAnyTime, every process sees   *)
(* the file for the first time in the same cycle.                            *)
CreateStopFile ==
  /\ ~stopFile
  /\ StopFileAnyTime \/ \A r, s \in Ranks : icyc[r] = icyc[s]
  /\ stopFile' = TRUE
  /\ UNCHANGED <<control, clocks, rad, files, userSince>>

(* The top of MAIN_LOOP: INQUIRE of the stop file, the delayed increase of   *)
(* DT, the decision to print diagnostics, and EVAC_MAIN_LOOP, in which the   *)
(* evacuation process may raise EVACUATION_STOP.                             *)
IncreasedDt(r) ==
  IF \A m \in Ranks : ctsi[r][m] = 1
  THEN MinOf({dtNew[r][m] : m \in FireRanks})
  ELSE dt[r]

SeesStop(r) == stopFile /\ icyc[r] + 1 >= StopAtIter

Top(r) ==
  /\ Goto(r, "top", "mesh_exchange_1")
  /\ icyc' = [icyc EXCEPT ![r] = @ + 1]
  /\ dt'   = [dt EXCEPT ![r] = IncreasedDt(r)]
  /\ diagnostics' = [diagnostics EXCEPT ![r] =
       SeesStop(r) \/ DiagnosticsCycle(icyc[r] + 1) \/ t[r] >= TEnd]
  /\ userSince' = [userSince EXCEPT ![r] =
       IF @ = 0 /\ SeesStop(r) THEN icyc[r] + 1 ELSE @]
  /\ \E code \in {IF SeesStop(r) THEN UserStop ELSE stopStatus[r]}
           \cup {c \in LocalFailures : /\ c = EvacuationStop
                                       /\ r \in EvacRanks
                                       /\ ~SeesStop(r)
                                       /\ stopStatus[r] = NoStop} :
       stopStatus' = [stopStatus EXCEPT ![r] = code]
  /\ UNCHANGED <<stopFile, t, ctsi, dtNew, rad, files>>

(* MESH_EXCHANGE(1), HVAC, EXCHANGE_DIVERGENCE_INFO and the pressure         *)
(* iterations: every process takes part in every call.                       *)
MeshExchange1 ==
  /\ AllAt("mesh_exchange_1")
  /\ pc' = [r \in Ranks |-> "predict"]
  /\ UNCHANGED <<stopFile, diagnostics, stopStatus, clocks, rad, files,
                 userSince>>

(* CHECK_STABILITY: the outcomes for one mesh, as pairs of                   *)
(* CHANGE_TIME_STEP_INDEX and DT_NEW.  A shorter step is strictly shorter,   *)
(* down to the smallest step the model has.                                  *)
(* Mutant: the new step need not be shorter.                                 *)
Shorter_NotStrict(d) == 1..d
Shorter(d) == IF d = 1 THEN {1} ELSE 1..(d - 1)
Longer(d)  == IF d < DtInitial THEN d + 1 ELSE DtInitial

CheckStability(d) ==
  {<<0, d>>, <<1, Longer(d)>>} \cup ({-1} \X Shorter(d))

(* EVACUATION_SKIP: after the first cycle EVAC_MAIN_LOOP takes the           *)
(* evacuation mesh out of the flow calculation.                              *)
EvacuationSkip(r) == r \in EvacRanks /\ icyc[r] > 1

(* The predicted velocity: VELOCITY_PREDICTOR on the process's own mesh.     *)
(* CHECK_STABILITY has nothing to say of an evacuation mesh, whose index     *)
(* every process sets to 1.                                                  *)
Predict(r) ==
  /\ Goto(r, "predict", "stop_check_0")
  /\ LET reset == [m \in Ranks |-> IF m \in EvacRanks THEN 1 ELSE 0]
         same  == [m \in Ranks |-> dt[r]]
     IN  IF r \in EvacRanks
         THEN /\ ctsi'  = [ctsi  EXCEPT ![r] = reset]
              /\ dtNew' = [dtNew EXCEPT ![r] = same]
         ELSE \E o \in CheckStability(dt[r]) :
              /\ ctsi'  = [ctsi  EXCEPT ![r] = [reset EXCEPT ![r] = o[1]]]
              /\ dtNew' = [dtNew EXCEPT ![r] = [same  EXCEPT ![r] = o[2]]]
  /\ stopStatus' = [stopStatus EXCEPT ![r] =
       IF ~EvacuationSkip(r) /\ dt[r] < DtStable THEN InstabilityStop ELSE @]
  /\ UNCHANGED <<stopFile, diagnostics, icyc, t, dt, rad, files,
                 userSince>>

(* The MPI_ALLREDUCE of STOP_CHECK.                                          *)
MergedStop == MaxOf({stopStatus[r] : r \in Ranks})

(* STOP_CHECK(0), which never ends the run, and the exit from                *)
(* CHANGE_TIME_STEP_LOOP when the velocity field is unstable.                *)
StopCheck0 ==
  /\ AllAt("stop_check_0")
  /\ stopStatus' = [r \in Ranks |-> MergedStop]
  /\ IF MergedStop = InstabilityStop
     THEN /\ diagnostics' = [r \in Ranks |-> TRUE]
          /\ pc' = [r \in Ranks |-> "mesh_exchange_3"]
     ELSE /\ pc' = [r \in Ranks |-> "change_time_step"]
          /\ UNCHANGED diagnostics
  /\ UNCHANGED <<stopFile, clocks, rad, files, userSince>>

(* The gathered CHANGE_TIME_STEP_INDEX and DT_NEW.                           *)
GatheredIndex == [m \in Ranks |-> ctsi[m][m]]
GatheredDtNew == [m \in Ranks |-> dtNew[m][m]]

MustShorten == \E m \in Ranks : ctsi[m][m] = -1
MayLengthen == \A m \in Ranks : ctsi[m][m] = 1

(* Mutant: DT_NEW is not gathered when the step must be shortened.           *)
ExchangesDtNew_OnlyToLengthen == MayLengthen
ExchangesDtNew == MustShorten \/ MayLengthen

ChangeTimeStep ==
  /\ AllAt("change_time_step")
  /\ ctsi'  = [r \in Ranks |-> GatheredIndex]
  /\ dtNew' = IF ExchangesDtNew THEN [r \in Ranks |-> GatheredDtNew] ELSE dtNew
  /\ IF MustShorten
     THEN /\ dt' = [r \in Ranks |-> MinOf({dtNew'[r][m] : m \in FireRanks})]
          /\ pc' = [r \in Ranks |-> "mesh_exchange_1"]
     ELSE /\ pc' = [r \in Ranks |-> "mesh_exchange_3"]
          /\ UNCHANGED dt
  /\ UNCHANGED <<stopFile, diagnostics, stopStatus, icyc, t, rad, files,
                 userSince>>

(* MESH_EXCHANGE(3), T = T + DT, the mass finite differences and             *)
(* MESH_EXCHANGE(4).                                                         *)
MeshExchange3 ==
  /\ AllAt("mesh_exchange_3")
  /\ t'  = [r \in Ranks |-> t[r] + dt[r]]
  /\ pc' = [r \in Ranks |-> "correct"]
  /\ UNCHANGED <<stopFile, diagnostics, stopStatus, icyc, dt, ctsi,
                 dtNew, rad, files, userSince>>

(* COMPUTE_RADIATION: the angles are swept ANGLE_INCREMENT calls at a time,  *)
(* every TIME_STEP_INCREMENT time steps; all of them in the first cycle.     *)
(* An evacuation mesh returns at once and keeps RADIATION_COMPLETED.         *)
UpdatesIntensity(r) == radCall[r] = 0 \/ icyc[r] = 1

(* Mutant: the angle counter runs from 0.                                    *)
NextAngle_ZeroBased(r) ==
  IF icyc[r] = 1 THEN angle[r] ELSE (angle[r] + 1) % AngleIncrement
NextAngle(r) == IF icyc[r] = 1 THEN angle[r] ELSE (angle[r] % AngleIncrement) + 1

SweepCompleted(r) ==
  UpdatesIntensity(r) /\ (icyc[r] = 1 \/ NextAngle(r) = AngleIncrement)

ComputeRadiation(r) ==
  IF r \in EvacRanks
  THEN UNCHANGED rad
  ELSE /\ radCall' = [radCall EXCEPT ![r] = (@ + 1) % TimeStepIncrement]
       /\ angle'   = [angle EXCEPT ![r] =
                        IF UpdatesIntensity(r) THEN NextAngle(r) ELSE @]
       /\ radExchange' = [radExchange EXCEPT ![r] = UpdatesIntensity(r)]
       /\ radDone'     = [radDone EXCEPT ![r] = SweepCompleted(r)]

(* The corrector: combustion may find unrealizable mass fractions            *)
(* (CHECK_REALIZABILITY), then the radiation solver is called.               *)
Correct(r) ==
  /\ Goto(r, "correct", "mesh_exchange_6")
  /\ ComputeRadiation(r)
  /\ \E code \in {stopStatus[r]} \cup {c \in LocalFailures :
                      c = RealizabilityStop /\ r \in FireRanks} :
       stopStatus' = [stopStatus EXCEPT ![r] = code]
  /\ UNCHANGED <<stopFile, diagnostics, clocks, files, userSince>>

(* Which processes reach the MPI_BARRIER of MESH_EXCHANGE(2): in a fire run  *)
(* the ones that updated their intensities, in an evacuation run all.        *)
(* Mutant: EXCHANGE_EVACUATION does not keep a process in the exchange.      *)
JoinsRadiationExchange_FireOnly(r) == radExchange[r]
JoinsRadiationExchange(r) == HasEvac \/ radExchange[r]

(* The pressure iterations of the corrector, MESH_EXCHANGE(7) and (6).       *)
MeshExchange6 ==
  /\ AllAt("mesh_exchange_6")
  /\ pc' = [r \in Ranks |-> IF JoinsRadiationExchange(r)
                            THEN "mesh_exchange_2" ELSE "outputs"]
  /\ UNCHANGED <<stopFile, diagnostics, stopStatus, clocks, rad, files,
                 userSince>>

(* MESH_EXCHANGE(2).                                                         *)
MeshExchange2 ==
  /\ AllAt("mesh_exchange_2")
  /\ pc' = [r \in Ranks |-> "outputs"]
  /\ UNCHANGED <<stopFile, diagnostics, stopStatus, clocks, rad, files,
                 userSince>>

(* What UPDATE_CONTROLS decides.  Every process evaluates the network with   *)
(* the devices of its own mesh at this step and those of other processes at  *)
(* the step before, so KILL and RESTART are decisions of the  *)
(* single process.                                                           *)
StatusAtDump(r, kills)   == IF kills THEN CtrlStop ELSE stopStatus[r]
CoreClockAtDump(r, asks) == IF asks THEN t[r] ELSE coreClock[r]

(* DUMP_MESH_OUTPUTS: when the files of a fire mesh are written.             *)
(* Mutant: a stop request causes no restart file.                            *)
DumpsCore_Periodic(r, status, clock) ==
  t[r] >= clock /\ (t[r] >= TEnd \/ radDone[r])

DumpsCore(r, status, clock) ==
  /\ t[r] >= clock \/ status = UserStop
  /\ t[r] >= TEnd \/ radDone[r]

(* Only the Plot3D file of an instability.  The code also writes one at      *)
(* every PL3D_CLOCK, which is left out: it would have the T of its step, and *)
(* what is asked of pl3d is that of the last step.                           *)
(* Mutant: the last Plot3D file is written at T_END only.                    *)
DumpsPl3d_AtEnd(r, status) == t[r] >= TEnd
DumpsPl3d(r, status) == status = InstabilityStop

DumpMeshOutputs(r, status, clock) ==
  IF r \in EvacRanks
  THEN UNCHANGED files
  ELSE /\ core' = [core EXCEPT ![r] =
                     IF DumpsCore(r, status, clock) THEN t[r] ELSE @]
       /\ coreClock' = [coreClock EXCEPT ![r] =
                          IF DumpsCore(r, status, clock)
                          THEN clock + DtRestart ELSE clock]
       /\ pl3d' = [pl3d EXCEPT ![r] = IF DumpsPl3d(r, status) THEN t[r] ELSE @]

(* UPDATE_CONTROLS and DUMP_MESH_OUTPUTS for the process's own mesh.         *)
Outputs(r) ==
  /\ Goto(r, "outputs", "global_outputs")
  /\ IF EvacuationSkip(r)
     THEN UNCHANGED <<stopStatus, files>>
     ELSE \E kills \in BOOLEAN,
             asks \in IF RestartControl THEN BOOLEAN ELSE {FALSE} :
          /\ stopStatus' = [stopStatus EXCEPT ![r] = StatusAtDump(r, kills)]
          /\ DumpMeshOutputs(r, StatusAtDump(r, kills), CoreClockAtDump(r, asks))
  /\ UNCHANGED <<stopFile, diagnostics, clocks, rad, userSince>>

(* DUMP_GLOBAL_OUTPUTS: reductions over all processes.                       *)
GlobalOutputs ==
  /\ AllAt("global_outputs")
  /\ pc' = [r \in Ranks |-> IF diagnostics[r] \/ t[r] >= TEnd
                            THEN "diagnostics" ELSE "stop_check_1"]
  /\ UNCHANGED <<stopFile, diagnostics, stopStatus, clocks, rad, files,
                 userSince>>

(* WRITE_STRINGS and EXCHANGE_DIAGNOSTICS: sends, receives and gathers       *)
(* between process 0 and all others.                                         *)
Diagnostics ==
  /\ AllAt("diagnostics")
  /\ pc' = [r \in Ranks |-> "stop_check_1"]
  /\ UNCHANGED <<stopFile, diagnostics, stopStatus, clocks, rad, files,
                 userSince>>

(* The SELECT CASE of STOP_CHECK: whether a process returns from it.         *)
(* Mutants: STOP_CHECK tests the process's own code instead of the merged    *)
(* one; it lets an instability pass; it lets a realizability error pass.     *)
StopCheckReturns_Local(r, code) ==
  \/ stopStatus[r] = NoStop
  \/ stopStatus[r] = UserStop /\ StopAtIter = 0 /\ ~radDone[r]

StopCheckReturns_Instability(r, code) ==
  \/ code \in {NoStop, InstabilityStop}
  \/ code = UserStop /\ StopAtIter = 0 /\ ~radDone[r]

StopCheckReturns_Realizability(r, code) ==
  \/ code \in {NoStop, RealizabilityStop}
  \/ code = UserStop /\ StopAtIter = 0 /\ ~radDone[r]

StopCheckReturns(r, code) ==
  \/ code = NoStop
  \/ code = UserStop /\ StopAtIter = 0 /\ ~radDone[r]

(* STOP_CHECK(1), then the normal exit from MAIN_LOOP.                       *)
StopCheck1 ==
  /\ AllAt("stop_check_1")
  /\ stopStatus' = [r \in Ranks |-> MergedStop]
  /\ pc' = [r \in Ranks |->
       IF StopCheckReturns(r, MergedStop) /\ t[r] < TEnd
       THEN "top" ELSE "end_fds"]
  /\ UNCHANGED <<stopFile, diagnostics, clocks, rad, files, userSince>>

(* END_FDS: DUMP_CPU_TIME, MPI_BARRIER and MPI_FINALIZE.                     *)
EndFds ==
  /\ AllAt("end_fds")
  /\ pc' = [r \in Ranks |-> "finished"]
  /\ UNCHANGED <<stopFile, diagnostics, stopStatus, clocks, rad, files,
                 userSince>>

Finished == AllAt("finished") /\ UNCHANGED vars

Local(r) == Top(r) \/ Predict(r) \/ Correct(r) \/ Outputs(r)

Joint == \/ MeshExchange1 \/ StopCheck0 \/ ChangeTimeStep \/ MeshExchange3
         \/ MeshExchange6 \/ MeshExchange2 \/ GlobalOutputs \/ Diagnostics
         \/ StopCheck1 \/ EndFds

Next == CreateStopFile \/ (\E r \in Ranks : Local(r)) \/ Joint \/ Finished

Spec == Init /\ [][Next]_vars

(* A process that can run does, and a call that every process has made       *)
(* returns.  Nothing obliges the user to create the stop file.               *)
Fairness == (\A r \in Ranks : WF_vars(Local(r))) /\ WF_vars(Joint)

FairSpec == Spec /\ Fairness

-----------------------------------------------------------------------------
(* Properties                                                                *)

Calls == {"mesh_exchange_1", "stop_check_0", "change_time_step",
          "mesh_exchange_3", "mesh_exchange_6", "mesh_exchange_2",
          "global_outputs", "diagnostics", "stop_check_1", "end_fds"}
Labels == Calls \cup {"top", "predict", "correct", "outputs", "finished"}

(* The types of the variables.                                               *)
TypeOK ==
  /\ stopFile \in BOOLEAN
  /\ pc          \in [Ranks -> Labels]
  /\ icyc        \in [Ranks -> Nat]
  /\ t           \in [Ranks -> Nat]
  /\ dt          \in [Ranks -> 1..DtInitial]
  /\ ctsi        \in [Ranks -> [Ranks -> {-1, 0, 1}]]
  /\ dtNew       \in [Ranks -> [Ranks -> 1..DtInitial]]
  /\ diagnostics \in [Ranks -> BOOLEAN]
  /\ stopStatus  \in [Ranks -> StopCodes]
  /\ radCall     \in [Ranks -> 0..(TimeStepIncrement - 1)]
  /\ angle       \in [Ranks -> 1..AngleIncrement]
  /\ radDone     \in [Ranks -> BOOLEAN]
  /\ radExchange \in [Ranks -> BOOLEAN]
  /\ coreClock   \in [Ranks -> Nat]
  /\ core        \in [Ranks -> Nat \cup {-1}]
  /\ pl3d        \in [Ranks -> Nat \cup {-1}]
  /\ userSince   \in [Ranks -> Nat]

(* When every process waits for the others, all wait in the same call: no    *)
(* decision taken from data of one process (DIAGNOSTICS, EXCHANGE_RADIATION, *)
(* the SELECT CASE of STOP_CHECK) makes the processes part ways.             *)
CollectiveOrder ==
  (\A r \in Ranks : pc[r] \in Calls) => \A r, s \in Ranks : pc[r] = pc[s]

(* Processes that are at the same place of MAIN_LOOP agree on ICYC, T and    *)
(* DT, although each computes its own DT from its own copy of the arrays     *)
(* CHANGE_TIME_STEP_INDEX and DT_NEW.                                        *)
ClocksAgree ==
  \A r, s \in Ranks :
    pc[r] = pc[s] => icyc[r] = icyc[s] /\ t[r] = t[s] /\ dt[r] = dt[s]

(* A run whose time step has become too short does not start another cycle   *)
(* with it, and does not end as if it had completed.                         *)
InstabilityIsFatal ==
  \A r \in Ranks : dt[r] < DtStable =>
    /\ pc[r] # "top"
    /\ pc[r] = "finished" => stopStatus[r] # NoStop

(* A run that ends with INSTABILITY_STOP has left a Plot3D file of its last  *)
(* time on every mesh.                                                       *)
InstabilityIsDumped ==
  \A r \in FireRanks :
    pc[r] = "finished" /\ stopStatus[r] = InstabilityStop => pl3d[r] = t[r]

(* A run that ends because the user asked has left a restart file of its     *)
(* last time on every mesh (FDS_User_Guide.tex:1324).                        *)
UserStopLeavesRestart ==
  \A r \in FireRanks :
    pc[r] = "finished" /\ stopStatus[r] = UserStop => core[r] = t[r]

(* Whenever a new cycle begins, and when the user has stopped the run, the   *)
(* restart files of all meshes are of the same time, so that together they   *)
(* are a state from which the run can go on.                                 *)
RestartFilesMatch ==
  AllAt("top") \/ (\A r \in Ranks : pc[r] = "finished" /\ stopStatus[r] = UserStop)
    => \A r, s \in FireRanks : core[r] = core[s]

(* A stop file takes effect within one full sweep of the radiation angles.   *)
StopLatency ==
  \A r \in Ranks : userSince[r] > 0 =>
    icyc[r] - userSince[r] < TimeStepIncrement * AngleIncrement

(* Every run ends: CHANGE_TIME_STEP_LOOP finds a time step or declares an    *)
(* instability, and no call waits for a process that never makes it.         *)
Termination == <>(\A r \in Ranks : pc[r] = "finished")
=============================================================================
