---------------------------- MODULE TimeStepProofs ----------------------------
(***************************************************************************)
(* Proofs about TimeStep for every set of processes, every bound and every  *)
(* combination of stop codes, with or without an evacuation process and     *)
(* with a stop file that appears at any moment.                             *)
(***************************************************************************)
EXTENDS TimeStep, WellFoundedInduction, TLAPS

-----------------------------------------------------------------------------
(* Minima and maxima exist.                                                  *)

(* A non-empty set of natural numbers has the minimum that MINVAL returns.   *)
LEMMA MinOfNat ==
  ASSUME NEW S, S \subseteq Nat, S # {}
  PROVE  MinOf(S) \in S
<1> DEFINE less == {ss \in Nat \X Nat : ss[1] < ss[2]}
<1>1. IsWellFoundedOn(less, Nat)
  BY NatLessThanWellFounded DEF OpToRel
<1>2. PICK x \in S : \A y \in S : ~ (<<y, x>> \in less)
  BY <1>1, WFMin
<1>3. \A y \in S : x <= y
  <2> SUFFICES ASSUME NEW y \in S PROVE x <= y
    OBVIOUS
  <2>1. ~ (<<y, x>> \in less)
    BY <1>2
  <2>2. ~ (y < x)
    BY <2>1
  <2> QED BY <2>2
<1>4. QED
  BY <1>2, <1>3 DEF MinOf

(* The reduction of STOP_CHECK yields the code of some process.              *)
LEMMA MaxOfCodes ==
  ASSUME NEW S, S \subseteq StopCodes, S # {}
  PROVE  /\ MaxOf(S) \in S
         /\ \A c \in S : MaxOf(S) >= c
<1> USE DEF StopCodes, NoStop, InstabilityStop, UserStop, CtrlStop,
            RealizabilityStop, EvacuationStop
<1>1. \E x \in S : \A y \in S : x >= y
  <2>1. CASE 9 \in S  BY <2>1
  <2>2. CASE 9 \notin S /\ 8 \in S  BY <2>2
  <2>3. CASE 9 \notin S /\ 8 \notin S /\ 5 \in S  BY <2>3
  <2>4. CASE 9 \notin S /\ 8 \notin S /\ 5 \notin S /\ 2 \in S  BY <2>4
  <2>5. CASE S \subseteq {0, 1}
    <3>1. CASE 1 \in S  BY <3>1, <2>5
    <3>2. CASE 1 \notin S
      <4>1. S = {0}  BY <3>2, <2>5
      <4> QED BY <4>1
    <3> QED BY <3>1, <3>2
  <2> QED BY <2>1, <2>2, <2>3, <2>4, <2>5
<1> QED BY <1>1 DEF MaxOf

(* STOP_CHECK hands every process the code of one of them, and no smaller   *)
(* one than its own.                                                         *)
LEMMA MergedStopIsCode ==
  ASSUME TypeOK
  PROVE  /\ MergedStop \in StopCodes
         /\ \E r \in Ranks : MergedStop = stopStatus[r]
         /\ \A r \in Ranks : MergedStop >= stopStatus[r]
<1> DEFINE S == {stopStatus[r] : r \in Ranks}
<1>1. S \subseteq StopCodes /\ S # {}
  BY RanksAssumption DEF TypeOK
<1>2. MaxOf(S) \in S /\ \A c \in S : MaxOf(S) >= c
  BY <1>1, MaxOfCodes
<1> QED BY <1>1, <1>2 DEF MergedStop

(* The minimum that MINVAL takes over the fire meshes is one of the values.  *)
LEMMA MinOverFireMeshes ==
  ASSUME NEW f \in [Ranks -> 1..DtInitial]
  PROVE  MinOf({f[m] : m \in FireRanks}) \in 1..DtInitial
<1> DEFINE S == {f[m] : m \in FireRanks}
<1>1. S \subseteq 1..DtInitial /\ S # {}
  BY RanksAssumption DEF FireRanks
<1>2. S \subseteq Nat
  BY <1>1, NumbersAssumption
<1>3. MinOf(S) \in S
  BY <1>1, <1>2, MinOfNat
<1> QED BY <1>1, <1>3

-----------------------------------------------------------------------------
(* Type correctness                                                          *)

(* The variables have their types when MAIN_LOOP is entered.                 *)
LEMMA TypeInit == Init => TypeOK
<1> SUFFICES ASSUME Init PROVE TypeOK
  OBVIOUS
<1>1. radCall \in [Ranks -> 0..(TimeStepIncrement - 1)]
  BY DEF Init
<1>2. angle \in [Ranks -> 1..AngleIncrement]
  BY DEF Init
<1>3. stopFile \in BOOLEAN
  BY DEF Init
<1>4. pc \in [Ranks -> Labels] /\ stopStatus \in [Ranks -> StopCodes]
  BY DEF Init, Labels, StopCodes
<1>5. ctsi \in [Ranks -> [Ranks -> {-1, 0, 1}]]
  BY DEF Init
<1>6. /\ dtNew \in [Ranks -> [Ranks -> 1..DtInitial]]
      /\ core \in [Ranks -> Nat \cup {-1}]
      /\ pl3d \in [Ranks -> Nat \cup {-1}]
  BY NumbersAssumption DEF Init
<1> QED
  BY <1>1, <1>2, <1>3, <1>4, <1>5, <1>6, NumbersAssumption DEF Init, TypeOK

(* No handler of the cycle breaks the types.                                 *)
LEMMA TypeNext == TypeOK /\ [Next]_vars => TypeOK'
<1> SUFFICES ASSUME TypeOK, [Next]_vars PROVE TypeOK'
  OBVIOUS
<1> USE NumbersAssumption DEF TypeOK, Labels, Calls, Goto
<1>1. CASE CreateStopFile
  BY <1>1 DEF CreateStopFile, control, clocks, rad, files
<1>2. ASSUME NEW r \in Ranks, Top(r) PROVE TypeOK'
  <2>1. IncreasedDt(r) \in 1..DtInitial
    <3>1. dtNew[r] \in [Ranks -> 1..DtInitial]
      OBVIOUS
    <3>2. MinOf({dtNew[r][m] : m \in FireRanks}) \in 1..DtInitial
      BY <3>1, MinOverFireMeshes
    <3> QED BY <3>2 DEF IncreasedDt
  <2>2. dt' \in [Ranks -> 1..DtInitial] /\ icyc' \in [Ranks -> Nat]
    BY <1>2, <2>1 DEF Top
  <2>3. stopStatus' \in [Ranks -> StopCodes]
    BY <1>2 DEF Top, StopCodes
  <2>4. diagnostics' \in [Ranks -> BOOLEAN]
    BY <1>2 DEF Top, SeesStop, DiagnosticsCycle
  <2>5. userSince' \in [Ranks -> Nat]
    BY <1>2 DEF Top
  <2> QED BY <1>2, <2>2, <2>3, <2>4, <2>5 DEF Top, rad, files
<1>3. CASE MeshExchange1
  BY <1>3 DEF MeshExchange1, clocks, rad, files
<1>4. ASSUME NEW r \in Ranks, Predict(r) PROVE TypeOK'
  <2>1. CheckStability(dt[r]) \subseteq {-1, 0, 1} \X (1..DtInitial)
    BY DEF CheckStability, Shorter, Longer
  <2> DEFINE reset == [m \in Ranks |-> IF m \in EvacRanks THEN 1 ELSE 0]
             same  == [m \in Ranks |-> dt[r]]
  <2>2. reset \in [Ranks -> {-1, 0, 1}] /\ same \in [Ranks -> 1..DtInitial]
    OBVIOUS
  <2>3. /\ ctsi'  \in [Ranks -> [Ranks -> {-1, 0, 1}]]
        /\ dtNew' \in [Ranks -> [Ranks -> 1..DtInitial]]
    <3>1. CASE r \in EvacRanks
      <4>1. ctsi'  = [ctsi  EXCEPT ![r] = reset] /\ dtNew' = [dtNew EXCEPT ![r] = same]
        BY <1>4, <3>1 DEF Predict
      <4> HIDE DEF reset, same
      <4> QED BY <4>1, <2>2
    <3>2. CASE r \notin EvacRanks
      <4>1. PICK o \in CheckStability(dt[r]) :
              /\ ctsi'  = [ctsi  EXCEPT ![r] = [reset EXCEPT ![r] = o[1]]]
              /\ dtNew' = [dtNew EXCEPT ![r] = [same  EXCEPT ![r] = o[2]]]
        BY <1>4, <3>2 DEF Predict
      <4>2. o[1] \in {-1, 0, 1} /\ o[2] \in 1..DtInitial
        BY <2>1
      <4> HIDE DEF reset, same
      <4>3. /\ [reset EXCEPT ![r] = o[1]] \in [Ranks -> {-1, 0, 1}]
            /\ [same EXCEPT ![r] = o[2]] \in [Ranks -> 1..DtInitial]
        BY <4>2, <2>2
      <4> QED BY <4>1, <4>3
    <3> QED BY <3>1, <3>2
  <2>4. stopStatus' \in [Ranks -> StopCodes]
    BY <1>4 DEF Predict, StopCodes
  <2> QED BY <1>4, <2>3, <2>4 DEF Predict, rad, files
<1>5. CASE StopCheck0
  <2>1. MergedStop \in StopCodes
    BY MergedStopIsCode
  <2>2. stopStatus' \in [Ranks -> StopCodes]
    BY <1>5, <2>1 DEF StopCheck0
  <2> QED BY <1>5, <2>2 DEF StopCheck0, clocks, rad, files
<1>6. CASE ChangeTimeStep
  <2>1. ctsi' \in [Ranks -> [Ranks -> {-1, 0, 1}]]
    BY <1>6 DEF ChangeTimeStep, GatheredIndex
  <2>2. dtNew' \in [Ranks -> [Ranks -> 1..DtInitial]]
    BY <1>6 DEF ChangeTimeStep, GatheredDtNew
  <2>3. dt' \in [Ranks -> 1..DtInitial]
    <3>1. ASSUME NEW r \in Ranks
          PROVE  MinOf({dtNew'[r][m] : m \in FireRanks}) \in 1..DtInitial
      <4>1. dtNew'[r] \in [Ranks -> 1..DtInitial]
        BY <2>2
      <4> QED BY <4>1, MinOverFireMeshes
    <3>2. CASE MustShorten
      <4>1. dt' = [r \in Ranks |-> MinOf({dtNew'[r][m] : m \in FireRanks})]
        BY <1>6, <3>2 DEF ChangeTimeStep
      <4> QED BY <3>1, <4>1
    <3>3. CASE ~MustShorten
      BY <1>6, <3>3 DEF ChangeTimeStep
    <3> QED BY <3>2, <3>3
  <2> QED BY <1>6, <2>1, <2>2, <2>3 DEF ChangeTimeStep, rad, files
<1>7. CASE MeshExchange3
  <2>1. t' \in [Ranks -> Nat]
    BY <1>7 DEF MeshExchange3
  <2> QED BY <1>7, <2>1 DEF MeshExchange3, rad, files
<1>8. ASSUME NEW r \in Ranks, Correct(r) PROVE TypeOK'
  <2>1. stopStatus' \in [Ranks -> StopCodes]
    BY <1>8 DEF Correct, StopCodes
  <2>2. radCall' \in [Ranks -> 0..(TimeStepIncrement - 1)]
    BY <1>8 DEF Correct, ComputeRadiation, rad
  <2>3. NextAngle(r) \in 1..AngleIncrement
    BY DEF NextAngle
  <2>4. angle' \in [Ranks -> 1..AngleIncrement]
    BY <1>8, <2>3 DEF Correct, ComputeRadiation, rad
  <2>5. radDone' \in [Ranks -> BOOLEAN]
    BY <1>8 DEF Correct, ComputeRadiation, rad, SweepCompleted
  <2>6. radExchange' \in [Ranks -> BOOLEAN]
    <3>1. UpdatesIntensity(r) \in BOOLEAN
      BY DEF UpdatesIntensity
    <3>2. \/ radExchange' = radExchange
          \/ radExchange' = [radExchange EXCEPT ![r] = UpdatesIntensity(r)]
      BY <1>8 DEF Correct, ComputeRadiation, rad
    <3> QED BY <3>1, <3>2
  <2> QED BY <1>8, <2>1, <2>2, <2>4, <2>5, <2>6 DEF Correct, clocks, files
<1>9. CASE MeshExchange6
  BY <1>9 DEF MeshExchange6, clocks, rad, files
<1>10. CASE MeshExchange2
  BY <1>10 DEF MeshExchange2, clocks, rad, files
<1>11. ASSUME NEW r \in Ranks, Outputs(r) PROVE TypeOK'
  <2>1. CASE EvacuationSkip(r)
    BY <1>11, <2>1 DEF Outputs, files, clocks, rad
  <2>2. CASE ~EvacuationSkip(r)
    <3>1. PICK kills \in BOOLEAN, asks \in BOOLEAN :
            /\ stopStatus' = [stopStatus EXCEPT ![r] = StatusAtDump(r, kills)]
            /\ DumpMeshOutputs(r, StatusAtDump(r, kills), CoreClockAtDump(r, asks))
      BY <1>11, <2>2 DEF Outputs
    <3> DEFINE status == StatusAtDump(r, kills)
               clock  == CoreClockAtDump(r, asks)
    <3>2. status \in StopCodes /\ clock \in Nat
      BY DEF StatusAtDump, CoreClockAtDump, StopCodes
    <3> HIDE DEF status, clock
    <3>3. stopStatus' \in [Ranks -> StopCodes]
      BY <3>1, <3>2 DEF status
    <3>4. UNCHANGED <<core, pl3d, coreClock>> \/ \E x, y \in Nat \cup {-1}, z \in Nat :
               /\ core' = [core EXCEPT ![r] = x]
               /\ pl3d' = [pl3d EXCEPT ![r] = y]
               /\ coreClock' = [coreClock EXCEPT ![r] = z]
      <4>1. /\ t[r] \in Nat \cup {-1} /\ core[r] \in Nat \cup {-1}
            /\ pl3d[r] \in Nat \cup {-1} /\ clock + DtRestart \in Nat
        BY <3>2
      <4>2. DumpMeshOutputs(r, status, clock)
        BY <3>1 DEF status, clock
      <4> QED BY <4>1, <4>2, <3>2, Zenon DEF DumpMeshOutputs, files
    <3>5. /\ core' \in [Ranks -> Nat \cup {-1}]
          /\ pl3d' \in [Ranks -> Nat \cup {-1}]
          /\ coreClock' \in [Ranks -> Nat]
      <4>1. CASE UNCHANGED <<core, pl3d, coreClock>>
        BY <4>1
      <4>2. ASSUME NEW x \in Nat \cup {-1}, NEW y \in Nat \cup {-1}, NEW z \in Nat,
                   /\ core' = [core EXCEPT ![r] = x]
                   /\ pl3d' = [pl3d EXCEPT ![r] = y]
                   /\ coreClock' = [coreClock EXCEPT ![r] = z]
            PROVE  /\ core' \in [Ranks -> Nat \cup {-1}]
                   /\ pl3d' \in [Ranks -> Nat \cup {-1}]
                   /\ coreClock' \in [Ranks -> Nat]
        BY <4>2
      <4> QED BY <3>4, <4>1, <4>2
    <3> QED BY <1>11, <3>3, <3>5 DEF Outputs, clocks, rad
  <2> QED BY <2>1, <2>2
<1>12. CASE GlobalOutputs
  BY <1>12 DEF GlobalOutputs, clocks, rad, files
<1>13. CASE Diagnostics
  BY <1>13 DEF Diagnostics, clocks, rad, files
<1>14. CASE StopCheck1
  <2>1. MergedStop \in StopCodes
    BY MergedStopIsCode
  <2> QED BY <1>14, <2>1 DEF StopCheck1, clocks, rad, files
<1>15. CASE EndFds
  BY <1>15 DEF EndFds, clocks, rad, files
<1>16. CASE UNCHANGED vars
  BY <1>16 DEF vars, control, clocks, rad, files
<1> QED
  BY <1>1, <1>2, <1>3, <1>4, <1>5, <1>6, <1>7, <1>8, <1>9, <1>10, <1>11,
     <1>12, <1>13, <1>14, <1>15, <1>16 DEF Next, Local, Joint, Finished

(* Every variable keeps its type, for every number of processes.             *)
THEOREM TypeCorrect == Spec => []TypeOK
<1>1. Init => TypeOK  BY TypeInit
<1>2. TypeOK /\ [Next]_vars => TypeOK'  BY TypeNext
<1> QED BY <1>1, <1>2, PTL DEF Spec

-----------------------------------------------------------------------------
(* The processes agree on ICYC, T and DT                                     *)
(*                                                                           *)
(* A process that has passed the top of MAIN_LOOP is one cycle ahead of one  *)
(* that has not, so the invariant compares what each will have after the     *)
(* top.  It needs to know why they will then compute the same DT: either     *)
(* their copies of CHANGE_TIME_STEP_INDEX and DT_NEW are the gathered ones,  *)
(* or the velocity was unstable, the copies differ, and STOP_CHECK(1) will   *)
(* not let anybody reach the top again.                                      *)

Ended(r) == pc[r] \in {"end_fds", "finished"}

NextICyc(r) == IF pc[r] = "top" THEN icyc[r] + 1 ELSE icyc[r]
NextDt(r)   == IF pc[r] = "top" THEN IncreasedDt(r) ELSE dt[r]

(* Past CHANGE_TIME_STEP_LOOP and not yet past STOP_CHECK(1).                *)
AfterLoop == {"mesh_exchange_3", "correct", "mesh_exchange_6",
              "mesh_exchange_2", "outputs", "global_outputs", "diagnostics",
              "stop_check_1"}

SameTime == \A r, s \in Ranks : t[r] = t[s]

SameCycle ==
  \A r, s \in Ranks :
    /\ (Ended(r) <=> Ended(s)) =>
         NextICyc(r) = NextICyc(s) /\ NextDt(r) = NextDt(s)
    /\ pc[r] = "top" /\ pc[s] = "top" => dt[r] = dt[s]

WillAgree ==
  \A r, s \in Ranks :
    pc[r] \in AfterLoop /\ pc[s] \in AfterLoop =>
      /\ ctsi[r] = ctsi[s]
      /\ (\A m \in Ranks : ctsi[r][m] = 1) => dtNew[r] = dtNew[s]

WillEnd ==
  \A r \in Ranks :
    pc[r] \in AfterLoop => stopStatus[r] \notin {NoStop, UserStop}

InStep == SameTime /\ SameCycle /\ (WillAgree \/ WillEnd)

(* What the invariant says of ICYC, T and DT.                                *)
LEMMA InStepImpliesAgreement == InStep /\ TypeOK => ClocksAgree
<1> SUFFICES ASSUME InStep, TypeOK,
                    NEW r \in Ranks, NEW s \in Ranks, pc[r] = pc[s]
             PROVE  icyc[r] = icyc[s] /\ t[r] = t[s] /\ dt[r] = dt[s]
  BY DEF ClocksAgree
<1>1. t[r] = t[s]
  BY DEF InStep, SameTime
<1>2. Ended(r) <=> Ended(s)
  BY DEF Ended
<1>3. NextICyc(r) = NextICyc(s) /\ NextDt(r) = NextDt(s)
  BY <1>2 DEF InStep, SameCycle
<1>4. icyc[r] \in Nat /\ icyc[s] \in Nat
  BY DEF TypeOK
<1>5. icyc[r] = icyc[s]
  BY <1>3, <1>4 DEF NextICyc
<1>6. dt[r] = dt[s]
  BY <1>3 DEF NextDt, InStep, SameCycle
<1> QED BY <1>1, <1>5, <1>6

(* The processes enter MAIN_LOOP in step.                                    *)
LEMMA InStepInit == Init => InStep
<1> SUFFICES ASSUME Init PROVE InStep
  OBVIOUS
<1>1. SameTime
  BY DEF Init, SameTime
<1>2. SameCycle
  BY DEF Init, SameCycle, NextICyc, NextDt, IncreasedDt
<1>3. WillAgree
  BY DEF Init, WillAgree
<1> QED BY <1>1, <1>2, <1>3 DEF InStep

(* A step that leaves the clocks alone, moves no process into or out of a    *)
(* region the invariant distinguishes and clears no stop code.               *)
LEMMA InStepQuiet ==
  ASSUME InStep, UNCHANGED clocks,
         \A r \in Ranks :
           /\ pc'[r] = "top" <=> pc[r] = "top"
           /\ Ended(r)' <=> Ended(r)
           /\ pc'[r] \in AfterLoop <=> pc[r] \in AfterLoop
           /\ pc[r] \in AfterLoop =>
                stopStatus'[r] \in {stopStatus[r]} \cup (StopCodes \ {NoStop, UserStop})
  PROVE  InStep'
<1>1. SameTime'
  BY DEF InStep, SameTime, clocks
<1>2. \A r \in Ranks : NextICyc(r)' = NextICyc(r) /\ NextDt(r)' = NextDt(r)
  BY DEF NextICyc, NextDt, IncreasedDt, clocks
<1>3. SameCycle'
  BY <1>2 DEF InStep, SameCycle, clocks
<1>4. (WillAgree \/ WillEnd)'
  <2>1. CASE WillAgree
    BY <2>1 DEF WillAgree, clocks
  <2>2. CASE WillEnd
    BY <2>2 DEF WillEnd
  <2> QED BY <2>1, <2>2 DEF InStep
<1> QED BY <1>1, <1>3, <1>4 DEF InStep

(* The top of the cycle, which a process passes alone.                       *)
LEMMA InStepTop ==
  ASSUME TypeOK, InStep, NEW p \in Ranks, Top(p)
  PROVE  InStep'
<1>1. /\ pc[p] = "top"
      /\ pc'   = [pc EXCEPT ![p] = "mesh_exchange_1"]
      /\ icyc' = [icyc EXCEPT ![p] = @ + 1]
      /\ dt'   = [dt EXCEPT ![p] = IncreasedDt(p)]
      /\ UNCHANGED <<t, ctsi, dtNew>>
  BY DEF Top, Goto
<1>2. \A r \in Ranks : r # p =>
        pc'[r] = pc[r] /\ icyc'[r] = icyc[r] /\ dt'[r] = dt[r]
  BY <1>1 DEF TypeOK
<1>3. /\ pc'[p] = "mesh_exchange_1"
      /\ icyc'[p] = icyc[p] + 1
      /\ dt'[p] = IncreasedDt(p)
  BY <1>1 DEF TypeOK
<1>4. SameTime'
  BY <1>1 DEF InStep, SameTime
<1>5. \A r \in Ranks : NextICyc(r)' = NextICyc(r) /\ NextDt(r)' = NextDt(r)
  <2> TAKE r \in Ranks
  <2>1. CASE r = p
    BY <2>1, <1>1, <1>3 DEF NextICyc, NextDt
  <2>2. CASE r # p
    BY <2>2, <1>1, <1>2 DEF NextICyc, NextDt, IncreasedDt
  <2> QED BY <2>1, <2>2
<1>6. \A r \in Ranks : /\ Ended(r)' <=> Ended(r)
                       /\ pc'[r] = "top" => pc[r] = "top" /\ r # p
                       /\ pc'[r] \in AfterLoop => pc[r] \in AfterLoop /\ r # p
  BY <1>1, <1>2, <1>3 DEF Ended, AfterLoop
<1>7. SameCycle'
  BY <1>2, <1>5, <1>6 DEF InStep, SameCycle
<1>8. (WillAgree \/ WillEnd)'
  <2>1. CASE WillAgree
    BY <2>1, <1>1, <1>6 DEF WillAgree
  <2>2. CASE WillEnd
    <3>1. \A r \in Ranks : r # p => stopStatus'[r] = stopStatus[r]
      BY DEF Top, TypeOK
    <3> QED BY <2>2, <3>1, <1>6 DEF WillEnd
  <2> QED BY <2>1, <2>2 DEF InStep
<1> QED BY <1>4, <1>7, <1>8 DEF InStep

(* The velocity predictor fills in only the process's own copies of the      *)
(* arrays, which nobody reads before ChangeTimeStep or StopCheck0.           *)
LEMMA InStepPredict ==
  ASSUME TypeOK, InStep, NEW p \in Ranks, Predict(p)
  PROVE  InStep'
<1>1. /\ pc[p] = "predict"
      /\ pc' = [pc EXCEPT ![p] = "stop_check_0"]
      /\ UNCHANGED <<icyc, t, dt>>
  BY DEF Predict, Goto
<1>2. \A r \in Ranks : /\ r # p => pc'[r] = pc[r]
                       /\ r = p => pc'[r] = "stop_check_0"
  BY <1>1 DEF TypeOK
<1>3. \A r \in Ranks : r # p => /\ ctsi'[r] = ctsi[r]
                                /\ dtNew'[r] = dtNew[r]
                                /\ stopStatus'[r] = stopStatus[r]
  <2>1. \A r \in Ranks : r # p => stopStatus'[r] = stopStatus[r]
    BY DEF Predict, TypeOK
  <2>2. \E x, y : ctsi' = [ctsi EXCEPT ![p] = x] /\ dtNew' = [dtNew EXCEPT ![p] = y]
    BY Zenon DEF Predict
  <2>3. \A r \in Ranks : r # p => ctsi'[r] = ctsi[r] /\ dtNew'[r] = dtNew[r]
    BY <2>2 DEF TypeOK
  <2> QED BY <2>1, <2>3
<1>4. SameTime'
  BY <1>1 DEF InStep, SameTime
<1>5. \A r \in Ranks : NextICyc(r)' = NextICyc(r) /\ NextDt(r)' = NextDt(r)
  <2> TAKE r \in Ranks
  <2>1. CASE r = p
    BY <2>1, <1>1, <1>2 DEF NextICyc, NextDt
  <2>2. CASE r # p
    <3>1. /\ ctsi'[r] = ctsi[r] /\ dtNew'[r] = dtNew[r] /\ pc'[r] = pc[r]
          /\ icyc' = icyc /\ dt' = dt
      BY <2>2, <1>1, <1>2, <1>3
    <3>2. IncreasedDt(r)' = IncreasedDt(r)
      BY <3>1 DEF IncreasedDt
    <3> QED BY <3>1, <3>2 DEF NextICyc, NextDt
  <2> QED BY <2>1, <2>2
<1>6. \A r \in Ranks : /\ Ended(r)' <=> Ended(r)
                       /\ pc'[r] = "top" => pc[r] = "top" /\ r # p
                       /\ pc'[r] \in AfterLoop => pc[r] \in AfterLoop /\ r # p
  BY <1>1, <1>2 DEF Ended, AfterLoop
<1>7. SameCycle'
  BY <1>1, <1>5, <1>6 DEF InStep, SameCycle
<1>8. (WillAgree \/ WillEnd)'
  <2>1. CASE WillAgree
    BY <2>1, <1>3, <1>6 DEF WillAgree
  <2>2. CASE WillEnd
    BY <2>2, <1>3, <1>6 DEF WillEnd
  <2> QED BY <2>1, <2>2 DEF InStep
<1> QED BY <1>4, <1>7, <1>8 DEF InStep

(* STOP_CHECK(0): the copies may differ from here on only if the merged code *)
(* is INSTABILITY_STOP.                                                      *)
LEMMA InStepStopCheck0 ==
  ASSUME TypeOK, InStep, StopCheck0
  PROVE  InStep'
<1> DEFINE to == IF MergedStop = InstabilityStop
                 THEN "mesh_exchange_3" ELSE "change_time_step"
<1>1. /\ \A r \in Ranks : pc[r] = "stop_check_0"
      /\ pc' = [r \in Ranks |-> to]
      /\ stopStatus' = [r \in Ranks |-> MergedStop]
      /\ UNCHANGED <<icyc, t, dt, ctsi, dtNew>>
  BY DEF StopCheck0, AllAt, clocks
<1>2. \A r, s \in Ranks :
        icyc[r] = icyc[s] /\ dt[r] = dt[s] /\ t[r] = t[s]
  BY <1>1, InStepImpliesAgreement DEF ClocksAgree
<1>3. \A r \in Ranks : /\ ~Ended(r)'
                       /\ pc'[r] # "top"
                       /\ NextICyc(r)' = icyc[r] /\ NextDt(r)' = dt[r]
  BY <1>1 DEF Ended, NextICyc, NextDt
<1>4. (SameTime /\ SameCycle)'
  BY <1>1, <1>2, <1>3 DEF SameTime, SameCycle
<1>5. WillEnd'
  BY <1>1 DEF WillEnd, AfterLoop, InstabilityStop, NoStop, UserStop
<1> QED BY <1>4, <1>5 DEF InStep

(* The gathered arrays are the same on all processes.                        *)
LEMMA InStepChangeTimeStep ==
  ASSUME TypeOK, InStep, ChangeTimeStep
  PROVE  InStep'
<1>1. /\ \A r \in Ranks : pc[r] = "change_time_step"
      /\ ctsi' = [r \in Ranks |-> GatheredIndex]
      /\ UNCHANGED <<icyc, t>>
  BY DEF ChangeTimeStep, AllAt
<1>2. \A r, s \in Ranks :
        icyc[r] = icyc[s] /\ dt[r] = dt[s] /\ t[r] = t[s]
  BY <1>1, InStepImpliesAgreement DEF ClocksAgree
<1>3. \A r \in Ranks : pc'[r] \in {"mesh_exchange_1", "mesh_exchange_3"}
  BY DEF ChangeTimeStep
<1>4. \A r, s \in Ranks : dt'[r] = dt'[s]
  <2>1. CASE MustShorten
    <3>1. dtNew' = [r \in Ranks |-> GatheredDtNew]
      BY <2>1 DEF ChangeTimeStep, ExchangesDtNew
    <3>2. dt' = [r \in Ranks |-> MinOf({dtNew'[r][m] : m \in FireRanks})]
      BY <2>1 DEF ChangeTimeStep
    <3> QED BY <3>1, <3>2
  <2>2. CASE ~MustShorten
    BY <2>2, <1>2 DEF ChangeTimeStep
  <2> QED BY <2>1, <2>2
<1>5. \A r \in Ranks : /\ ~Ended(r)'
                       /\ pc'[r] # "top"
                       /\ NextICyc(r)' = icyc[r] /\ NextDt(r)' = dt'[r]
  BY <1>1, <1>3 DEF Ended, NextICyc, NextDt
<1>6. (SameTime /\ SameCycle)'
  BY <1>1, <1>2, <1>4, <1>5 DEF SameTime, SameCycle
<1>7. WillAgree'
  <2>1. CASE MayLengthen
    <3>1. dtNew' = [r \in Ranks |-> GatheredDtNew]
      BY <2>1 DEF ChangeTimeStep, ExchangesDtNew
    <3> QED BY <1>1, <3>1 DEF WillAgree
  <2>2. CASE ~MayLengthen
    BY <1>1, <2>2 DEF WillAgree, MayLengthen, GatheredIndex
  <2> QED BY <2>1, <2>2
<1> QED BY <1>6, <1>7 DEF InStep

(* T = T + DT on every process.                                              *)
LEMMA InStepMeshExchange3 ==
  ASSUME TypeOK, InStep, MeshExchange3
  PROVE  InStep'
<1>1. /\ \A r \in Ranks : pc[r] = "mesh_exchange_3"
      /\ pc' = [r \in Ranks |-> "correct"]
      /\ t' = [r \in Ranks |-> t[r] + dt[r]]
      /\ UNCHANGED <<icyc, dt, ctsi, dtNew, stopStatus>>
  BY DEF MeshExchange3, AllAt
<1>2. \A r, s \in Ranks :
        icyc[r] = icyc[s] /\ dt[r] = dt[s] /\ t[r] = t[s]
  BY <1>1, InStepImpliesAgreement DEF ClocksAgree
<1>3. SameTime'
  BY <1>1, <1>2 DEF SameTime
<1>4. \A r \in Ranks : /\ ~Ended(r)'
                       /\ pc'[r] # "top"
                       /\ NextICyc(r)' = icyc[r] /\ NextDt(r)' = dt[r]
  BY <1>1 DEF Ended, NextICyc, NextDt
<1>5. SameCycle'
  BY <1>2, <1>4 DEF SameCycle
<1>6. (WillAgree \/ WillEnd)'
  <2>1. \A r \in Ranks : pc[r] \in AfterLoop
    BY <1>1 DEF AfterLoop
  <2>2. CASE WillAgree
    BY <1>1, <2>1, <2>2 DEF WillAgree
  <2>3. CASE WillEnd
    BY <1>1, <2>1, <2>3 DEF WillEnd
  <2> QED BY <2>2, <2>3 DEF InStep
<1> QED BY <1>3, <1>5, <1>6 DEF InStep

(* If the copies of the arrays differ then every process holds a stop code   *)
(* that makes STOP_CHECK end the run.                                        *)
LEMMA InStepStopCheck1 ==
  ASSUME TypeOK, InStep, StopCheck1
  PROVE  InStep'
<1>1. /\ \A r \in Ranks : pc[r] = "stop_check_1" /\ pc[r] \in AfterLoop
      /\ \A r \in Ranks : pc'[r] \in {"top", "end_fds"}
      /\ \A r \in Ranks : pc'[r] = "top" => StopCheckReturns(r, MergedStop)
      /\ UNCHANGED <<icyc, t, dt, ctsi, dtNew>>
  BY DEF StopCheck1, AllAt, AfterLoop, clocks
<1>2. \A r, s \in Ranks :
        icyc[r] = icyc[s] /\ dt[r] = dt[s] /\ t[r] = t[s]
  BY <1>1, InStepImpliesAgreement DEF ClocksAgree
<1>3. SameTime'
  BY <1>1, <1>2 DEF SameTime
<1>4. \A r, s \in Ranks :
        pc'[r] = "top" /\ pc'[s] = "top" => IncreasedDt(r)' = IncreasedDt(s)'
  <2>1. CASE WillAgree
    <3>1. \A r, s \in Ranks :
            /\ ctsi[r] = ctsi[s]
            /\ (\A m \in Ranks : ctsi[r][m] = 1) => dtNew[r] = dtNew[s]
      BY <1>1, <2>1 DEF WillAgree
    <3>2. \A r, s \in Ranks : IncreasedDt(r) = IncreasedDt(s)
      BY <1>2, <3>1 DEF IncreasedDt
    <3>3. \A r \in Ranks : IncreasedDt(r)' = IncreasedDt(r)
      BY <1>1 DEF IncreasedDt
    <3> QED BY <3>2, <3>3
  <2>2. CASE WillEnd
    <3>1. MergedStop \notin {NoStop, UserStop}
      BY MergedStopIsCode, <1>1, <2>2 DEF WillEnd
    <3>2. \A r \in Ranks : pc'[r] # "top"
      BY <1>1, <3>1 DEF StopCheckReturns
    <3> QED BY <3>2
  <2> QED BY <2>1, <2>2 DEF InStep
<1>5. \A r \in Ranks :
        /\ Ended(r)' <=> pc'[r] # "top"
        /\ pc'[r] = "top" => /\ NextICyc(r)' = icyc[r] + 1
                             /\ NextDt(r)' = IncreasedDt(r)'
        /\ pc'[r] # "top" => /\ NextICyc(r)' = icyc[r]
                             /\ NextDt(r)' = dt[r]
  BY <1>1 DEF Ended, NextICyc, NextDt
<1>6. SameCycle'
  BY <1>1, <1>2, <1>4, <1>5 DEF SameCycle
<1>7. WillAgree'
  BY <1>1 DEF WillAgree, AfterLoop
<1> QED BY <1>3, <1>6, <1>7 DEF InStep

(* Every step of the cycle keeps the processes in step.                      *)
LEMMA InStepNext == TypeOK /\ InStep /\ [Next]_vars => InStep'
<1> SUFFICES ASSUME TypeOK, InStep, [Next]_vars PROVE InStep'
  OBVIOUS
<1> USE DEF AllAt, Ended, AfterLoop, StopCodes
<1>1. CASE CreateStopFile
  <2>1. UNCHANGED <<pc, clocks, stopStatus>>
    BY <1>1 DEF CreateStopFile, control
  <2> QED BY <2>1, InStepQuiet
<1>2. ASSUME NEW r \in Ranks, Top(r) PROVE InStep'
  BY <1>2, InStepTop
<1>3. CASE MeshExchange1
  BY <1>3, InStepQuiet DEF MeshExchange1
<1>4. ASSUME NEW r \in Ranks, Predict(r) PROVE InStep'
  BY <1>4, InStepPredict
<1>5. CASE StopCheck0
  BY <1>5, InStepStopCheck0
<1>6. CASE ChangeTimeStep
  BY <1>6, InStepChangeTimeStep
<1>7. CASE MeshExchange3
  BY <1>7, InStepMeshExchange3
<1>8. ASSUME NEW r \in Ranks, Correct(r) PROVE InStep'
  <2>1. /\ pc[r] = "correct" /\ pc' = [pc EXCEPT ![r] = "mesh_exchange_6"]
        /\ UNCHANGED clocks
        /\ \E code \in {stopStatus[r], RealizabilityStop} :
             stopStatus' = [stopStatus EXCEPT ![r] = code]
    BY <1>8 DEF Correct, Goto
  <2>2. \A q \in Ranks :
          /\ pc'[q] = IF q = r THEN "mesh_exchange_6" ELSE pc[q]
          /\ stopStatus'[q] \in {stopStatus[q], RealizabilityStop}
    BY <2>1 DEF TypeOK
  <2>3. RealizabilityStop \in StopCodes \ {NoStop, UserStop}
    BY DEF RealizabilityStop, NoStop, UserStop
  <2>4. \A q \in Ranks :
          /\ pc'[q] = "top" <=> pc[q] = "top"
          /\ Ended(q)' <=> Ended(q)
          /\ pc'[q] \in AfterLoop <=> pc[q] \in AfterLoop
    BY <2>1, <2>2
  <2> QED BY ONLY InStep, <2>1, <2>2, <2>3, <2>4, InStepQuiet
<1>9. CASE MeshExchange6
  BY <1>9, InStepQuiet DEF MeshExchange6
<1>10. CASE MeshExchange2
  BY <1>10, InStepQuiet DEF MeshExchange2
<1>11. ASSUME NEW r \in Ranks, Outputs(r) PROVE InStep'
  <2>1. /\ pc[r] = "outputs" /\ pc' = [pc EXCEPT ![r] = "global_outputs"]
        /\ UNCHANGED clocks
        /\ \E code \in {stopStatus[r], CtrlStop} :
             stopStatus' = [stopStatus EXCEPT ![r] = code]
    <3>1. \E code \in {stopStatus[r], CtrlStop} :
            stopStatus' = [stopStatus EXCEPT ![r] = code]
      <4>1. CASE EvacuationSkip(r)
        <5>1. stopStatus' = [stopStatus EXCEPT ![r] = stopStatus[r]]
          BY <1>11, <4>1 DEF Outputs, TypeOK
        <5> QED BY <5>1
      <4>2. CASE ~EvacuationSkip(r)
        <5>1. PICK kills \in BOOLEAN :
                stopStatus' = [stopStatus EXCEPT ![r] = StatusAtDump(r, kills)]
          BY <1>11, <4>2 DEF Outputs
        <5>2. StatusAtDump(r, kills) \in {stopStatus[r], CtrlStop}
          BY DEF StatusAtDump
        <5> QED BY <5>1, <5>2
      <4> QED BY <4>1, <4>2
    <3> QED BY <1>11, <3>1 DEF Outputs, Goto
  <2>2. \A q \in Ranks :
          /\ pc'[q] = IF q = r THEN "global_outputs" ELSE pc[q]
          /\ stopStatus'[q] \in {stopStatus[q], CtrlStop}
    BY <2>1 DEF TypeOK
  <2>3. CtrlStop \in StopCodes \ {NoStop, UserStop}
    BY DEF CtrlStop, NoStop, UserStop
  <2>4. \A q \in Ranks :
          /\ pc'[q] = "top" <=> pc[q] = "top"
          /\ Ended(q)' <=> Ended(q)
          /\ pc'[q] \in AfterLoop <=> pc[q] \in AfterLoop
    BY <2>1, <2>2
  <2> QED BY ONLY InStep, <2>1, <2>2, <2>3, <2>4, InStepQuiet
<1>12. CASE GlobalOutputs
  BY <1>12, InStepQuiet DEF GlobalOutputs
<1>13. CASE Diagnostics
  BY <1>13, InStepQuiet DEF Diagnostics
<1>14. CASE StopCheck1
  BY <1>14, InStepStopCheck1
<1>15. CASE EndFds
  BY <1>15, InStepQuiet DEF EndFds
<1>16. CASE UNCHANGED vars
  <2>1. UNCHANGED <<pc, clocks, stopStatus>>
    BY <1>16 DEF vars, control
  <2> QED BY <2>1, InStepQuiet
<1> QED
  BY <1>1, <1>2, <1>3, <1>4, <1>5, <1>6, <1>7, <1>8, <1>9, <1>10, <1>11,
     <1>12, <1>13, <1>14, <1>15, <1>16 DEF Next, Local, Joint, Finished

(* Processes at the same place of MAIN_LOOP agree on ICYC, T and DT, for     *)
(* every number of processes, with or without evacuation, whenever the stop  *)
(* file appears and whatever the single processes find.                      *)
THEOREM Agreement == Spec => []ClocksAgree
<1>1. Init => TypeOK /\ InStep
  BY TypeInit, InStepInit
<1>2. TypeOK /\ InStep /\ [Next]_vars => TypeOK' /\ InStep'
  BY TypeNext, InStepNext
<1>3. TypeOK /\ InStep => ClocksAgree
  BY InStepImpliesAgreement
<1> QED BY <1>1, <1>2, <1>3, PTL DEF Spec
-----------------------------------------------------------------------------
(* The processes make the same calls                                         *)
(*                                                                           *)
(* Two things have to be the same for all processes.  The stop file must     *)
(* not appear between the INQUIREs of one cycle; and STOP_CHECK must not      *)
(* use RADIATION_COMPLETED when there is a process without radiation.        *)

SameAnswers == ~StopFileAnyTime /\ (EvacRanks = {} \/ StopAtIter > 0)

(* The call that a process makes next.                                       *)
HeadsFor(call) ==
  CASE call = "top"     -> "mesh_exchange_1"
    [] call = "predict" -> "stop_check_0"
    [] call = "correct" -> "mesh_exchange_6"
    [] call = "outputs" -> "global_outputs"
    [] OTHER            -> call

OneCall == \A r, s \in Ranks : HeadsFor(pc[r]) = HeadsFor(pc[s])

(* DIAGNOSTICS as the top of MAIN_LOOP sets it.                              *)
WillDiagnose(r) == SeesStop(r) \/ DiagnosticsCycle(icyc[r] + 1) \/ t[r] >= TEnd

SameDiagnostics ==
  \A r, s \in Ranks :
    /\ pc[r] # "top" /\ pc[s] # "top" => diagnostics[r] = diagnostics[s]
    /\ pc[r] # "top" /\ pc[s] = "top" => diagnostics[r] = WillDiagnose(s)

(* The counters of the radiation solver as they are after COMPUTE_RADIATION. *)
NextCall(r) ==
  IF pc[r] = "correct" THEN (radCall[r] + 1) % TimeStepIncrement ELSE radCall[r]
AngleThen(r) ==
  IF pc[r] = "correct" /\ UpdatesIntensity(r) THEN NextAngle(r) ELSE angle[r]
NextDone(r) == IF pc[r] = "correct" THEN SweepCompleted(r) ELSE radDone[r]
NextExchange(r) == IF pc[r] = "correct" THEN UpdatesIntensity(r) ELSE radExchange[r]

SameRadiation ==
  \A r, s \in Ranks :
    /\ NextCall(r) = NextCall(s) /\ AngleThen(r) = AngleThen(s)
    /\ NextDone(r) = NextDone(s) /\ NextExchange(r) = NextExchange(s)

SameCalls == OneCall /\ SameDiagnostics /\ (EvacRanks = {} => SameRadiation)

LEMMA SameCallsInit == Init => SameCalls
<1> SUFFICES ASSUME Init PROVE SameCalls
  OBVIOUS
<1>1. OneCall /\ SameDiagnostics
  BY DEF Init, OneCall, SameDiagnostics
<1>2. SameRadiation
  BY DEF Init, SameRadiation, NextCall, AngleThen, NextDone, NextExchange
<1> QED BY <1>1, <1>2 DEF SameCalls

(* A call that all processes return from alike.                              *)
LEMMA JointKeepsCalls ==
  ASSUME SameCalls, NEW from, from \notin {"top", "correct"}, AllAt(from),
         NEW to, to \notin {"top", "correct"}, \A r \in Ranks : pc'[r] = to,
         UNCHANGED rad,
         UNCHANGED diagnostics \/ \A r \in Ranks : diagnostics'[r] = TRUE
  PROVE  SameCalls'
<1>1. OneCall'
  BY DEF OneCall
<1>2. SameDiagnostics'
  BY DEF SameCalls, SameDiagnostics, AllAt
<1>3. SameRadiation => SameRadiation'
  BY DEF SameRadiation, NextCall, AngleThen, NextDone, NextExchange, AllAt, rad
<1> QED BY <1>1, <1>2, <1>3 DEF SameCalls

(* A process that goes on to the next call alone.                            *)
LEMMA LocalKeepsCalls ==
  ASSUME TypeOK, SameCalls, NEW p \in Ranks, NEW from, NEW to,
         Goto(p, from, to), to = HeadsFor(from), from \notin {"top", "correct"},
         to \notin {"top", "correct"},
         UNCHANGED <<icyc, t, stopFile, rad, diagnostics>>
  PROVE  SameCalls'
<1>1. /\ pc[p] = from /\ pc'[p] = to
      /\ \A r \in Ranks : r # p => pc'[r] = pc[r]
  BY DEF Goto, TypeOK
<1>2. OneCall'
  <2>1. HeadsFor(to) = to
    BY DEF HeadsFor
  <2>2. \A r \in Ranks : HeadsFor(pc'[r]) = HeadsFor(pc[r])
    BY <1>1, <2>1
  <2> QED BY <2>2 DEF SameCalls, OneCall
<1>3. SameDiagnostics'
  BY <1>1 DEF SameCalls, SameDiagnostics, WillDiagnose, SeesStop
<1>4. SameRadiation => SameRadiation'
  <2>1. \A r \in Ranks :
          /\ pc'[r] = "correct" <=> pc[r] = "correct"
          /\ UpdatesIntensity(r)' = UpdatesIntensity(r)
          /\ NextAngle(r)' = NextAngle(r)
    BY <1>1 DEF UpdatesIntensity, NextAngle, rad
  <2>2. \A r \in Ranks : /\ NextCall(r)' = NextCall(r) /\ AngleThen(r)' = AngleThen(r)
                         /\ NextDone(r)' = NextDone(r) /\ NextExchange(r)' = NextExchange(r)
    BY <2>1 DEF NextCall, AngleThen, NextDone, NextExchange, SweepCompleted, rad,
               UpdatesIntensity
  <2> QED BY <2>2 DEF SameRadiation
<1> QED BY <1>2, <1>3, <1>4 DEF SameCalls

(* The stop file appears when all processes are in the same cycle.           *)
LEMMA StopFileKeepsCalls ==
  ASSUME SameAnswers, TypeOK, InStep, SameCalls, CreateStopFile
  PROVE  SameCalls'
<1>1. /\ \A r, s \in Ranks : icyc[r] = icyc[s]
      /\ UNCHANGED <<pc, icyc, t, rad, diagnostics>>
  BY DEF CreateStopFile, SameAnswers, control, clocks
<1>2. SameDiagnostics'
  <2>1. ASSUME NEW r \in Ranks, NEW s \in Ranks, pc[r] # "top", pc[s] = "top" PROVE FALSE
    <3>1. pc[r] = "mesh_exchange_1"
      BY <2>1 DEF SameCalls, OneCall, HeadsFor
    <3>2. NextICyc(r) = NextICyc(s)
      BY <2>1, <3>1 DEF InStep, SameCycle, Ended
    <3>3. icyc[r] = icyc[s] + 1
      BY <2>1, <3>2 DEF NextICyc
    <3>4. icyc[r] \in Nat /\ icyc[s] \in Nat
      BY DEF TypeOK
    <3> QED BY <1>1, <3>3, <3>4
  <2> QED BY <1>1, <2>1 DEF SameCalls, SameDiagnostics
<1>3. OneCall' /\ (SameRadiation => SameRadiation')
  BY <1>1 DEF SameCalls, OneCall, SameRadiation, NextCall, AngleThen, NextDone,
      NextExchange, SweepCompleted, UpdatesIntensity, NextAngle, rad
<1> QED BY <1>2, <1>3 DEF SameCalls

(* The top of MAIN_LOOP: whoever comes later sees the same.                  *)
LEMMA TopKeepsCalls ==
  ASSUME TypeOK, InStep, SameCalls, NEW p \in Ranks, Top(p)
  PROVE  SameCalls'
<1>1. /\ pc[p] = "top" /\ pc'[p] = "mesh_exchange_1"
      /\ \A r \in Ranks : r # p => /\ pc'[r] = pc[r] /\ icyc'[r] = icyc[r]
                                   /\ diagnostics'[r] = diagnostics[r]
      /\ diagnostics'[p] = WillDiagnose(p)
      /\ UNCHANGED <<stopFile, t, rad>>
  BY DEF Top, Goto, TypeOK, WillDiagnose
<1>2. \A r \in Ranks : pc[r] \in {"top", "mesh_exchange_1"}
  BY <1>1 DEF SameCalls, OneCall, HeadsFor
<1>3. \A r \in Ranks : pc'[r] \in {"top", "mesh_exchange_1"}
  BY <1>1, <1>2
<1>4. OneCall'
  BY <1>3 DEF OneCall, HeadsFor
<1>5. \A s \in Ranks : pc'[s] = "top" => s # p /\ pc[s] = "top"
                                        /\ WillDiagnose(s)' = WillDiagnose(p)
  <2> TAKE s \in Ranks
  <2> HAVE pc'[s] = "top"
  <2>1. s # p /\ pc[s] = "top" /\ icyc'[s] = icyc[s]
    BY <1>1
  <2>2. icyc[s] = icyc[p] /\ t[s] = t[p]
    BY <1>1, <2>1, InStepImpliesAgreement DEF ClocksAgree
  <2> QED BY <1>1, <2>1, <2>2 DEF WillDiagnose, SeesStop
<1>6. \A r \in Ranks : pc'[r] # "top" => diagnostics'[r] = WillDiagnose(p)
  BY <1>1 DEF SameCalls, SameDiagnostics
<1>7. SameDiagnostics'
  BY <1>5, <1>6 DEF SameDiagnostics
<1>8. SameRadiation => SameRadiation'
  BY <1>2, <1>3, <1>1 DEF SameRadiation, NextCall, AngleThen, NextDone, NextExchange, rad
<1> QED BY <1>4, <1>7, <1>8 DEF SameCalls

(* COMPUTE_RADIATION does what was going to be done.                         *)
LEMMA CorrectKeepsCalls ==
  ASSUME TypeOK, SameCalls, NEW p \in Ranks, Correct(p)
  PROVE  SameCalls'
<1>1. /\ pc[p] = "correct" /\ pc'[p] = "mesh_exchange_6"
      /\ \A r \in Ranks : r # p => pc'[r] = pc[r]
      /\ UNCHANGED <<stopFile, icyc, t, diagnostics>>
  BY DEF Correct, Goto, TypeOK, clocks
<1>2. OneCall'
  <2>1. \A r \in Ranks : HeadsFor(pc'[r]) = HeadsFor(pc[r])
    BY <1>1 DEF HeadsFor
  <2> QED BY <2>1 DEF SameCalls, OneCall
<1>3. SameDiagnostics'
  BY <1>1 DEF SameCalls, SameDiagnostics, WillDiagnose, SeesStop
<1>4. EvacRanks = {} /\ SameRadiation => SameRadiation'
  <2> SUFFICES ASSUME EvacRanks = {}, SameRadiation PROVE SameRadiation'
    OBVIOUS
  <2>1. /\ radCall'[p] = NextCall(p) /\ angle'[p] = AngleThen(p)
        /\ radDone'[p] = NextDone(p) /\ radExchange'[p] = NextExchange(p)
        /\ \A r \in Ranks : r # p => /\ radCall'[r] = radCall[r] /\ angle'[r] = angle[r]
                                     /\ radDone'[r] = radDone[r]
                                     /\ radExchange'[r] = radExchange[r]
    BY <1>1 DEF Correct, ComputeRadiation, TypeOK, NextCall, AngleThen, NextDone, NextExchange
  <2>2. \A r \in Ranks : r # p => UpdatesIntensity(r)' = UpdatesIntensity(r)
                                  /\ NextAngle(r)' = NextAngle(r)
    BY <1>1, <2>1 DEF UpdatesIntensity, NextAngle
  <2>3. \A r \in Ranks : /\ NextCall(r)' = NextCall(r) /\ AngleThen(r)' = AngleThen(r)
                         /\ NextDone(r)' = NextDone(r) /\ NextExchange(r)' = NextExchange(r)
    <3> TAKE r \in Ranks
    <3>1. CASE r = p
      BY <1>1, <2>1, <3>1 DEF NextCall, AngleThen, NextDone, NextExchange
    <3>2. CASE r # p
      BY <1>1, <2>1, <2>2, <3>2 DEF NextCall, AngleThen, NextDone, NextExchange,
             SweepCompleted
    <3> QED BY <3>1, <3>2
  <2> QED BY <2>3 DEF SameRadiation
<1> QED BY <1>2, <1>3, <1>4 DEF SameCalls

(* All processes come to the corrector with the same counters.               *)
LEMMA MeshExchange3KeepsCalls ==
  ASSUME TypeOK, InStep, SameCalls, MeshExchange3
  PROVE  SameCalls'
<1>1. /\ \A r \in Ranks : pc[r] = "mesh_exchange_3" /\ pc'[r] = "correct"
      /\ UNCHANGED <<icyc, rad, diagnostics>>
  BY DEF MeshExchange3, AllAt
<1>2. OneCall' /\ SameDiagnostics'
  BY <1>1 DEF SameCalls, OneCall, SameDiagnostics
<1>3. \A r, s \in Ranks : icyc[r] = icyc[s]
  BY <1>1, InStepImpliesAgreement DEF ClocksAgree
<1>4. SameRadiation => SameRadiation'
  <2> SUFFICES ASSUME SameRadiation PROVE SameRadiation'
    OBVIOUS
  <2>1. \A r, s \in Ranks : radCall[r] = radCall[s] /\ angle[r] = angle[s]
    BY <1>1 DEF SameRadiation, NextCall, AngleThen
  <2>2. \A r, s \in Ranks : UpdatesIntensity(r)' = UpdatesIntensity(s)'
                            /\ NextAngle(r)' = NextAngle(s)'
    BY <1>1, <1>3, <2>1 DEF UpdatesIntensity, NextAngle, rad
  <2> QED BY <1>1, <1>3, <2>1, <2>2 DEF SameRadiation, NextCall, AngleThen, NextDone,
              NextExchange, SweepCompleted, rad
<1> QED BY <1>2, <1>4 DEF SameCalls

(* The calls after which processes might part: each decision is taken from   *)
(* values that all of them have.                                             *)
LEMMA DecisionsKeepCalls ==
  ASSUME SameAnswers, TypeOK, InStep, SameCalls,
         MeshExchange6 \/ GlobalOutputs \/ StopCheck1
  PROVE  SameCalls'
<1>1. CASE MeshExchange6
  <2>1. \A r, s \in Ranks : JoinsRadiationExchange(r) = JoinsRadiationExchange(s)
    <3>1. CASE EvacRanks = {}
      <4>1. \A r, s \in Ranks : radExchange[r] = radExchange[s]
        BY <1>1, <3>1 DEF MeshExchange6, AllAt, SameCalls, SameRadiation, NextExchange
      <4> QED BY <3>1, <4>1 DEF JoinsRadiationExchange, HasEvac
    <3>2. CASE EvacRanks # {}
      BY <3>2 DEF JoinsRadiationExchange, HasEvac
    <3> QED BY <3>1, <3>2
  <2>2. \E to \in {"mesh_exchange_2", "outputs"} : \A r \in Ranks : pc'[r] = to
    BY <1>1, <2>1 DEF MeshExchange6
  <2> QED BY <1>1, <2>2, JointKeepsCalls DEF MeshExchange6
<1>2. CASE GlobalOutputs
  <2>1. \A r, s \in Ranks : t[r] = t[s] /\ diagnostics[r] = diagnostics[s]
    BY <1>2 DEF InStep, SameTime, SameCalls, SameDiagnostics, GlobalOutputs, AllAt
  <2>2. \E to \in {"diagnostics", "stop_check_1"} : \A r \in Ranks : pc'[r] = to
    BY <1>2, <2>1 DEF GlobalOutputs
  <2> QED BY <1>2, <2>2, JointKeepsCalls DEF GlobalOutputs
<1>3. CASE StopCheck1
  <2>1. \A r, s \in Ranks :
          (StopCheckReturns(r, MergedStop) /\ t[r] < TEnd) =
          (StopCheckReturns(s, MergedStop) /\ t[s] < TEnd)
    <3>1. \A r, s \in Ranks : t[r] = t[s]
      BY DEF InStep, SameTime
    <3>2. \A r, s \in Ranks : EvacRanks = {} => radDone[r] = radDone[s]
      BY <1>3 DEF StopCheck1, AllAt, SameCalls, SameRadiation, NextDone
    <3> QED BY <3>1, <3>2, NumbersAssumption DEF StopCheckReturns, SameAnswers
  <2>2. CASE \A r \in Ranks : pc'[r] = "end_fds"
    BY <1>3, <2>2, JointKeepsCalls DEF StopCheck1
  <2>3. CASE \A r \in Ranks : pc'[r] = "top"
    <3>1. OneCall' /\ SameDiagnostics'
      BY <2>3 DEF OneCall, SameDiagnostics
    <3>2. SameRadiation => SameRadiation'
      BY <1>3, <2>3 DEF StopCheck1, AllAt, SameRadiation, NextCall, AngleThen, NextDone,
          NextExchange, rad
    <3> QED BY <3>1, <3>2 DEF SameCalls
  <2>4. (\A r \in Ranks : pc'[r] = "end_fds") \/ (\A r \in Ranks : pc'[r] = "top")
    BY <1>3, <2>1 DEF StopCheck1
  <2> QED BY <2>2, <2>3, <2>4
<1> QED BY <1>1, <1>2, <1>3

LEMMA SameCallsNext ==
  ASSUME SameAnswers, TypeOK, InStep, SameCalls, [Next]_vars
  PROVE  SameCalls'
<1>1. ASSUME NEW r \in Ranks, Predict(r) PROVE SameCalls'
  BY <1>1, LocalKeepsCalls DEF Predict, HeadsFor
<1>2. ASSUME NEW r \in Ranks, Outputs(r) PROVE SameCalls'
  BY <1>2, LocalKeepsCalls DEF Outputs, HeadsFor, clocks
<1>3. CASE StopCheck0
  <2>1. \E to \in {"mesh_exchange_3", "change_time_step"} : \A r \in Ranks : pc'[r] = to
    BY <1>3 DEF StopCheck0
  <2> QED BY <1>3, <2>1, JointKeepsCalls DEF StopCheck0
<1>4. CASE ChangeTimeStep
  <2>1. \E to \in {"mesh_exchange_1", "mesh_exchange_3"} : \A r \in Ranks : pc'[r] = to
    BY <1>4 DEF ChangeTimeStep
  <2> QED BY <1>4, <2>1, JointKeepsCalls DEF ChangeTimeStep
<1>5. CASE MeshExchange1
  BY <1>5, JointKeepsCalls DEF MeshExchange1
<1>6. CASE MeshExchange2
  BY <1>6, JointKeepsCalls DEF MeshExchange2
<1>7. CASE Diagnostics
  BY <1>7, JointKeepsCalls DEF Diagnostics
<1>8. CASE EndFds
  BY <1>8, JointKeepsCalls DEF EndFds
<1>9. CASE UNCHANGED vars
  BY <1>9 DEF vars, control, clocks, rad, SameCalls, OneCall, SameDiagnostics, WillDiagnose,
      SeesStop, SameRadiation, NextCall, AngleThen, NextDone, NextExchange, SweepCompleted,
      UpdatesIntensity, NextAngle
<1> QED
  BY <1>1, <1>2, <1>3, <1>4, <1>5, <1>6, <1>7, <1>8, <1>9, StopFileKeepsCalls,
     TopKeepsCalls, CorrectKeepsCalls, MeshExchange3KeepsCalls, DecisionsKeepCalls
     DEF Next, Local, Joint, Finished

(* No decision makes the processes part ways, when all have looked for the   *)
(* stop file alike and either all have radiation or the stop file has the    *)
(* number of the last cycle.                                                 *)
THEOREM CallsAlwaysMatch ==
  ASSUME SameAnswers
  PROVE  Spec => []CollectiveOrder
<1>1. Init => TypeOK /\ InStep /\ SameCalls
  BY TypeInit, InStepInit, SameCallsInit
<1>2. TypeOK /\ InStep /\ SameCalls /\ [Next]_vars => TypeOK' /\ InStep' /\ SameCalls'
  BY TypeNext, InStepNext, SameCallsNext
<1>3. SameCalls => CollectiveOrder
  BY DEF SameCalls, OneCall, CollectiveOrder, HeadsFor, Calls
<1> QED BY <1>1, <1>2, <1>3, PTL DEF Spec
-----------------------------------------------------------------------------
(* How a run without evacuation processes stops, and what it leaves          *)

Failed(r) == stopStatus[r] \in {CtrlStop, RealizabilityStop, EvacuationStop}

(* Where the code that STOP_CHECK(0) has merged is in force, and where the   *)
(* files of the cycle have been written.                                     *)
Merged == AfterLoop \cup {"change_time_step"}
Dumped == {"global_outputs", "diagnostics", "stop_check_1"}

(* Processes have the merged code, but for those that have failed since.     *)
Codes ==
  \A r \in Ranks :
    /\ pc[r] \notin AfterLoop /\ ~Ended(r) => ~Failed(r)
    /\ \A s \in Ranks :
         pc[r] \in Merged /\ pc[s] \in Merged /\ ~Failed(r) /\ ~Failed(s)
           => stopStatus[r] = stopStatus[s]

(* INSTABILITY_STOP is the code of a time step that is too short, and such a *)
(* step has a code that ends the run.                                        *)
Unstable ==
  \A r \in Ranks :
    /\ stopStatus[r] = InstabilityStop =>
         Ended(r) \/ (dt[r] < DtStable /\ pc[r] \in AfterLoop \cup {"stop_check_0"})
    /\ dt[r] < DtStable =>
         /\ pc[r] \notin {"top", "change_time_step"}
         /\ pc[r] = "stop_check_0" => stopStatus[r] = InstabilityStop
         /\ pc[r] \in AfterLoop => stopStatus[r] \notin {NoStop, UserStop}
         /\ Ended(r) => stopStatus[r] # NoStop

(* What is written for a stop is of the last time.                           *)
Left ==
  \A r \in Ranks :
    /\ (pc[r] \in Dumped \/ Ended(r)) /\ stopStatus[r] = InstabilityStop => pl3d[r] = t[r]
    /\ StopAtIter = 0 /\ stopStatus[r] = UserStop =>
         /\ pc[r] \in Dumped /\ (t[r] >= TEnd \/ radDone[r]) => core[r] = t[r]
         /\ Ended(r) => core[r] = t[r]

Stops == Codes /\ Unstable /\ Left

LEMMA StopsInit == Init => Stops
<1> SUFFICES ASSUME Init PROVE Stops
  OBVIOUS
<1>1. \A r \in Ranks : pc[r] = "top" /\ stopStatus[r] = NoStop /\ dt[r] = DtInitial
  BY DEF Init
<1> QED
  BY <1>1, NumbersAssumption DEF Stops, Codes, Unstable, Left, Failed, Ended, AfterLoop,
     Merged, Dumped, NoStop, InstabilityStop, UserStop, CtrlStop, RealizabilityStop,
     EvacuationStop

(* A step that moves no process into or out of a place of the invariant.     *)
LEMMA QuietKeepsStops ==
  ASSUME Stops, UNCHANGED <<dt, t, stopStatus, core, pl3d, radDone>>,
         \A r \in Ranks :
           /\ pc'[r] \in AfterLoop <=> pc[r] \in AfterLoop
           /\ Ended(r)' <=> Ended(r)
           /\ pc'[r] \in Dumped <=> pc[r] \in Dumped
           /\ pc'[r] = "top" <=> pc[r] = "top"
           /\ pc'[r] = "change_time_step" <=> pc[r] = "change_time_step"
           /\ pc'[r] = "stop_check_0" <=> pc[r] = "stop_check_0"
  PROVE  Stops'
<1>1. Codes'
  BY DEF Stops, Codes, Failed, Merged
<1>2. Unstable'
  BY DEF Stops, Unstable
<1>3. Left'
  BY DEF Stops, Left
<1> QED BY <1>1, <1>2, <1>3 DEF Stops

(* A step of one process, seen by the others.                                *)
LEMMA OneKeepsStops ==
  ASSUME Stops, NEW p \in Ranks,
         \A r \in Ranks \ {p} :
           /\ pc'[r] = pc[r] /\ dt'[r] = dt[r] /\ t'[r] = t[r] /\ core'[r] = core[r]
           /\ stopStatus'[r] = stopStatus[r] /\ pl3d'[r] = pl3d[r] /\ radDone'[r] = radDone[r],
         pc'[p] \notin AfterLoop /\ ~Ended(p)' => ~Failed(p)',
         pc'[p] \in Merged => pc[p] \in Merged /\ (Failed(p)' \/ stopStatus'[p] = stopStatus[p]),
         stopStatus'[p] = InstabilityStop =>
           Ended(p)' \/ (dt'[p] < DtStable /\ pc'[p] \in AfterLoop \cup {"stop_check_0"}),
         dt'[p] < DtStable =>
           /\ pc'[p] \notin {"top", "change_time_step"}
           /\ pc'[p] = "stop_check_0" => stopStatus'[p] = InstabilityStop
           /\ pc'[p] \in AfterLoop => stopStatus'[p] \notin {NoStop, UserStop},
         ~Ended(p)',
         pc'[p] \in Dumped =>
           /\ stopStatus'[p] = InstabilityStop => pl3d'[p] = t'[p]
           /\ stopStatus'[p] = UserStop /\ (t'[p] >= TEnd \/ radDone'[p]) => core'[p] = t'[p]
  PROVE  Stops'
<1>1. Codes'
  <2>1. \A r \in Ranks : pc'[r] \notin AfterLoop /\ ~Ended(r)' => ~Failed(r)'
    BY DEF Stops, Codes, Failed, Ended
  <2>2. \A r \in Ranks : pc'[r] \in Merged /\ ~Failed(r)' =>
           pc[r] \in Merged /\ ~Failed(r) /\ stopStatus'[r] = stopStatus[r]
    BY DEF Failed
  <2>3. ASSUME NEW r \in Ranks, NEW s \in Ranks,
               pc'[r] \in Merged, pc'[s] \in Merged, ~Failed(r)', ~Failed(s)'
        PROVE  stopStatus'[r] = stopStatus'[s]
    BY <2>2, <2>3 DEF Stops, Codes
  <2> QED BY <2>1, <2>3 DEF Codes
<1>2. Unstable'
  BY DEF Stops, Unstable, Ended
<1>3. Left'
  BY DEF Stops, Left, Ended
<1> QED BY <1>1, <1>2, <1>3 DEF Stops

LEMMA TopKeepsStops ==
  ASSUME EvacRanks = {}, TypeOK, Stops, NEW p \in Ranks, Top(p)
  PROVE  Stops'
<1>1. /\ pc[p] = "top" /\ pc'[p] = "mesh_exchange_1"
      /\ \A r \in Ranks \ {p} : /\ pc'[r] = pc[r] /\ dt'[r] = dt[r]
                                /\ stopStatus'[r] = stopStatus[r]
      /\ stopStatus'[p] \in {stopStatus[p], UserStop}
      /\ UNCHANGED <<t, core, pl3d, radDone>>
  BY DEF Top, Goto, TypeOK, rad, files
<1>2. stopStatus[p] # InstabilityStop /\ ~Failed(p)
  BY <1>1 DEF Stops, Codes, Unstable, Ended, AfterLoop
<1>3. ~Failed(p)' /\ stopStatus'[p] # InstabilityStop
  BY <1>1, <1>2 DEF Failed, UserStop, CtrlStop, RealizabilityStop, EvacuationStop,
                 InstabilityStop
<1> QED BY <1>1, <1>3, OneKeepsStops DEF Ended, AfterLoop, Merged, Dumped

LEMMA PredictKeepsStops ==
  ASSUME EvacRanks = {}, TypeOK, Stops, NEW p \in Ranks, Predict(p)
  PROVE  Stops'
<1>1. /\ pc[p] = "predict" /\ pc'[p] = "stop_check_0"
      /\ \A r \in Ranks \ {p} : pc'[r] = pc[r] /\ stopStatus'[r] = stopStatus[r]
      /\ stopStatus'[p] = IF dt[p] < DtStable THEN InstabilityStop ELSE stopStatus[p]
      /\ UNCHANGED <<t, dt, core, pl3d, radDone>>
  BY DEF Predict, Goto, TypeOK, rad, files, EvacuationSkip
<1>2. stopStatus[p] # InstabilityStop /\ ~Failed(p)
  BY <1>1 DEF Stops, Codes, Unstable, Ended, AfterLoop
<1>3. ~Failed(p)'
  BY <1>1, <1>2 DEF Failed, CtrlStop, RealizabilityStop, EvacuationStop, InstabilityStop
<1> QED BY <1>1, <1>2, <1>3, OneKeepsStops DEF Ended, AfterLoop, Merged, Dumped

LEMMA CorrectKeepsStops ==
  ASSUME EvacRanks = {}, TypeOK, Stops, NEW p \in Ranks, Correct(p)
  PROVE  Stops'
<1>1. /\ pc[p] = "correct" /\ pc'[p] = "mesh_exchange_6"
      /\ \A r \in Ranks \ {p} : /\ pc'[r] = pc[r] /\ stopStatus'[r] = stopStatus[r]
                                /\ radDone'[r] = radDone[r]
      /\ stopStatus'[p] \in {stopStatus[p], RealizabilityStop}
      /\ UNCHANGED <<t, dt, core, pl3d>>
  BY DEF Correct, ComputeRadiation, Goto, TypeOK, clocks, files
<1>2. /\ stopStatus[p] = InstabilityStop => dt[p] < DtStable
      /\ dt[p] < DtStable => stopStatus[p] \notin {NoStop, UserStop}
  BY <1>1 DEF Stops, Unstable, Ended, AfterLoop
<1>3. RealizabilityStop \notin {InstabilityStop, NoStop, UserStop}
  BY DEF RealizabilityStop, InstabilityStop, NoStop, UserStop
<1> QED BY <1>1, <1>2, <1>3, OneKeepsStops DEF Ended, AfterLoop, Merged, Dumped, Failed

LEMMA OutputsKeepsStops ==
  ASSUME EvacRanks = {}, TypeOK, Stops, NEW p \in Ranks, Outputs(p)
  PROVE  Stops'
<1> PICK kills \in BOOLEAN, asks \in BOOLEAN :
      /\ stopStatus' = [stopStatus EXCEPT ![p] = StatusAtDump(p, kills)]
      /\ DumpMeshOutputs(p, StatusAtDump(p, kills), CoreClockAtDump(p, asks))
  BY DEF Outputs, EvacuationSkip
<1> DEFINE status == StatusAtDump(p, kills)
           clock  == CoreClockAtDump(p, asks)
<1>1. /\ pc[p] = "outputs" /\ pc'[p] = "global_outputs"
      /\ \A r \in Ranks \ {p} : pc'[r] = pc[r] /\ stopStatus'[r] = stopStatus[r]
      /\ stopStatus'[p] = status /\ status \in {stopStatus[p], CtrlStop}
      /\ UNCHANGED <<t, dt, radDone>>
  BY DEF Outputs, Goto, TypeOK, clocks, rad, StatusAtDump
<1>2. /\ \A r \in Ranks \ {p} : core'[r] = core[r] /\ pl3d'[r] = pl3d[r]
      /\ core'[p] = (IF DumpsCore(p, status, clock) THEN t[p] ELSE core[p])
      /\ pl3d'[p] = (IF DumpsPl3d(p, status) THEN t[p] ELSE pl3d[p])
  <2> HIDE DEF status, clock
  <2>1. DumpMeshOutputs(p, status, clock)
    BY DEF status, clock
  <2> QED BY <2>1 DEF DumpMeshOutputs, TypeOK
<1> HIDE DEF status, clock
<1>3. /\ stopStatus[p] = InstabilityStop => dt[p] < DtStable
      /\ dt[p] < DtStable => stopStatus[p] \notin {NoStop, UserStop}
  BY <1>1 DEF Stops, Unstable, Ended, AfterLoop
<1>4. CtrlStop \notin {InstabilityStop, NoStop, UserStop}
  BY DEF CtrlStop, InstabilityStop, NoStop, UserStop
<1>5. /\ status = InstabilityStop => pl3d'[p] = t[p]
      /\ status = UserStop /\ (t[p] >= TEnd \/ radDone[p]) => core'[p] = t[p]
  BY <1>2 DEF DumpsPl3d, DumpsCore
<1> QED BY <1>1, <1>2, <1>3, <1>4, <1>5, OneKeepsStops DEF Ended, AfterLoop, Merged, Dumped, Failed

(* All processes have the same DT here, so all of them or none are unstable. *)
LEMMA StopCheck0KeepsStops ==
  ASSUME TypeOK, InStep, Stops, StopCheck0
  PROVE  Stops'
<1>1. /\ \A r \in Ranks : pc[r] = "stop_check_0"
      /\ \A r \in Ranks : stopStatus'[r] = MergedStop
      /\ \A r \in Ranks : pc'[r] = IF MergedStop = InstabilityStop
                                   THEN "mesh_exchange_3" ELSE "change_time_step"
      /\ UNCHANGED <<t, dt, core, pl3d, radDone>>
  BY DEF StopCheck0, AllAt, clocks, rad, files
<1>2. \A r, s \in Ranks : dt[r] = dt[s]
  BY <1>1, InStepImpliesAgreement DEF ClocksAgree
<1>3. PICK q \in Ranks : MergedStop = stopStatus[q]
  BY MergedStopIsCode
<1>4. ~Failed(q) /\ (dt[q] < DtStable <=> stopStatus[q] = InstabilityStop)
  BY <1>1 DEF Stops, Codes, Unstable, Ended, AfterLoop
<1>5. \A r \in Ranks : ~Failed(r)' /\ (dt'[r] < DtStable <=> MergedStop = InstabilityStop)
  BY <1>1, <1>2, <1>3, <1>4 DEF Failed
<1>6. InstabilityStop \notin {NoStop, UserStop}
  BY DEF InstabilityStop, NoStop, UserStop
<1>7. Codes'
  BY <1>1, <1>5 DEF Codes
<1>8. Unstable' /\ Left'
  BY <1>1, <1>5, <1>6 DEF Unstable, Left, Ended, AfterLoop, Dumped
<1> QED BY <1>7, <1>8 DEF Stops

LEMMA ChangeTimeStepKeepsStops ==
  ASSUME TypeOK, Stops, ChangeTimeStep
  PROVE  Stops'
<1>1. /\ \A r \in Ranks : pc[r] = "change_time_step"
      /\ \/ \A r \in Ranks : pc'[r] = "mesh_exchange_1"
         \/ (\A r \in Ranks : pc'[r] = "mesh_exchange_3") /\ dt' = dt
      /\ UNCHANGED <<t, stopStatus, core, pl3d, radDone>>
  BY DEF ChangeTimeStep, AllAt, rad, files
<1>2. \A r \in Ranks : ~Failed(r) /\ ~(dt[r] < DtStable) /\ stopStatus[r] # InstabilityStop
  BY <1>1 DEF Stops, Codes, Unstable, Ended, AfterLoop
<1>3. Codes'
  BY <1>1, <1>2 DEF Stops, Codes, Failed, Merged, AfterLoop
<1>4. Unstable' /\ Left'
  BY <1>1, <1>2 DEF Unstable, Left, Ended, AfterLoop, Dumped
<1> QED BY <1>3, <1>4 DEF Stops

LEMMA MeshExchange3KeepsStops ==
  ASSUME Stops, MeshExchange3
  PROVE  Stops'
<1>1. /\ \A r \in Ranks : pc[r] = "mesh_exchange_3" /\ pc'[r] = "correct"
      /\ UNCHANGED <<dt, stopStatus>>
  BY DEF MeshExchange3, AllAt
<1>2. Codes'
  BY <1>1 DEF Stops, Codes, Failed, Merged, AfterLoop
<1>3. Unstable' /\ Left'
  BY <1>1 DEF Stops, Unstable, Left, Ended, AfterLoop, Dumped
<1> QED BY <1>2, <1>3 DEF Stops

(* STOP_CHECK(1) merges the codes again: a failure outranks what all have    *)
(* in common.                                                                *)
LEMMA StopCheck1KeepsStops ==
  ASSUME EvacRanks = {}, TypeOK, InStep, Stops, StopCheck1
  PROVE  Stops'
<1>1. /\ \A r \in Ranks : pc[r] = "stop_check_1"
      /\ \A r \in Ranks : stopStatus'[r] = MergedStop
      /\ \A r \in Ranks : pc'[r] = IF StopCheckReturns(r, MergedStop) /\ t[r] < TEnd
                                   THEN "top" ELSE "end_fds"
      /\ UNCHANGED <<t, dt, core, pl3d, radDone>>
  BY DEF StopCheck1, AllAt, clocks, rad, files
<1>2. \A r, s \in Ranks : dt[r] = dt[s]
  BY <1>1, InStepImpliesAgreement DEF ClocksAgree
<1>3. PICK q \in Ranks : MergedStop = stopStatus[q]
  BY MergedStopIsCode
<1>4. MergedStop \in {InstabilityStop, UserStop} => \A r \in Ranks : stopStatus[r] = MergedStop
  <2> SUFFICES ASSUME MergedStop \in {InstabilityStop, UserStop}, NEW r \in Ranks
               PROVE  stopStatus[r] = MergedStop
    OBVIOUS
  <2>1. MergedStop >= stopStatus[r]
    BY MergedStopIsCode
  <2>2. ~Failed(r) /\ ~Failed(q)
    BY <1>3, <2>1 DEF Failed, InstabilityStop, UserStop, CtrlStop, RealizabilityStop,
           EvacuationStop
  <2> QED BY <1>1, <1>3, <2>2 DEF Stops, Codes, Merged, AfterLoop
<1>5. \A r \in Ranks : dt[r] < DtStable => MergedStop \notin {NoStop, UserStop}
  BY <1>1, <1>2, <1>3 DEF Stops, Unstable, AfterLoop
<1>6. \A r \in Ranks : pc'[r] = "top" => MergedStop \in {NoStop, UserStop}
  BY <1>1 DEF StopCheckReturns
<1>7. UserStop \notin {InstabilityStop, CtrlStop, RealizabilityStop, EvacuationStop}
      /\ NoStop \notin {InstabilityStop, CtrlStop, RealizabilityStop, EvacuationStop}
  BY DEF UserStop, NoStop, InstabilityStop, CtrlStop, RealizabilityStop, EvacuationStop
<1>8. Codes'
  BY <1>1, <1>6, <1>7 DEF Codes, Failed, Ended, AfterLoop, Merged
<1>9. Unstable'
  BY <1>1, <1>5, <1>6, <1>7 DEF Unstable, Ended, AfterLoop
<1>10. Left'
  <2> SUFFICES ASSUME NEW r \in Ranks, pc'[r] = "end_fds"
               PROVE  /\ MergedStop = InstabilityStop => pl3d[r] = t[r]
                      /\ StopAtIter = 0 /\ MergedStop = UserStop => core[r] = t[r]
    BY <1>1 DEF Left, Ended, Dumped
  <2>1. MergedStop = InstabilityStop => pl3d[r] = t[r]
    BY <1>1, <1>4 DEF Stops, Left, Dumped
  <2>2. StopAtIter = 0 /\ MergedStop = UserStop => t[r] >= TEnd \/ radDone[r]
    <3>1. t[r] \in Nat
      BY DEF TypeOK
    <3> QED BY <1>1, <3>1, NumbersAssumption DEF StopCheckReturns
  <2>3. StopAtIter = 0 /\ MergedStop = UserStop => core[r] = t[r]
    BY <1>1, <1>4, <2>2 DEF Stops, Left, Dumped
  <2> QED BY <2>1, <2>3
<1> QED BY <1>8, <1>9, <1>10 DEF Stops

LEMMA StopsNext ==
  ASSUME EvacRanks = {}, TypeOK, InStep, Stops, [Next]_vars
  PROVE  Stops'
<1> USE DEF Ended, AfterLoop, Dumped, AllAt
<1>1. CASE UNCHANGED <<pc, dt, t, stopStatus, core, pl3d, radDone>>
  BY <1>1, QuietKeepsStops
<1>2. CASE CreateStopFile \/ UNCHANGED vars
  BY <1>1, <1>2 DEF CreateStopFile, vars, control, clocks, rad, files
<1>3. CASE MeshExchange1
  BY <1>3, QuietKeepsStops DEF MeshExchange1, clocks, rad, files
<1>4. CASE MeshExchange6
  BY <1>4, QuietKeepsStops DEF MeshExchange6, clocks, rad, files
<1>5. CASE MeshExchange2
  BY <1>5, QuietKeepsStops DEF MeshExchange2, clocks, rad, files
<1>6. CASE GlobalOutputs
  BY <1>6, QuietKeepsStops DEF GlobalOutputs, clocks, rad, files
<1>7. CASE Diagnostics
  BY <1>7, QuietKeepsStops DEF Diagnostics, clocks, rad, files
<1>8. CASE EndFds
  BY <1>8, QuietKeepsStops DEF EndFds, clocks, rad, files
<1> QED
  BY <1>2, <1>3, <1>4, <1>5, <1>6, <1>7, <1>8, TopKeepsStops, PredictKeepsStops,
     CorrectKeepsStops, OutputsKeepsStops, StopCheck0KeepsStops, ChangeTimeStepKeepsStops,
     MeshExchange3KeepsStops, StopCheck1KeepsStops DEF Next, Local, Joint, Finished

LEMMA StopsHold ==
  ASSUME EvacRanks = {}
  PROVE  Spec => [](TypeOK /\ InStep /\ Stops)
<1>1. Init => TypeOK /\ InStep /\ Stops
  BY TypeInit, InStepInit, StopsInit
<1>2. TypeOK /\ InStep /\ Stops /\ [Next]_vars => (TypeOK /\ InStep /\ Stops)'
  BY TypeNext, InStepNext, StopsNext
<1> QED BY <1>1, <1>2, PTL DEF Spec

(* A time step that is too short ends the run, and not as if it had          *)
(* completed, for any number of processes.                                   *)
THEOREM InstabilityAlwaysFatal ==
  ASSUME EvacRanks = {}
  PROVE  Spec => []InstabilityIsFatal
<1>1. Stops => InstabilityIsFatal
  BY DEF Stops, Unstable, InstabilityIsFatal, Ended
<1> QED BY <1>1, StopsHold, PTL

(* A run that INSTABILITY_STOP ends has left Plot3D files of its last time   *)
(* on all meshes.                                                            *)
THEOREM InstabilityAlwaysDumped ==
  ASSUME EvacRanks = {}
  PROVE  Spec => []InstabilityIsDumped
<1>1. Stops => InstabilityIsDumped
  BY DEF Stops, Left, InstabilityIsDumped, Ended, FireRanks
<1> QED BY <1>1, StopsHold, PTL

(* A run that an empty stop file ends has left restart files of its last     *)
(* time on all meshes: it waits for the end of the sweep of the angles,      *)
(* without which there are none.                                             *)
THEOREM UserStopAlwaysLeavesRestart ==
  ASSUME EvacRanks = {}, StopAtIter = 0
  PROVE  Spec => []UserStopLeavesRestart
<1>1. Stops => UserStopLeavesRestart
  BY DEF Stops, Left, UserStopLeavesRestart, Ended, FireRanks
<1> QED BY <1>1, StopsHold, PTL
-----------------------------------------------------------------------------
(* The restart files                                                         *)
(*                                                                           *)
(* NextCore and NextClock are what a process has after DUMP_MESH_OUTPUTS of  *)
(* this cycle.                                                               *)
DumpsNow(r) == pc[r] = "outputs" /\ DumpsCore(r, stopStatus[r], coreClock[r])
NextCore(r) == IF DumpsNow(r) THEN t[r] ELSE core[r]
NextClock(r) == IF DumpsNow(r) THEN coreClock[r] + DtRestart ELSE coreClock[r]

(* Processes that have not failed have the same files; those that have end   *)
(* the run.                                                                  *)
SameFiles ==
  \A r, s \in Ranks :
    ~Failed(r) /\ ~Failed(s) => NextCore(r) = NextCore(s) /\ NextClock(r) = NextClock(s)

LEMMA SameFilesInit == Init => SameFiles
  BY DEF Init, SameFiles, NextCore, NextClock, DumpsNow

(* A step that neither comes to DUMP_MESH_OUTPUTS nor leaves it, and unmakes *)
(* no failure.                                                               *)
LEMMA QuietKeepsFiles ==
  ASSUME SameFiles, UNCHANGED <<core, coreClock, t>>,
         \A r \in Ranks :
           /\ pc'[r] = "outputs" <=> pc[r] = "outputs"
           /\ Failed(r) => Failed(r)'
           /\ pc[r] = "outputs" => stopStatus'[r] = stopStatus[r] /\ radDone'[r] = radDone[r]
  PROVE  SameFiles'
<1>1. \A r \in Ranks : NextCore(r)' = NextCore(r) /\ NextClock(r)' = NextClock(r)
  BY DEF NextCore, NextClock, DumpsNow, DumpsCore
<1> QED BY <1>1 DEF SameFiles

(* When all come to DUMP_MESH_OUTPUTS they dump alike.                       *)
LEMMA ComingKeepsFiles ==
  ASSUME EvacRanks = {}, InStep, SameCalls, Stops, SameFiles,
         NEW from \in {"mesh_exchange_6", "mesh_exchange_2"}, AllAt(from),
         \A r, s \in Ranks : pc'[r] = pc'[s],
         UNCHANGED <<core, coreClock, t, stopStatus, radDone>>
  PROVE  SameFiles'
<1> SUFFICES ASSUME NEW r \in Ranks, NEW s \in Ranks, ~Failed(r), ~Failed(s)
             PROVE  NextCore(r)' = NextCore(s)' /\ NextClock(r)' = NextClock(s)'
  BY DEF SameFiles, Failed
<1>1. core[r] = core[s] /\ coreClock[r] = coreClock[s]
  BY DEF SameFiles, NextCore, NextClock, DumpsNow, AllAt
<1>2. stopStatus[r] = stopStatus[s]
  BY DEF Stops, Codes, Merged, AfterLoop, AllAt
<1>3. radDone[r] = radDone[s] /\ t[r] = t[s]
  BY DEF SameCalls, SameRadiation, NextDone, AllAt, InStep, SameTime
<1> QED BY <1>1, <1>2, <1>3 DEF NextCore, NextClock, DumpsNow, DumpsCore

LEMMA OutputsKeepsFiles ==
  ASSUME EvacRanks = {}, ~RestartControl, TypeOK, SameFiles, NEW p \in Ranks, Outputs(p)
  PROVE  SameFiles'
<1> PICK kills \in BOOLEAN :
      /\ stopStatus' = [stopStatus EXCEPT ![p] = StatusAtDump(p, kills)]
      /\ DumpMeshOutputs(p, StatusAtDump(p, kills), CoreClockAtDump(p, FALSE))
  BY DEF Outputs, EvacuationSkip
<1>1. /\ pc[p] = "outputs" /\ pc'[p] = "global_outputs"
      /\ \A r \in Ranks \ {p} : pc'[r] = pc[r] /\ stopStatus'[r] = stopStatus[r]
      /\ stopStatus'[p] = StatusAtDump(p, kills)
      /\ UNCHANGED <<t, radDone>>
  BY DEF Outputs, Goto, TypeOK, clocks, rad
<1>2. DumpMeshOutputs(p, stopStatus'[p], coreClock[p])
  BY <1>1 DEF CoreClockAtDump
<1>3. /\ \A r \in Ranks \ {p} : core'[r] = core[r] /\ coreClock'[r] = coreClock[r]
      /\ core'[p] = (IF DumpsCore(p, stopStatus'[p], coreClock[p]) THEN t[p] ELSE core[p])
      /\ coreClock'[p] = (IF DumpsCore(p, stopStatus'[p], coreClock[p])
                          THEN coreClock[p] + DtRestart ELSE coreClock[p])
  BY <1>2 DEF DumpMeshOutputs, TypeOK
<1>4. \A r \in Ranks : ~Failed(r)' => ~Failed(r) /\ stopStatus'[r] = stopStatus[r]
  BY <1>1 DEF Failed, StatusAtDump
<1>5. \A r \in Ranks : ~Failed(r)' => NextCore(r)' = NextCore(r) /\ NextClock(r)' = NextClock(r)
  <2> TAKE r \in Ranks
  <2> HAVE ~Failed(r)'
  <2>1. CASE r = p
    BY <1>1, <1>3, <1>4, <2>1 DEF NextCore, NextClock, DumpsNow
  <2>2. CASE r # p
    BY <1>1, <1>3, <2>2 DEF NextCore, NextClock, DumpsNow, DumpsCore
  <2> QED BY <2>1, <2>2
<1> QED BY <1>4, <1>5 DEF SameFiles

(* STOP_CHECK forgets no failure: the failed ones' code becomes that of all. *)
LEMMA StopChecksKeepFiles ==
  ASSUME TypeOK, SameFiles, StopCheck0 \/ StopCheck1
  PROVE  SameFiles'
<1>1. /\ \A r \in Ranks : pc[r] # "outputs" /\ pc'[r] # "outputs"
      /\ \A r \in Ranks : stopStatus'[r] = MergedStop
      /\ UNCHANGED <<core, coreClock>>
  BY DEF StopCheck0, StopCheck1, AllAt, files
<1>2. ASSUME NEW r \in Ranks, Failed(r) PROVE Failed(r)'
  <2>1. MergedStop >= stopStatus[r] /\ MergedStop \in StopCodes
    BY MergedStopIsCode
  <2> QED BY <1>1, <1>2, <2>1 DEF Failed, StopCodes, NoStop, InstabilityStop, UserStop, CtrlStop,
          RealizabilityStop, EvacuationStop
<1> QED BY <1>1, <1>2 DEF SameFiles, NextCore, NextClock, DumpsNow

LEMMA SameFilesNext ==
  ASSUME EvacRanks = {}, SameAnswers, ~RestartControl,
         TypeOK, InStep, SameCalls, Stops, SameFiles, [Next]_vars
  PROVE  SameFiles'
<1> USE DEF AllAt
<1>1. CASE UNCHANGED <<pc, t, stopStatus, core, coreClock, radDone>>
  BY <1>1, QuietKeepsFiles DEF Failed
<1>2. CASE CreateStopFile \/ UNCHANGED vars
  BY <1>1, <1>2 DEF CreateStopFile, vars, control, clocks, rad, files
<1>3. ASSUME NEW p \in Ranks, Top(p) PROVE SameFiles'
  <2>1. /\ \A r \in Ranks : pc'[r] = "outputs" <=> pc[r] = "outputs"
        /\ \A r \in Ranks \ {p} : stopStatus'[r] = stopStatus[r]
        /\ UNCHANGED <<core, coreClock, t, radDone>> /\ pc[p] = "top"
    BY <1>3 DEF Top, Goto, TypeOK, rad, files
  <2>2. ~Failed(p)
    BY <2>1 DEF Stops, Codes, AfterLoop, Ended
  <2> QED BY <2>1, <2>2, QuietKeepsFiles DEF Failed
<1>4. ASSUME NEW p \in Ranks, Predict(p) PROVE SameFiles'
  <2>1. /\ \A r \in Ranks : pc'[r] = "outputs" <=> pc[r] = "outputs"
        /\ \A r \in Ranks \ {p} : stopStatus'[r] = stopStatus[r]
        /\ UNCHANGED <<core, coreClock, t, radDone>> /\ pc[p] = "predict"
    BY <1>4 DEF Predict, Goto, TypeOK, rad, files
  <2>2. ~Failed(p)
    BY <2>1 DEF Stops, Codes, AfterLoop, Ended
  <2> QED BY <2>1, <2>2, QuietKeepsFiles DEF Failed
<1>5. ASSUME NEW p \in Ranks, Correct(p) PROVE SameFiles'
  <2>1. /\ \A r \in Ranks : pc'[r] = "outputs" <=> pc[r] = "outputs"
        /\ \A r \in Ranks \ {p} : stopStatus'[r] = stopStatus[r] /\ radDone'[r] = radDone[r]
        /\ stopStatus'[p] \in {stopStatus[p], RealizabilityStop}
        /\ UNCHANGED <<core, coreClock, t>> /\ pc[p] = "correct"
    BY <1>5 DEF Correct, ComputeRadiation, Goto, TypeOK, clocks, rad, files
  <2> QED BY <2>1, QuietKeepsFiles DEF Failed
<1>6. CASE MeshExchange1 \/ ChangeTimeStep \/ GlobalOutputs \/ Diagnostics \/ EndFds
  <2>1. /\ \A r \in Ranks : pc'[r] # "outputs" /\ pc[r] # "outputs"
        /\ UNCHANGED <<core, coreClock, t, stopStatus>>
    BY <1>6 DEF MeshExchange1, ChangeTimeStep, GlobalOutputs, Diagnostics, EndFds, clocks, files
  <2> QED BY <2>1, QuietKeepsFiles DEF Failed
<1>7. CASE MeshExchange3
  BY <1>7 DEF MeshExchange3, SameFiles, NextCore, NextClock, DumpsNow, Failed, files
<1>8. CASE MeshExchange6
  <2>1. \A r, s \in Ranks : radExchange[r] = radExchange[s]
    BY <1>8 DEF MeshExchange6, SameCalls, SameRadiation, NextExchange
  <2>2. \A r, s \in Ranks : pc'[r] = pc'[s]
    BY <1>8, <2>1 DEF MeshExchange6, JoinsRadiationExchange
  <2> QED BY <1>8, <2>2, ComingKeepsFiles DEF MeshExchange6, clocks, rad, files
<1>9. CASE MeshExchange2
  <2>1. \A r, s \in Ranks : pc'[r] = pc'[s]
    BY <1>9 DEF MeshExchange2
  <2> QED BY <1>9, <2>1, ComingKeepsFiles DEF MeshExchange2, clocks, rad, files
<1> QED
  BY <1>2, <1>3, <1>4, <1>5, <1>6, <1>7, <1>8, <1>9, OutputsKeepsFiles, StopChecksKeepFiles
     DEF Next, Local, Joint, Finished

(* The restart files of all meshes are of one time, when no process decides  *)
(* for itself to write one (RESTART controls) or that the user has stopped   *)
(* the run.                                                                  *)
THEOREM RestartFilesAlwaysMatch ==
  ASSUME EvacRanks = {}, ~StopFileAnyTime, ~RestartControl
  PROVE  Spec => []RestartFilesMatch
<1>1. SameAnswers
  BY DEF SameAnswers
<1>2. Init => TypeOK /\ InStep /\ SameCalls /\ Stops /\ SameFiles
  BY TypeInit, InStepInit, SameCallsInit, StopsInit, SameFilesInit
<1>3. TypeOK /\ InStep /\ SameCalls /\ Stops /\ SameFiles /\ [Next]_vars
        => (TypeOK /\ InStep /\ SameCalls /\ Stops /\ SameFiles)'
  BY <1>1, TypeNext, InStepNext, SameCallsNext, StopsNext, SameFilesNext
<1>4. Stops /\ SameFiles => RestartFilesMatch
  <2> SUFFICES ASSUME Stops, SameFiles, NEW r \in Ranks, NEW s \in Ranks,
                      \/ AllAt("top")
                      \/ \A q \in Ranks : pc[q] = "finished" /\ stopStatus[q] = UserStop
               PROVE  core[r] = core[s]
    BY DEF RestartFilesMatch, FireRanks
  <2>1. ~Failed(r) /\ ~Failed(s)
    BY DEF Stops, Codes, AllAt, AfterLoop, Ended, Failed, UserStop, CtrlStop,
           RealizabilityStop, EvacuationStop
  <2> QED BY <2>1 DEF SameFiles, NextCore, DumpsNow, AllAt
<1> QED BY <1>2, <1>3, <1>4, PTL DEF Spec

-----------------------------------------------------------------------------
(* How long a stop is waited for                                             *)
(*                                                                           *)
(* The calls of COMPUTE_RADIATION until the one that completes the sweep,    *)
(* when the counters are a and c before the first of them.                   *)
SweepCalls(a, c) ==
  ((IF a = AngleIncrement THEN AngleIncrement ELSE AngleIncrement - a) - 1)
      * TimeStepIncrement
    + (IF c = 0 THEN 1 ELSE (TimeStepIncrement - c) + 1)

FullSweep == TimeStepIncrement * AngleIncrement

Elapsed(r) == icyc[r] - userSince[r]
CallsLeft(r) == SweepCalls(angle[r], radCall[r])

ToRadiate == {"mesh_exchange_1", "predict", "stop_check_0", "change_time_step",
              "mesh_exchange_3", "correct"}
Radiated  == {"mesh_exchange_6", "mesh_exchange_2", "outputs", "global_outputs",
              "diagnostics", "stop_check_1"}

(* The cycles since the stop and those until the end of the sweep are no     *)
(* more than a full sweep together.                                          *)
InTime(r) ==
  /\ stopStatus[r] # NoStop
  /\ Elapsed(r) < FullSweep
  /\ pc[r] = "top" => ~radDone[r]
  /\ pc[r] \in ToRadiate => Elapsed(r) + CallsLeft(r) <= FullSweep
  /\ pc[r] = "top" \/ (pc[r] \in Radiated /\ ~radDone[r]) =>
       Elapsed(r) + 1 + CallsLeft(r) <= FullSweep

Waiting ==
  /\ \A r \in EvacRanks : radDone[r]
  /\ \A r \in Ranks : userSince[r] > 0 => InTime(r)

(* A number up to the divisor is its own remainder, or has none.             *)
LEMMA ModSmall ==
  ASSUME NEW n \in Nat \ {0}, NEW k \in 0..n
  PROVE  k % n = IF k = n THEN 0 ELSE k
<1>1. \A q \in Int, m \in 0..(n - 1) : n * q + m = k => m = IF k = n THEN 0 ELSE k
  <2> SUFFICES ASSUME NEW q \in Int, NEW m \in 0..(n - 1), n * q + m = k
               PROVE  m = IF k = n THEN 0 ELSE k
    OBVIOUS
  <2>1. CASE q < 0
    <3>1. n * q <= n * (-1)
      BY <2>1
    <3> QED BY <3>1
  <2>2. CASE q = 0
    BY <2>2
  <2>3. CASE q = 1
    BY <2>3
  <2>4. CASE q > 1
    <3>1. n * q >= n * 2
      BY <2>4
    <3> QED BY <3>1
  <2> QED BY <2>1, <2>2, <2>3, <2>4
<1>2. k % n \in 0..(n - 1) /\ k \div n \in Int /\ k = n * (k \div n) + (k % n)
  OBVIOUS
<1> QED BY <1>1, <1>2

(* There are no more calls to wait for than a full sweep has.                *)
LEMMA SweepCallsBound ==
  ASSUME NEW a \in 1..AngleIncrement, NEW c \in 0..(TimeStepIncrement - 1)
  PROVE  SweepCalls(a, c) \in 1..FullSweep
<1> DEFINE T == TimeStepIncrement
           u == IF a = AngleIncrement THEN AngleIncrement ELSE AngleIncrement - a
           w == IF c = 0 THEN 1 ELSE (T - c) + 1
<1>1. T \in Nat \ {0} /\ AngleIncrement \in Nat \ {0}
  BY NumbersAssumption
<1>2. u \in 1..AngleIncrement /\ w \in 1..T
  BY <1>1
<1>3. SweepCalls(a, c) = (u - 1) * T + w /\ FullSweep = T * AngleIncrement
  BY DEF SweepCalls, FullSweep
<1> HIDE DEF T, u, w
<1>4. (u - 1) * T \in Nat /\ (u - 1) * T = u * T - T /\ u * T \in Int
  BY <1>1, <1>2
<1>5. u * T <= AngleIncrement * T /\ AngleIncrement * T = T * AngleIncrement
      /\ T * AngleIncrement \in Int
  BY <1>1, <1>2
<1> QED BY <1>1, <1>2, <1>3, <1>4, <1>5

(* A call that does not complete the sweep is one call less to wait for.     *)
LEMMA SweepCallsStep ==
  ASSUME NEW a \in 1..AngleIncrement, NEW c \in 0..(TimeStepIncrement - 1),
         NEW b, b = IF c = 0 THEN (a % AngleIncrement) + 1 ELSE a,
         c = 0 => b # AngleIncrement
  PROVE  SweepCalls(b, (c + 1) % TimeStepIncrement) = SweepCalls(a, c) - 1
<1> DEFINE T == TimeStepIncrement
           A == AngleIncrement
<1>1. T \in Nat \ {0} /\ A \in Nat \ {0}
  BY NumbersAssumption
<1>2. PICK d \in 0..T : d = (c + 1) % T /\ d = IF c + 1 = T THEN 0 ELSE c + 1
  <2>1. c + 1 \in 0..T
    BY <1>1
  <2> QED BY <1>1, <2>1, ModSmall
<1>3. SweepCalls(b, d) = ((IF b = A THEN A ELSE A - b) - 1) * T + (IF d = 0 THEN 1 ELSE (T - d) + 1)
  BY DEF SweepCalls
<1>4. SweepCalls(a, c) = ((IF a = A THEN A ELSE A - a) - 1) * T + (IF c = 0 THEN 1 ELSE (T - c) + 1)
  BY DEF SweepCalls
<1>5. CASE c # 0
  <2>1. b = a
    BY <1>5
  <2>2. (IF d = 0 THEN 1 ELSE (T - d) + 1) = (IF c = 0 THEN 1 ELSE (T - c) + 1) - 1
    BY <1>1, <1>2, <1>5
  <2>3. PICK x \in Int : x = ((IF a = A THEN A ELSE A - a) - 1) * T
    BY <1>1
  <2> HIDE DEF T, A
  <2>4. SweepCalls(b, d) = x + (IF d = 0 THEN 1 ELSE (T - d) + 1)
    BY <1>3, <2>1, <2>3
  <2>5. SweepCalls(a, c) = x + (IF c = 0 THEN 1 ELSE (T - c) + 1)
    BY <1>4, <2>3
  <2>6. (IF c = 0 THEN 1 ELSE (T - c) + 1) \in Int
    BY <1>1
  <2>7. SweepCalls(b, d) = SweepCalls(a, c) - 1
    BY <2>2, <2>4, <2>5, <2>6
  <2> QED BY <1>2, <2>7 DEF T
<1>6. CASE c = 0
  <2>1. b = (IF a = A THEN 0 ELSE a) + 1 /\ b # A
    <3>1. a \in 0..A /\ A = AngleIncrement
      BY <1>1
    <3> QED BY <1>1, <1>6, <3>1, ModSmall
  <2>2. PICK u \in Int : u = (IF a = A THEN A ELSE A - a)
    <3>1. (IF a = A THEN A ELSE A - a) \in Int
      BY <1>1
    <3> QED BY <3>1
  <2>3. (IF b = A THEN A ELSE A - b) = u - 1
    BY <1>1, <2>1, <2>2
  <2>4. (IF d = 0 THEN 1 ELSE (T - d) + 1) = T
    BY <1>1, <1>2, <1>6
  <2> HIDE DEF T, A
  <2>5. SweepCalls(b, d) = ((u - 1) - 1) * T + T
    BY <1>3, <2>3, <2>4
  <2>6. SweepCalls(a, c) = (u - 1) * T + 1
    BY <1>4, <1>6, <2>2
  <2>7. ((u - 1) - 1) * T = (u - 1) * T - T /\ (u - 1) * T \in Int
    BY <1>1
  <2>8. SweepCalls(b, d) = SweepCalls(a, c) - 1
    BY <1>1, <2>5, <2>6, <2>7
  <2> QED BY <1>2, <2>8 DEF T
<1> QED BY <1>5, <1>6

(* The same for a process.                                                   *)
LEMMA CallsLeftBound ==
  ASSUME TypeOK, NEW r \in Ranks
  PROVE  CallsLeft(r) \in 1..FullSweep /\ FullSweep \in Nat \ {0}
<1>1. angle[r] \in 1..AngleIncrement /\ radCall[r] \in 0..(TimeStepIncrement - 1)
  BY DEF TypeOK
<1>2. FullSweep \in Nat \ {0}
  BY NumbersAssumption DEF FullSweep
<1> QED BY <1>1, <1>2, SweepCallsBound DEF CallsLeft

(* Nobody waits at the start.                                                *)
LEMMA WaitingInit == Init => Waiting
<1> SUFFICES ASSUME Init PROVE Waiting
  OBVIOUS
<1>1. /\ radDone = [r \in Ranks |-> TRUE]
      /\ userSince = [r \in Ranks |-> 0]
  BY DEF Init
<1> QED BY <1>1, RanksAssumption DEF Waiting

(* A step that leaves the counters alone and goes on within the cycle.       *)
LEMMA InTimeQuiet ==
  ASSUME NEW r \in Ranks, InTime(r), stopStatus'[r] # NoStop,
         UNCHANGED <<icyc, userSince, angle, radCall, radDone>>,
         \/ pc'[r] = pc[r]
         \/ pc[r] \in ToRadiate /\ pc'[r] \in ToRadiate
         \/ pc[r] \in Radiated /\ pc'[r] \in Radiated \cup {"end_fds"}
         \/ pc[r] \in Radiated /\ pc'[r] = "top" /\ ~radDone[r]
         \/ pc'[r] = "finished"
  PROVE  InTime(r)'
<1>1. /\ Elapsed(r)' = Elapsed(r) /\ CallsLeft(r)' = CallsLeft(r)
      /\ radDone'[r] = radDone[r]
  BY DEF Elapsed, CallsLeft
<1>2. FullSweep' = FullSweep
  BY DEF FullSweep
<1>3. ToRadiate \cap (Radiated \cup {"top", "end_fds", "finished"}) = {}
      /\ "top" \notin Radiated /\ "end_fds" \notin Radiated \cup {"top"}
      /\ "finished" \notin Radiated \cup {"top"}
  BY DEF ToRadiate, Radiated
<1> QED BY <1>1, <1>2, <1>3 DEF InTime

(* The joint calls and the steps of other processes.                         *)
LEMMA WaitingQuiet ==
  ASSUME Waiting,
         UNCHANGED <<icyc, userSince, angle, radCall, radDone>>,
         \A r \in Ranks :
           /\ userSince[r] > 0 => stopStatus'[r] # NoStop
           /\ userSince[r] > 0 =>
                \/ pc'[r] = pc[r]
                \/ pc[r] \in ToRadiate /\ pc'[r] \in ToRadiate
                \/ pc[r] \in Radiated /\ pc'[r] \in Radiated \cup {"end_fds"}
                \/ pc[r] \in Radiated /\ pc'[r] = "top" /\ ~radDone[r]
                \/ pc'[r] = "finished"
  PROVE  Waiting'
<1>1. ASSUME NEW r \in Ranks, userSince'[r] > 0
      PROVE  InTime(r)'
  <2>1. userSince[r] > 0
    BY <1>1
  <2> QED BY <2>1, InTimeQuiet DEF Waiting
<1> QED BY <1>1 DEF Waiting

(* The first cycle after the stop, or one more of them.                      *)
LEMMA TopKeepsWaiting ==
  ASSUME TypeOK, Waiting, NEW q \in Ranks, Top(q)
  PROVE  Waiting'
<1>1. /\ pc[q] = "top" /\ pc' = [pc EXCEPT ![q] = "mesh_exchange_1"]
      /\ icyc' = [icyc EXCEPT ![q] = @ + 1]
      /\ userSince' = [userSince EXCEPT ![q] =
           IF @ = 0 /\ SeesStop(q) THEN icyc[q] + 1 ELSE @]
      /\ UNCHANGED rad
  BY DEF Top, Goto
<1>2. PICK code : /\ stopStatus' = [stopStatus EXCEPT ![q] = code]
                  /\ code = (IF SeesStop(q) THEN UserStop ELSE stopStatus[q])
                       \/ (code = EvacuationStop /\ ~SeesStop(q))
  BY DEF Top
<1>3. ASSUME NEW r \in Ranks, userSince'[r] > 0
      PROVE  InTime(r)'
  <2>1. CASE r # q
    <3>1. /\ pc'[r] = pc[r] /\ icyc'[r] = icyc[r] /\ userSince'[r] = userSince[r]
          /\ stopStatus'[r] = stopStatus[r]
          /\ angle'[r] = angle[r] /\ radCall'[r] = radCall[r] /\ radDone'[r] = radDone[r]
      BY <1>1, <1>2, <2>1 DEF TypeOK, rad
    <3>2. InTime(r)
      BY <1>3, <3>1 DEF Waiting
    <3> QED BY <3>1, <3>2 DEF InTime, Elapsed, CallsLeft, FullSweep
  <2>2. CASE r = q
    <3>1. /\ pc'[r] = "mesh_exchange_1" /\ icyc'[r] = icyc[r] + 1
          /\ userSince'[r] = IF userSince[r] = 0 /\ SeesStop(r) THEN icyc[r] + 1 ELSE userSince[r]
          /\ stopStatus'[r] = code
          /\ CallsLeft(r)' = CallsLeft(r) /\ FullSweep' = FullSweep
      BY <1>1, <1>2, <2>2 DEF TypeOK, rad, CallsLeft, FullSweep
    <3>2. /\ icyc[r] \in Nat /\ userSince[r] \in Nat
          /\ CallsLeft(r) \in 1..FullSweep /\ FullSweep \in Nat \ {0}
      BY CallsLeftBound DEF TypeOK
    <3>3. stopStatus'[r] # NoStop /\ Elapsed(r)' + CallsLeft(r) <= FullSweep
          /\ Elapsed(r)' \in Int
      <4>1. CASE userSince[r] = 0
        <5>1. SeesStop(r) /\ userSince'[r] = icyc[r] + 1
          BY <1>3, <3>1, <4>1
        <5>2. Elapsed(r)' = 0
          BY <3>1, <3>2, <5>1 DEF Elapsed
        <5> QED BY <1>2, <2>2, <3>1, <3>2, <5>1, <5>2
                DEF NoStop, UserStop, EvacuationStop
      <4>2. CASE userSince[r] # 0
        <5>1. InTime(r) /\ userSince'[r] = userSince[r]
          BY <3>1, <3>2, <4>2 DEF Waiting
        <5>2. Elapsed(r)' = Elapsed(r) + 1 /\ Elapsed(r) \in Int
          BY <3>1, <3>2, <5>1 DEF Elapsed
        <5>3. Elapsed(r) + 1 + CallsLeft(r) <= FullSweep /\ stopStatus[r] # NoStop
          BY <1>1, <2>2, <5>1 DEF InTime
        <5>4. stopStatus'[r] # NoStop
          BY <1>2, <2>2, <3>1, <5>3 DEF NoStop, UserStop, EvacuationStop
        <5> QED BY <3>2, <5>2, <5>3, <5>4
      <4> QED BY <4>1, <4>2
    <3>4. Elapsed(r)' < FullSweep
      BY <3>2, <3>3
    <3> QED BY <3>1, <3>3, <3>4 DEF InTime, ToRadiate, Radiated
  <2> QED BY <2>1, <2>2
<1> QED BY <1>1, <1>3 DEF Waiting, rad

(* A call of COMPUTE_RADIATION completes the sweep or leaves one call less.  *)
LEMMA CorrectKeepsWaiting ==
  ASSUME TypeOK, Waiting, NEW q \in Ranks, Correct(q)
  PROVE  Waiting'
<1>1. /\ pc[q] = "correct" /\ pc' = [pc EXCEPT ![q] = "mesh_exchange_6"]
      /\ ComputeRadiation(q)
      /\ UNCHANGED <<icyc, userSince>>
  BY DEF Correct, Goto, clocks
<1>2. PICK code : /\ stopStatus' = [stopStatus EXCEPT ![q] = code]
                  /\ code = stopStatus[q] \/ code = RealizabilityStop
  BY DEF Correct
<1>3. ASSUME NEW r \in Ranks, r # q
      PROVE  /\ angle'[r] = angle[r] /\ radCall'[r] = radCall[r]
             /\ radDone'[r] = radDone[r]
  BY <1>1, <1>3 DEF ComputeRadiation, TypeOK, rad
<1>4. ASSUME NEW r \in Ranks, userSince'[r] > 0
      PROVE  InTime(r)'
  <2>0. InTime(r)
    BY <1>1, <1>4 DEF Waiting
  <2>1. CASE r # q
    <3>1. /\ pc'[r] = pc[r] /\ icyc'[r] = icyc[r] /\ userSince'[r] = userSince[r]
          /\ stopStatus'[r] = stopStatus[r]
          /\ angle'[r] = angle[r] /\ radCall'[r] = radCall[r] /\ radDone'[r] = radDone[r]
      BY <1>1, <1>2, <1>3, <2>1 DEF TypeOK
    <3> QED BY <2>0, <3>1 DEF InTime, Elapsed, CallsLeft, FullSweep
  <2>2. CASE r = q
    <3>1. /\ pc'[r] = "mesh_exchange_6" /\ stopStatus'[r] # NoStop
          /\ Elapsed(r)' = Elapsed(r) /\ FullSweep' = FullSweep
          /\ Elapsed(r) + CallsLeft(r) <= FullSweep /\ Elapsed(r) < FullSweep
      BY <1>1, <1>2, <2>0, <2>2 DEF TypeOK, InTime, Elapsed, FullSweep, ToRadiate, NoStop,
         RealizabilityStop
    <3>2. radDone'[r] \/ (Elapsed(r) + 1 + CallsLeft(r)' <= FullSweep)
      <4>1. CASE r \in EvacRanks
        BY <1>1, <2>2, <4>1 DEF ComputeRadiation, rad, Waiting
      <4>2. CASE r \notin EvacRanks /\ ~radDone'[r]
        <5>1. /\ radCall'[r] = (radCall[r] + 1) % TimeStepIncrement
              /\ angle'[r] = IF UpdatesIntensity(r) THEN NextAngle(r) ELSE angle[r]
              /\ ~SweepCompleted(r)
          BY <1>1, <2>2, <4>2 DEF ComputeRadiation, TypeOK
        <5>2. /\ UpdatesIntensity(r) => radCall[r] = 0 /\ icyc[r] # 1
              /\ radCall[r] = 0 => UpdatesIntensity(r)
              /\ UpdatesIntensity(r) => NextAngle(r) # AngleIncrement
          BY <5>1 DEF SweepCompleted, UpdatesIntensity
        <5>3. angle'[r] = IF radCall[r] = 0 THEN (angle[r] % AngleIncrement) + 1 ELSE angle[r]
          BY <5>1, <5>2 DEF NextAngle
        <5>4. angle[r] \in 1..AngleIncrement /\ radCall[r] \in 0..(TimeStepIncrement - 1)
          BY DEF TypeOK
        <5>5. radCall[r] = 0 => angle'[r] # AngleIncrement
          BY <5>1, <5>2
        <5>6. SweepCalls(angle'[r], (radCall[r] + 1) % TimeStepIncrement) =
                SweepCalls(angle[r], radCall[r]) - 1
          BY <5>3, <5>4, <5>5, SweepCallsStep
        <5>7. CallsLeft(r)' = CallsLeft(r) - 1
          BY <5>1, <5>6 DEF CallsLeft, SweepCalls
        <5>8. CallsLeft(r) \in Int /\ Elapsed(r) \in Int
          BY CallsLeftBound DEF Elapsed, TypeOK
        <5> QED BY <3>1, <5>7, <5>8
      <4> QED BY <4>1, <4>2
    <3> QED BY <3>1, <3>2 DEF InTime, ToRadiate
  <2> QED BY <2>1, <2>2
<1>5. ASSUME NEW r \in EvacRanks
      PROVE  radDone'[r]
  <2>1. CASE r # q
    BY <1>3, <2>1, RanksAssumption DEF Waiting
  <2>2. CASE r = q
    BY <1>1, <2>2 DEF ComputeRadiation, rad, Waiting
  <2> QED BY <2>1, <2>2
<1> QED BY <1>4, <1>5 DEF Waiting

(* Once a process has a stop code, the merged code is none but a stop.       *)
LEMMA MergedIsStop ==
  ASSUME TypeOK, NEW r \in Ranks, stopStatus[r] # NoStop
  PROVE  MergedStop # NoStop
<1>1. MergedStop >= stopStatus[r] /\ MergedStop \in StopCodes
  BY MergedStopIsCode
<1>2. stopStatus[r] \in StopCodes
  BY DEF TypeOK
<1> QED BY <1>1, <1>2 DEF StopCodes, NoStop, InstabilityStop, UserStop, CtrlStop,
           RealizabilityStop, EvacuationStop

(* Every step keeps what is said of those that wait.                         *)
LEMMA WaitingNext == TypeOK /\ Waiting /\ [Next]_vars => Waiting'
<1> SUFFICES ASSUME TypeOK, Waiting, [Next]_vars PROVE Waiting'
  OBVIOUS
<1> DEFINE Quiet == UNCHANGED <<icyc, userSince, angle, radCall, radDone>>
<1>0. \A r \in Ranks : userSince[r] > 0 => stopStatus[r] # NoStop
  BY DEF Waiting, InTime
<1>1. CASE CreateStopFile \/ Finished \/ UNCHANGED vars
  <2>1. Quiet /\ UNCHANGED <<pc, stopStatus>>
    BY <1>1 DEF CreateStopFile, Finished, vars, control, clocks, rad
  <2> QED BY <1>0, <2>1, WaitingQuiet
<1>2. ASSUME NEW q \in Ranks, Predict(q)
      PROVE  Waiting'
  <2>1. Quiet /\ pc[q] = "predict" /\ pc' = [pc EXCEPT ![q] = "stop_check_0"]
        /\ stopStatus' = [stopStatus EXCEPT ![q] =
             IF ~EvacuationSkip(q) /\ dt[q] < DtStable THEN InstabilityStop ELSE @]
    BY <1>2 DEF Predict, Goto, rad
  <2>2. ASSUME NEW r \in Ranks, userSince[r] > 0
        PROVE  /\ stopStatus'[r] # NoStop
               /\ \/ pc'[r] = pc[r]
                  \/ pc[r] \in ToRadiate /\ pc'[r] \in ToRadiate
    BY <1>0, <2>1, <2>2 DEF TypeOK, NoStop, InstabilityStop, ToRadiate
  <2> QED BY <2>1, <2>2, WaitingQuiet
<1>3. ASSUME NEW q \in Ranks, Outputs(q)
      PROVE  Waiting'
  <2>1. Quiet /\ pc[q] = "outputs" /\ pc' = [pc EXCEPT ![q] = "global_outputs"]
    BY <1>3 DEF Outputs, Goto, clocks, rad
  <2>2. PICK code : /\ stopStatus' = [stopStatus EXCEPT ![q] = code]
                    /\ code = stopStatus[q] \/ code = CtrlStop
    <3>1. CASE EvacuationSkip(q)
      <4>1. stopStatus' = stopStatus
        BY <1>3, <3>1 DEF Outputs
      <4>2. stopStatus' = [stopStatus EXCEPT ![q] = stopStatus[q]]
        BY <4>1 DEF TypeOK
      <4> QED BY <4>2
    <3>2. CASE ~EvacuationSkip(q)
      BY <1>3, <3>2 DEF Outputs, StatusAtDump
    <3> QED BY <3>1, <3>2
  <2>3. ASSUME NEW r \in Ranks, userSince[r] > 0
        PROVE  /\ stopStatus'[r] # NoStop
               /\ \/ pc'[r] = pc[r]
                  \/ pc[r] \in Radiated /\ pc'[r] \in Radiated
    BY <1>0, <2>1, <2>2, <2>3 DEF TypeOK, NoStop, CtrlStop, Radiated
  <2> QED BY <2>1, <2>3, WaitingQuiet
<1>4. CASE StopCheck0
  <2>1. Quiet /\ AllAt("stop_check_0") /\ stopStatus' = [r \in Ranks |-> MergedStop]
        /\ \A r \in Ranks : pc'[r] \in {"mesh_exchange_3", "change_time_step"}
    BY <1>4 DEF StopCheck0, clocks, rad
  <2>2. ASSUME NEW r \in Ranks, userSince[r] > 0
        PROVE  stopStatus'[r] # NoStop /\ pc[r] \in ToRadiate /\ pc'[r] \in ToRadiate
    BY <1>0, <2>1, <2>2, MergedIsStop DEF AllAt, ToRadiate
  <2> QED BY <2>1, <2>2, WaitingQuiet
<1>5. CASE MeshExchange1 \/ ChangeTimeStep \/ MeshExchange3
  <2>1. Quiet /\ stopStatus' = stopStatus
        /\ \A r \in Ranks : pc[r] \in ToRadiate /\ pc'[r] \in ToRadiate
    BY <1>5 DEF MeshExchange1, ChangeTimeStep, MeshExchange3, AllAt, ToRadiate, clocks, rad
  <2> QED BY <1>0, <2>1, WaitingQuiet
<1>6. CASE MeshExchange6 \/ MeshExchange2 \/ GlobalOutputs \/ Diagnostics
  <2>1. Quiet /\ stopStatus' = stopStatus
        /\ \A r \in Ranks : pc[r] \in Radiated /\ pc'[r] \in Radiated
    BY <1>6 DEF MeshExchange6, MeshExchange2, GlobalOutputs, Diagnostics, AllAt, Radiated,
                clocks, rad
  <2> QED BY <1>0, <2>1, WaitingQuiet
<1>7. CASE StopCheck1
  <2>1. Quiet /\ AllAt("stop_check_1") /\ stopStatus' = [r \in Ranks |-> MergedStop]
        /\ pc' = [r \in Ranks |-> IF StopCheckReturns(r, MergedStop) /\ t[r] < TEnd
                                  THEN "top" ELSE "end_fds"]
    BY <1>7 DEF StopCheck1, clocks, rad
  <2>2. ASSUME NEW r \in Ranks, userSince[r] > 0
        PROVE  /\ stopStatus'[r] # NoStop
               /\ pc[r] \in Radiated
               /\ pc'[r] \in Radiated \cup {"end_fds"} \/ (pc'[r] = "top" /\ ~radDone[r])
    <3>1. MergedStop # NoStop
      BY <1>0, <2>2, MergedIsStop
    <3> QED BY <2>1, <3>1 DEF AllAt, Radiated, StopCheckReturns
  <2> QED BY <2>1, <2>2, WaitingQuiet
<1>8. CASE EndFds
  <2>1. Quiet /\ stopStatus' = stopStatus /\ \A r \in Ranks : pc'[r] = "finished"
    BY <1>8 DEF EndFds, clocks, rad
  <2> QED BY <1>0, <2>1, WaitingQuiet
<1> QED BY <1>1, <1>2, <1>3, <1>4, <1>5, <1>6, <1>7, <1>8, TopKeepsWaiting, CorrectKeepsWaiting
        DEF Next, Local, Joint

(* A stop file takes effect before a full sweep of the radiation angles has  *)
(* passed, on every process, however the sweep stood when the file appeared  *)
(* and whatever the time steps do in between.                                *)
THEOREM StopAlwaysInTime == Spec => []StopLatency
<1>1. Waiting => StopLatency
  BY DEF Waiting, InTime, Elapsed, FullSweep, StopLatency
<1>2. Init => TypeOK /\ Waiting
  BY TypeInit, WaitingInit
<1>3. TypeOK /\ Waiting /\ [Next]_vars => (TypeOK /\ Waiting)'
  BY TypeNext, WaitingNext
<1> QED BY <1>1, <1>2, <1>3, PTL DEF Spec
=============================================================================
