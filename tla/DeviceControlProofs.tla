------------------------- MODULE DeviceControlProofs -------------------------
(***************************************************************************)
(* Proofs about DeviceControl for any number of meshes, processes, devices,*)
(* controls, obstructions and vents.                                       *)
(*                                                                         *)
(* UPDATE_DEVICES and UPDATE_CONTROLS are recursive functions in the model;*)
(* GlobalOutputsAre and NewControlsAre say what they come to, by induction *)
(* over the meshes, the devices and the ranks of the controls (Recursion). *)
(* DevicesInv then holds of the copies of the devices, and PartsInv,       *)
(* VentsInv and GatesInv of what depends on them.                          *)
(***************************************************************************)
EXTENDS DeviceControl, Recursion, FiniteSetTheorems

(* The copies a process has of the devices, and of the controls.             *)
Copies == [Devices -> [current : BOOLEAN, prior : BOOLEAN,
                       tChange : Times \cup {10 * Never}, mesh : Meshes]]

ControlCopies == [Controls -> [current : BOOLEAN, prior : BOOLEAN,
                               tChange : Times \cup {Never}]]

-----------------------------------------------------------------------------
(* What UPDATE_DEVICES does to a device in mesh m.                           *)
Measured(d, old, new, m) ==
  /\ new.prior = old.current
  /\ Devc[d].latch /\ old.current # Devc[d].initial => new.current = old.current
  /\ new.tChange = IF new.current # old.current THEN now ELSE old.tChange
  /\ new.mesh = m

(* The body of the loop updates at most its own device.                      *)
LEMMA UpdatedIs ==
  ASSUME TypeOK, NEW p \in Processes, NEW copy \in Copies, NEW d \in Devices,
         NEW m \in Meshes, NEW level \in Levels
  PROVE  /\ Updated(p, copy, d, m, level) \in Copies
         /\ \A e \in Devices : e # d => Updated(p, copy, d, m, level)[e] = copy[e]
         /\ IF InMesh(p, copy, d, m)
            THEN Measured(d, copy[d], Updated(p, copy, d, m, level)[d], m)
            ELSE Updated(p, copy, d, m, level)[d] = copy[d]
<1> DEFINE was == copy[d].current
           new == IF On(copy, ctl[p], Devc[d].noUpdate) THEN was ELSE Tripped(d, was, level)
           record == [current |-> new, prior |-> was, mesh |-> m,
                      tChange |-> IF new # was THEN now ELSE copy[d].tChange]
<1>1. /\ was \in BOOLEAN /\ copy[d].tChange \in Times \cup {10 * Never}
      /\ Devc[d].initial \in BOOLEAN /\ Devc[d].latch \in BOOLEAN
  BY DeviceControlAssumption DEF Copies
<1>2. /\ new \in BOOLEAN
      /\ Devc[d].latch /\ was # Devc[d].initial => new = was
  BY <1>1 DEF Tripped
<1>3. now \in Times
  BY DEF TypeOK
<1> HIDE DEF was, new
<1>4. record \in [current : BOOLEAN, prior : BOOLEAN,
                  tChange : Times \cup {10 * Never}, mesh : Meshes]
  BY <1>1, <1>2, <1>3
<1>5. Updated(p, copy, d, m, level) =
        IF InMesh(p, copy, d, m) THEN [copy EXCEPT ![d] = record] ELSE copy
  BY DEF Updated, was, new
<1>6. Measured(d, copy[d], record, m)
  BY <1>2 DEF Measured, was
<1> HIDE DEF record
<1>7. CASE InMesh(p, copy, d, m)
  BY <1>4, <1>5, <1>6, <1>7 DEF Copies
<1>8. CASE ~InMesh(p, copy, d, m)
  BY <1>5, <1>8
<1> QED BY <1>7, <1>8

(* DEVICE_LOOP updates the devices that are in the mesh, and no other.       *)
LEMMA DeviceLoopIs ==
  ASSUME TypeOK, NEW p \in Processes, NEW copy \in Copies, NEW m \in Meshes,
         NEW level \in [Devices -> Levels]
  PROVE  /\ DeviceLoop(p, copy, m, level) \in Copies
         /\ \A d \in Devices :
              IF InMesh(p, copy, d, m)
              THEN Measured(d, copy[d], DeviceLoop(p, copy, m, level)[d], m)
              ELSE DeviceLoop(p, copy, m, level)[d] = copy[d]
<1> DEFINE Solution(f) ==
             f = [d \in 0..LastDevc |->
                    IF d = 0 THEN copy ELSE Updated(p, f[d - 1], d, m, level[d])]
           after == CHOOSE f : Solution(f)
<1>1. LastDevc \in Nat
  BY DeviceControlAssumption
<1>2. \E f \in [0..LastDevc -> Copies] : Solution(f)
  <2> DEFINE Step == [d \in 1..LastDevc |->
                        [x \in Copies |-> Updated(p, x, d, m, level[d])]]
  <2>1. Step \in [1..LastDevc -> [Copies -> Copies]]
    BY UpdatedIs DEF Devices
  <2>2. PICK f \in [0..LastDevc -> Copies] :
          f[0] = copy /\ \A d \in 1..LastDevc : f[d] = Step[d][f[d - 1]]
    <3> HIDE DEF Step, Solution
    <3>1. \E f \in [0..LastDevc -> Copies] :
            Iterates(f, LastDevc, copy, Step)
      BY <1>1, <2>1, Iteration
    <3> QED BY <3>1 DEF Iterates
  <2>3. \A d \in 1..LastDevc : Step[d][f[d - 1]] = Updated(p, f[d - 1], d, m, level[d])
    BY <1>1
  <2>4. \A d \in 0..LastDevc :
          f[d] = IF d = 0 THEN copy ELSE Updated(p, f[d - 1], d, m, level[d])
    <3> HIDE DEF Step
    <3> QED BY <1>1, <2>2, <2>3
  <2>5. Solution(f)
    <3> HIDE DEF Step
    <3> QED BY <2>2, <2>4
  <2> QED BY <2>5
<1>3. Solution(after)
  BY <1>2
<1>4. DeviceLoop(p, copy, m, level) = after[LastDevc]
  BY DEF DeviceLoop
<1> HIDE DEF after
<1>5. /\ after[0] = copy
      /\ \A k \in 1..LastDevc : after[k] = Updated(p, after[k - 1], k, m, level[k])
  BY <1>1, <1>3
<1> HIDE DEF Solution
<1> DEFINE Right(k) ==
             /\ after[k] \in Copies
             /\ \A d \in Devices :
                  IF d <= k /\ InMesh(p, copy, d, m)
                  THEN Measured(d, copy[d], after[k][d], m)
                  ELSE after[k][d] = copy[d]
           S == {k \in 0..LastDevc : Right(k)}
<1>6. 0 \in S
  BY <1>1, <1>5 DEF Devices
<1>7. ASSUME NEW k \in 1..LastDevc, k - 1 \in S
      PROVE  k \in S
  <2> DEFINE old == after[k - 1]
             new == after[k]
  <2>1. /\ k \in Devices /\ level[k] \in Levels /\ k \in 0..LastDevc
        /\ old \in Copies
        /\ new = Updated(p, old, k, m, level[k])
    BY <1>1, <1>5, <1>7 DEF Devices
  <2>2. \A d \in Devices : IF d <= k - 1 /\ InMesh(p, copy, d, m)
                           THEN Measured(d, copy[d], old[d], m) ELSE old[d] = copy[d]
    BY <1>7
  <2>3. old[k] = copy[k]
    BY <2>1, <2>2 DEF Devices
  <2>4. InMesh(p, old, k, m) <=> InMesh(p, copy, k, m)
    BY <2>3 DEF InMesh
  <2> HIDE DEF old, new
  <2>5. new \in Copies
    BY <2>1, UpdatedIs
  <2>6. ASSUME NEW d \in Devices
        PROVE  IF d <= k /\ InMesh(p, copy, d, m)
               THEN Measured(d, copy[d], new[d], m) ELSE new[d] = copy[d]
    <3>1. CASE d = k
      BY <2>1, <2>3, <2>4, <3>1, UpdatedIs DEF Devices
    <3>2. CASE d # k
      <4>1. new[d] = old[d]
        BY <2>1, <3>2, UpdatedIs
      <4>2. d <= k <=> d <= k - 1
        BY <3>2, <1>1 DEF Devices
      <4> QED BY <2>2, <4>1, <4>2
    <3> QED BY <3>1, <3>2
  <2> QED BY <2>1, <2>5, <2>6 DEF new
<1>8. Right(LastDevc)
  <2>1. \A k \in 1..LastDevc : k - 1 \in S => k \in S
    BY <1>7
  <2> HIDE DEF S
  <2>2. 0..LastDevc \subseteq S
    BY <1>1, <1>6, <2>1, UpTo
  <2>3. LastDevc \in S
    BY <1>1, <2>2
  <2> USE DEF S
  <2> QED BY <2>3
<1> QED BY <1>1, <1>4, <1>8 DEF Devices

-----------------------------------------------------------------------------
(* Where a process finds a device, 0 if nowhere, and whether it updates it.  *)
Spot(p, d) ==
  IF Devc[d].tied THEN IF Tagged(p, d) THEN particle[d] ELSE 0 ELSE dev[p][d].mesh

Here(p, d) == Spot(p, d) \in Meshes /\ Process[Spot(p, d)] = p

(* UPDATE_GLOBAL_OUTPUTS updates every device that it finds once, wherever   *)
(* the meshes of the process are in the order of the loop, and no other.     *)
LEMMA GlobalOutputsAre ==
  ASSUME TypeOK, NEW p \in Processes, NEW level \in [Devices -> Levels]
  PROVE  /\ UpdateGlobalOutputs(p, level) \in Copies
         /\ \A d \in Devices :
              IF Here(p, d)
              THEN Measured(d, dev[p][d], UpdateGlobalOutputs(p, level)[d], Spot(p, d))
              ELSE UpdateGlobalOutputs(p, level)[d] = dev[p][d]
<1> DEFINE Solution(f) ==
             f = [m \in 0..LastMesh |->
                    IF m = 0 THEN dev[p]
                    ELSE IF Process[m] = p THEN DeviceLoop(p, f[m - 1], m, level)
                    ELSE f[m - 1]]
           after == CHOOSE f : Solution(f)
<1>1. LastMesh \in Nat /\ dev[p] \in Copies
  BY DeviceControlAssumption DEF TypeOK, Copies
<1>2. \E f \in [0..LastMesh -> Copies] : Solution(f)
  <2> DEFINE Step == [m \in 1..LastMesh |->
                        [x \in Copies |-> IF Process[m] = p THEN DeviceLoop(p, x, m, level)
                                          ELSE x]]
  <2>1. Step \in [1..LastMesh -> [Copies -> Copies]]
    BY DeviceLoopIs DEF Meshes
  <2>2. PICK f \in [0..LastMesh -> Copies] : Iterates(f, LastMesh, dev[p], Step)
    <3> HIDE DEF Step, Solution
    <3> QED BY <1>1, <2>1, Iteration
  <2>3. \A m \in 1..LastMesh :
          Step[m][f[m - 1]] = IF Process[m] = p THEN DeviceLoop(p, f[m - 1], m, level)
                              ELSE f[m - 1]
    BY <1>1
  <2>4. \A m \in 0..LastMesh :
          f[m] = IF m = 0 THEN dev[p]
                 ELSE IF Process[m] = p THEN DeviceLoop(p, f[m - 1], m, level)
                 ELSE f[m - 1]
    <3> HIDE DEF Step
    <3> QED BY <1>1, <2>2, <2>3 DEF Iterates
  <2>5. Solution(f)
    <3> HIDE DEF Step
    <3> QED BY <2>2, <2>4
  <2> QED BY <2>5
<1>3. Solution(after)
  BY <1>2
<1>4. UpdateGlobalOutputs(p, level) = after[LastMesh]
  BY DEF UpdateGlobalOutputs
<1> HIDE DEF after
<1>5. /\ after[0] = dev[p]
      /\ \A m \in 1..LastMesh :
           after[m] = IF Process[m] = p THEN DeviceLoop(p, after[m - 1], m, level)
                      ELSE after[m - 1]
  BY <1>1, <1>3
<1> HIDE DEF Solution
<1> DEFINE Found(d, k) == Here(p, d) /\ Spot(p, d) <= k
           Right(k) ==
             /\ after[k] \in Copies
             /\ \A d \in Devices :
                  IF Found(d, k) THEN Measured(d, dev[p][d], after[k][d], Spot(p, d))
                                 ELSE after[k][d] = dev[p][d]
           S == {k \in 0..LastMesh : Right(k)}
<1>6. 0 \in S
  BY <1>1, <1>5 DEF Meshes, Here
<1>7. ASSUME NEW k \in 1..LastMesh, k - 1 \in S
      PROVE  k \in S
  <2> DEFINE old == after[k - 1]
             new == after[k]
  <2>1. /\ k \in Meshes /\ k \in 0..LastMesh
        /\ old \in Copies
        /\ new = IF Process[k] = p THEN DeviceLoop(p, old, k, level) ELSE old
    BY <1>1, <1>5, <1>7 DEF Meshes
  <2>2. \A d \in Devices : IF Found(d, k - 1)
                           THEN Measured(d, dev[p][d], old[d], Spot(p, d))
                           ELSE old[d] = dev[p][d]
    BY <1>7
  <2> HIDE DEF old, new, S, Right
  <2>3. new \in Copies
    BY <2>1, DeviceLoopIs
  <2>4. ASSUME NEW d \in Devices
        PROVE  IF Found(d, k) THEN Measured(d, dev[p][d], new[d], Spot(p, d))
                              ELSE new[d] = dev[p][d]
    <3>1. InMesh(p, old, d, k) <=> Spot(p, d) = k
      <4>1. old[d].mesh = dev[p][d].mesh \/ Devc[d].tied
        BY <2>2 DEF Measured, Spot
      <4>2. k # 0
        BY <1>1
      <4> QED BY <4>1, <4>2 DEF InMesh, Spot
    <3>2. CASE Spot(p, d) = k /\ Process[k] = p
      <4>1. Found(d, k) /\ ~Found(d, k - 1)
        BY <1>1, <2>1, <3>2 DEF Here
      <4>2. old[d] = dev[p][d]
        BY <2>2, <4>1
      <4>3. Measured(d, old[d], new[d], k)
        BY <2>1, <3>1, <3>2, DeviceLoopIs
      <4> QED BY <3>2, <4>1, <4>2, <4>3
    <3>3. CASE ~(Spot(p, d) = k /\ Process[k] = p)
      <4>1. new[d] = old[d]
        BY <2>1, <3>1, <3>3, DeviceLoopIs
      <4>2. Found(d, k) <=> Found(d, k - 1)
        BY <1>1, <3>3 DEF Here, Meshes
      <4> QED BY <2>2, <4>1, <4>2
    <3> QED BY <3>2, <3>3
  <2> QED BY <2>1, <2>3, <2>4 DEF new, S, Right
<1>8. Right(LastMesh)
  <2>1. \A k \in 1..LastMesh : k - 1 \in S => k \in S
    BY <1>7
  <2> HIDE DEF S
  <2>2. 0..LastMesh \subseteq S
    BY <1>1, <1>6, <2>1, UpTo
  <2>3. LastMesh \in S
    BY <1>1, <2>2
  <2> USE DEF S
  <2> QED BY <2>3
<1>9. \A d \in Devices : Found(d, LastMesh) <=> Here(p, d)
  BY <1>1 DEF Here, Meshes
<1> QED BY <1>4, <1>8, <1>9

-----------------------------------------------------------------------------
(* UPDATE_CONTROLS                                                           *)

(* A control that has been evaluated keeps its type.                         *)
LEMMA ControlTypes ==
  ASSUME TypeOK, NEW p \in Processes, NEW new, NEW c \in Controls
  PROVE  NewControl(p, new, c) \in [current : BOOLEAN, prior : BOOLEAN,
                                    tChange : Times \cup {Never}]
<1>1. /\ ctl[p][c] \in [current : BOOLEAN, prior : BOOLEAN,
                        tChange : Times \cup {Never}]
      /\ now \in Times
      /\ Ctrl[c].initial \in BOOLEAN
  BY DeviceControlAssumption DEF TypeOK
<1>2. \A s, t : Evaluated(Ctrl[c], ctl[p][c], s, t) \in BOOLEAN
  BY <1>1 DEF Evaluated, StateFor
<1>3. Passed(ctl[p][c]) \in [current : BOOLEAN, prior : BOOLEAN,
                             tChange : Times \cup {Never}]
  BY <1>1 DEF Passed
<1> QED BY <1>1, <1>2, <1>3 DEF NewControl

(* The ranks of the controls.                                                *)
LEMMA ControlRanks ==
  \E rank \in [Controls -> 0..LastCtrl] :
    \A c \in Controls : \A k \in UsedInputs(Ctrl[c]) :
      /\ Ctrl[c].inputs[k] \in Inputs
      /\ Ctrl[c].inputs[k].type = "control" =>
           /\ Ctrl[c].inputs[k].id \in Controls
           /\ rank[Ctrl[c].inputs[k].id] < rank[c]
<1>1. LastCtrl \in Nat
  BY DeviceControlAssumption
<1>2. PICK rank \in [Controls -> Controls] : Ranks(rank)
  BY DeviceControlAssumption DEF Acyclic
<1>3. rank \in [Controls -> 0..LastCtrl]
  BY <1>1 DEF Controls
<1>4. ASSUME NEW c \in Controls, NEW k \in UsedInputs(Ctrl[c])
      PROVE  /\ Ctrl[c].inputs[k] \in Inputs
             /\ Ctrl[c].inputs[k].type = "control" =>
                  /\ Ctrl[c].inputs[k].id \in Controls
                  /\ rank[Ctrl[c].inputs[k].id] < rank[c]
  <2>1. Ctrl[c].inputs \in Seq(Inputs) /\ Ctrl[c].inputs # << >>
    BY DeviceControlAssumption
  <2>2. k \in 1..Len(Ctrl[c].inputs)
    BY <2>1 DEF UsedInputs
  <2>3. Ctrl[c].inputs[k] \in Inputs
    BY <2>1, <2>2
  <2>4. Ctrl[c].inputs[k].type = "control" => Ctrl[c].inputs[k].id \in Controls
    BY <2>3 DEF Inputs
  <2>5. Ctrl[c].inputs[k].type = "control" =>
          Ctrl[c].inputs[k].id \in ControlInputs(Ctrl[c])
    BY DEF ControlInputs
  <2> QED BY <1>2, <2>3, <2>4, <2>5 DEF Ranks
<1> QED BY <1>3, <1>4

(* UPDATE_CONTROLS leaves every control as NewControl says it has to be for  *)
(* the controls it leaves.                                                   *)
LEMMA NewControlsAre ==
  ASSUME TypeOK, NEW p \in Processes
  PROVE  /\ NewControls(p) \in ControlCopies
         /\ \A c \in Controls : NewControls(p)[c] = NewControl(p, NewControls(p), c)
<1> DEFINE V == [current : BOOLEAN, prior : BOOLEAN, tChange : Times \cup {Never}]
           Body == [g \in [Controls -> V] |-> [c \in Controls |-> NewControl(p, g, c)]]
           Solution(f) == f = [c \in Controls |-> NewControl(p, f, c)]
           new == CHOOSE f : Solution(f)
<1>1. LastCtrl \in Nat
  BY DeviceControlAssumption
<1>2. PICK rank \in [Controls -> 0..LastCtrl] :
        \A c \in Controls : \A k \in UsedInputs(Ctrl[c]) :
          /\ Ctrl[c].inputs[k] \in Inputs
          /\ Ctrl[c].inputs[k].type = "control" =>
               /\ Ctrl[c].inputs[k].id \in Controls
               /\ rank[Ctrl[c].inputs[k].id] < rank[c]
  BY ControlRanks
<1>3. \A g : \A c \in Controls : NewControl(p, g, c) \in V
  BY ControlTypes
<1>4. ASSUME NEW g \in [Controls -> V], NEW h \in [Controls -> V], NEW c \in Controls,
             \A i \in Controls : rank[i] < rank[c] => g[i] = h[i]
      PROVE  NewControl(p, g, c) = NewControl(p, h, c)
  <2>1. \A k \in UsedInputs(Ctrl[c]) :
          InputOf(p, g, Ctrl[c].inputs[k]) = InputOf(p, h, Ctrl[c].inputs[k])
    BY <1>2, <1>4 DEF InputOf, Inputs
  <2>2. /\ [k \in UsedInputs(Ctrl[c]) |-> InputOf(p, g, Ctrl[c].inputs[k]).current]
             = [k \in UsedInputs(Ctrl[c]) |-> InputOf(p, h, Ctrl[c].inputs[k]).current]
        /\ [k \in UsedInputs(Ctrl[c]) |-> InputOf(p, g, Ctrl[c].inputs[k]).tChange]
             = [k \in UsedInputs(Ctrl[c]) |-> InputOf(p, h, Ctrl[c].inputs[k]).tChange]
    BY <2>1
  <2> QED BY <2>2, Zenon DEF NewControl
<1>5. Recurses(Controls, V, rank, Body)
  <2> HIDE DEF V
  <2>1. Body \in [[Controls -> V] -> [Controls -> V]]
    BY <1>3
  <2>2. \A g \in [Controls -> V] : \A c \in Controls : Body[g][c] = NewControl(p, g, c)
    OBVIOUS
  <2> HIDE DEF Body
  <2> QED BY SMTT(30), <2>1, <2>2, <1>4 DEF Recurses
<1>6. \E v : v \in V
  <2>1. [current |-> TRUE, prior |-> TRUE, tChange |-> Never] \in V
    OBVIOUS
  <2> QED BY <2>1
<1>7. \E f : Solution(f)
  <2>1. \E f \in [Controls -> V] : f = Body[f]
    <3> HIDE DEF V, Body, Solution
    <3> QED BY <1>1, <1>5, <1>6, FixedPoint
  <2>2. PICK f \in [Controls -> V] : f = Body[f]
    BY <2>1
  <2>3. Body[f] = [c \in Controls |-> NewControl(p, f, c)]
    OBVIOUS
  <2> QED BY <2>2, <2>3
<1>8. Solution(new)
  BY <1>7
<1>9. NewControls(p) = new
  BY DEF NewControls
<1> HIDE DEF new
<1> QED BY <1>3, <1>8, <1>9 DEF ControlCopies

-----------------------------------------------------------------------------
(* DUMP_GLOBAL_OUTPUTS                                                       *)

(* A device whose copies all name a mesh of its owner.                       *)
Placed == \A p \in Processes, d \in Devices : Process[dev[p][d].mesh] = Owner(d)

(* The owner of a device is a process.                                       *)
LEMMA OwnerIs ==
  \A d \in Devices : Owner(d) \in Processes /\ Devc[d].mesh \in Meshes
BY DeviceControlAssumption DEF Owner, Processes

(* With one contributor the exclusive or is the identity.                    *)
LEMMA LxorOfOne ==
  ASSUME NEW o, NEW P \in SUBSET {o}
  PROVE  Lxor(P) <=> o \in P
<1>1. CASE o \in P
  <2>1. P = {o}
    BY <1>1
  <2>2. Cardinality({o}) = 1
    BY FS_Singleton
  <2>3. Cardinality({o}) % 2 = 1
    BY <2>2
  <2> QED BY <1>1, <2>1, <2>3 DEF Lxor
<1>2. CASE o \notin P
  <2>1. P = {}
    BY <1>2
  <2>2. Cardinality({}) = 0
    BY FS_EmptySet
  <2> QED BY <1>2, <2>1, <2>2 DEF Lxor
<1> QED BY <1>1, <1>2

(* And so is the sum.                                                        *)
LEMMA SumOfOne ==
  ASSUME NEW d, NEW o, dev[o][d].tChange \in Int
  PROVE  MapThenSumSet(LAMBDA q : dev[q][d].tChange, {o}) = dev[o][d].tChange
<1> DEFINE Iter(it) == [s \in SUBSET {o} |->
             IF s = {} THEN 0
             ELSE dev[CHOOSE x \in s : TRUE][d].tChange
                    + it[s \ {CHOOSE x \in s : TRUE}]]
           sum == CHOOSE it : it = Iter(it)
<1>1. MapThenSumSet(LAMBDA q : dev[q][d].tChange, {o}) = sum[{o}]
  BY DEF MapThenSumSet, MapThenFoldSet
<1>2. (CHOOSE x \in {o} : TRUE) = o
  OBVIOUS
<1>3. sum = Iter(sum)
  <2> DEFINE w == [s \in SUBSET {o} |-> IF s = {} THEN 0 ELSE dev[o][d].tChange]
  <2>1. \A s \in SUBSET {o} : s # {} => s = {o}
    OBVIOUS
  <2>2. w[{}] = 0 /\ {o} \ {o} = {}
    OBVIOUS
  <2>3. \A s \in SUBSET {o} : w[s] = Iter(w)[s]
    BY <1>2, <2>1, <2>2
  <2>4. w = Iter(w)
    BY <2>3
  <2> QED BY <2>4
<1> HIDE DEF sum
<1>4. sum[{}] = 0
  BY <1>3
<1>5. sum[{o}] = dev[o][d].tChange + sum[{o} \ {o}]
  BY <1>2, <1>3
<1>6. {o} \ {o} = {}
  OBVIOUS
<1>7. sum[{o}] = dev[o][d].tChange
  BY <1>4, <1>5, <1>6
<1> QED BY <1>1, <1>7

(* After the exchange every copy is that of the owner, but for its mesh.     *)
LEMMA ExchangeIs ==
  ASSUME TypeOK, Placed, DumpGlobalOutputs, NEW p \in Processes, NEW d \in Devices
  PROVE  /\ dev'[p][d] = [current |-> dev[Owner(d)][d].current,
                          prior   |-> dev[Owner(d)][d].prior,
                          tChange |-> dev[Owner(d)][d].tChange,
                          mesh    |-> dev[p][d].mesh]
<1> DEFINE o == Owner(d)
<1>1. o \in Processes
  BY OwnerIs
<1>2. Contributors(d) = {o}
  BY <1>1 DEF Contributors, Placed
<1>3. /\ dev[o][d].current \in BOOLEAN /\ dev[o][d].prior \in BOOLEAN
      /\ dev[o][d].tChange \in Int
  BY <1>1 DEF TypeOK, Times, Never
<1> HIDE DEF o
<1>4. Lxor({q \in {o} : dev[q][d].current}) = dev[o][d].current
  <2> DEFINE P == {q \in {o} : dev[q][d].current}
  <2>1. P \in SUBSET {o} /\ (o \in P <=> dev[o][d].current)
    OBVIOUS
  <2> HIDE DEF P
  <2>2. Lxor(P) <=> o \in P
    BY <2>1, LxorOfOne
  <2>3. Lxor(P) \in BOOLEAN
    BY DEF Lxor
  <2> QED BY <1>3, <2>1, <2>2, <2>3 DEF P
<1>5. Lxor({q \in {o} : dev[q][d].prior}) = dev[o][d].prior
  <2> DEFINE P == {q \in {o} : dev[q][d].prior}
  <2>1. P \in SUBSET {o} /\ (o \in P <=> dev[o][d].prior)
    OBVIOUS
  <2> HIDE DEF P
  <2>2. Lxor(P) <=> o \in P
    BY <2>1, LxorOfOne
  <2>3. Lxor(P) \in BOOLEAN
    BY DEF Lxor
  <2> QED BY <1>3, <2>1, <2>2, <2>3 DEF P
<1>6. MapThenSumSet(LAMBDA q : dev[q][d].tChange, Contributors(d)) = dev[o][d].tChange
  BY <1>2, <1>3, SumOfOne, Zenon
<1>7. dev'[p][d] =
        [current |-> Lxor({q \in Contributors(d) : dev[q][d].current}),
         prior   |-> Lxor({q \in Contributors(d) : dev[q][d].prior}),
         tChange |-> MapThenSumSet(LAMBDA q : dev[q][d].tChange, Contributors(d)),
         mesh    |-> dev[p][d].mesh]
  BY DEF DumpGlobalOutputs
<1> QED BY <1>2, <1>4, <1>5, <1>6, <1>7, Zenon DEF o

-----------------------------------------------------------------------------
(* The devices                                                               *)

Updating == {"devices", "controls", "exchange"}
Acting   == {"first", "open", "particles"}

(* The exchange and the corrector are barriers.                              *)
Phases ==
  \/ \A p \in Processes : pc[p] \in Updating
  \/ \A p \in Processes : pc[p] \in Acting
  \/ \A p \in Processes : pc[p] = "over"

(* There is a next step for a process that opens and closes.                 *)
Clock ==
  \A p \in Processes : /\ pc[p] \in Acting => now < MaxT
                       /\ pc[p] = "first" => now = 0

(* Before the first step nothing but the state of it can differ.             *)
AtStart ==
  now = 0 => \A p \in Processes :
    /\ \A d \in Devices : /\ dev[p][d].prior = Devc[d].initial
                          /\ pc[p] = "devices" => dev[p][d].current = Devc[d].initial
    /\ \A c \in Controls : /\ ctl[p][c].prior = Ctrl[c].initial
                           /\ pc[p] \in {"devices", "controls"} =>
                                ctl[p][c].current = Ctrl[c].initial

(* After the exchange every copy is that of the owner.                       *)
Exchanged ==
  \A p \in Processes : pc[p] \notin Updating =>
    \A d \in Devices : /\ dev[p][d].current = dev[Owner(d)][d].current
                       /\ dev[p][d].prior = dev[Owner(d)][d].prior
                       /\ dev[p][d].tChange = dev[Owner(d)][d].tChange

(* No copy of a latched device is ahead of that of the owner.                *)
Lags ==
  \A p \in Processes, d \in Devices :
    Devc[d].latch /\ dev[p][d].current # Devc[d].initial =>
      dev[Owner(d)][d].current # Devc[d].initial

DevicesInv == TypeOK /\ Phases /\ Clock /\ Placed /\ AtStart /\ Exchanged /\ Lags

(* A device on a particle belongs to the process that owns the first mesh.   *)
(* Without it two processes contribute to the exchange, and a latched device *)
(* does go back (the run device_control_tied).                               *)
TiedOnFirst == \A d \in Devices : Devc[d].tied => Owner(d) = Process[1]

(* Copies that name no mesh of the owner name the first.                     *)
LEMMA DevicesInit ==
  ASSUME TiedOnFirst
  PROVE  Init => DevicesInv
<1> SUFFICES ASSUME Init PROVE DevicesInv
  OBVIOUS
<1>1. /\ 1 \in Meshes /\ MaxT \in Nat /\ 0 \in Times
      /\ \A d \in Devices : /\ Devc[d].initial \in BOOLEAN /\ Devc[d].tied \in BOOLEAN
                            /\ Devc[d].mesh \in Meshes
      /\ \A c \in Controls : Ctrl[c].initial \in BOOLEAN
  BY DeviceControlAssumption DEF Meshes, Times
<1>2. /\ now = 0 /\ burnt = {}
      /\ pc = [p \in Processes |-> "devices"]
  BY DEF Init
<1>3. ASSUME NEW p \in Processes, NEW d \in Devices
      PROVE  /\ dev[p][d] = [current |-> Devc[d].initial, prior |-> Devc[d].initial,
                             tChange |-> 10 * Never,
                             mesh |-> IF Devc[d].tied /\ ~Tagged(p, d) THEN 1
                                      ELSE Devc[d].mesh]
             /\ dev[p][d].mesh \in Meshes /\ Process[dev[p][d].mesh] = Owner(d)
             /\ dev[p][d].prior = Devc[d].initial /\ dev[p][d].current = Devc[d].initial
  <2>1. dev[p][d] = [current |-> Devc[d].initial, prior |-> Devc[d].initial,
                     tChange |-> 10 * Never,
                     mesh |-> IF Devc[d].tied /\ ~Tagged(p, d) THEN 1
                              ELSE Devc[d].mesh]
    BY DEF Init
  <2> QED BY <1>1, <2>1 DEF TiedOnFirst, Owner
<1>4. dev \in [Processes -> Copies]
  <2>1. dev \in [Processes -> [Devices -> [current : BOOLEAN, prior : BOOLEAN,
                                           tChange : {10 * Never}, mesh : Meshes]]]
    BY <1>1 DEF Init
  <2> QED BY <2>1 DEF Copies
<1>5. ctl \in [Processes -> ControlCopies]
  BY <1>1 DEF Init, ControlCopies
<1>6. particle \in [Devices -> 0..LastMesh]
  <2>1. \A d \in Devices : Devc[d].mesh \in 0..LastMesh /\ 0 \in 0..LastMesh
    BY <1>1, DeviceControlAssumption DEF Meshes
  <2> QED BY <2>1 DEF Init
<1>7. vent \in [DOMAIN Vent -> [open : BOOLEAN, tIgn : Times \cup {Never}]]
  <2>1. \A v \in DOMAIN Vent : Initially(Vent[v].input) \in BOOLEAN
    <3> SUFFICES ASSUME NEW v \in DOMAIN Vent PROVE Initially(Vent[v].input) \in BOOLEAN
      OBVIOUS
    <3>1. Vent[v].input \in Inputs
      BY DeviceControlAssumption
    <3> QED BY <1>1, <3>1 DEF Initially, Inputs
  <2> QED BY <1>1, <2>1 DEF Init
<1>8. TypeOK
  BY <1>1, <1>2, <1>4, <1>5, <1>6, <1>7 DEF TypeOK, Init, Copies, ControlCopies
<1>9. Phases /\ Clock /\ Exchanged
  BY <1>2 DEF Phases, Clock, Exchanged, Updating, Acting
<1>10. Placed
  BY <1>3 DEF Placed
<1>11. AtStart /\ Lags
  <2>1. \A p \in Processes, c \in Controls : /\ ctl[p][c].prior = Ctrl[c].initial
                                             /\ ctl[p][c].current = Ctrl[c].initial
    BY DEF Init
  <2>2. \A p \in Processes, d \in Devices : /\ dev[p][d].prior = Devc[d].initial
                                            /\ dev[p][d].current = Devc[d].initial
    BY <1>3
  <2> QED BY <2>1, <2>2 DEF AtStart, Lags
<1> QED BY <1>8, <1>9, <1>10, <1>11 DEF DevicesInv

(* What UPDATE_DEVICES changes.                                              *)
LEMMA UpdateDevicesIs ==
  ASSUME DevicesInv, NEW p \in Processes, UpdateDevices(p)
  PROVE  /\ dev' \in [Processes -> Copies]
         /\ \A q \in Processes : q # p => dev'[q] = dev[q]
         /\ pc[p] = "devices" /\ pc' = [pc EXCEPT ![p] = "controls"]
         /\ UNCHANGED <<now, ctl, particle, hidden, burnt, vent>>
         /\ \A d \in Devices :
              IF Here(p, d)
              THEN /\ Owner(d) = p /\ Process[Spot(p, d)] = p
                   /\ Measured(d, dev[p][d], dev'[p][d], Spot(p, d))
              ELSE dev'[p][d] = dev[p][d]
         /\ \A d \in Devices : ~Devc[d].tied => (Here(p, d) <=> Owner(d) = p)
<1>1. TypeOK /\ Placed
  BY DEF DevicesInv
<1>2. PICK level \in [Devices -> Levels] :
        dev' = [dev EXCEPT ![p] = UpdateGlobalOutputs(p, level)]
  BY DEF UpdateDevices
<1>3. dev \in [Processes -> Copies]
  BY <1>1 DEF TypeOK, Copies
<1>4. dev'[p] = UpdateGlobalOutputs(p, level)
  BY <1>2, <1>3
<1>5. dev' \in [Processes -> Copies] /\ \A q \in Processes : q # p => dev'[q] = dev[q]
  BY <1>1, <1>2, <1>3, GlobalOutputsAre
<1>6. \A d \in Devices : Here(p, d) => Owner(d) = p /\ Process[Spot(p, d)] = p
  <2>1. 0 \notin Meshes
    BY DEF Meshes
  <2> QED BY <1>1, <2>1 DEF Here, Spot, Tagged, Owner, Placed
<1>7. \A d \in Devices : ~Devc[d].tied => (Here(p, d) <=> Owner(d) = p)
  <2> SUFFICES ASSUME NEW d \in Devices, ~Devc[d].tied
               PROVE  Here(p, d) <=> Owner(d) = p
    OBVIOUS
  <2>1. Spot(p, d) = dev[p][d].mesh /\ dev[p][d].mesh \in Meshes
    BY <1>3 DEF Spot, Copies
  <2> QED BY <1>1, <2>1 DEF Here, Placed
<1> QED BY <1>1, <1>4, <1>5, <1>6, <1>7, GlobalOutputsAre DEF UpdateDevices, Goes

(* What UPDATE_CONTROLS changes.                                             *)
LEMMA UpdateControlsIs ==
  ASSUME DevicesInv, NEW p \in Processes, UpdateControls(p)
  PROVE  /\ ctl' \in [Processes -> ControlCopies]
         /\ \A q \in Processes : q # p => ctl'[q] = ctl[q]
         /\ pc[p] = "controls" /\ pc' = [pc EXCEPT ![p] = "exchange"]
         /\ UNCHANGED <<now, dev, particle, hidden, burnt, vent>>
         /\ \A c \in Controls :
              /\ ctl'[p][c] = NewControl(p, ctl'[p], c)
              /\ ctl'[p][c].prior = ctl[p][c].current
              /\ ctl'[p][c].tChange = IF ctl'[p][c].current # ctl[p][c].current
                                      THEN now ELSE ctl[p][c].tChange
<1>1. TypeOK
  BY DEF DevicesInv
<1>2. ctl \in [Processes -> ControlCopies]
  BY <1>1 DEF TypeOK, ControlCopies
<1>3. ctl' = [ctl EXCEPT ![p] = NewControls(p)]
  BY DEF UpdateControls
<1>4. NewControls(p) \in ControlCopies
  BY <1>1, NewControlsAre
<1>5. /\ ctl' \in [Processes -> ControlCopies] /\ ctl'[p] = NewControls(p)
      /\ \A q \in Processes : q # p => ctl'[q] = ctl[q]
  BY <1>2, <1>3, <1>4
<1>6. \A c \in Controls : ctl'[p][c] = NewControl(p, ctl'[p], c)
  BY <1>1, <1>5, NewControlsAre
<1>7. ASSUME NEW c \in Controls
      PROVE  /\ ctl'[p][c].prior = ctl[p][c].current
             /\ ctl'[p][c].tChange = IF ctl'[p][c].current # ctl[p][c].current
                                     THEN now ELSE ctl[p][c].tChange
  <2>1. /\ ctl[p][c] \in [current : BOOLEAN, prior : BOOLEAN, tChange : Times \cup {Never}]
    BY <1>2 DEF ControlCopies
  <2>2. PICK new : new = ctl'[p]
    OBVIOUS
  <2>3. ctl'[p][c] = NewControl(p, new, c)
    BY <1>6, <2>2
  <2> QED BY <2>1, <2>3 DEF NewControl, Passed
<1> QED BY <1>5, <1>6, <1>7 DEF UpdateControls, Goes

(* All processes are on the same side of a barrier.                          *)
LEMMA Together ==
  ASSUME Phases, NEW p \in Processes, NEW q \in Processes
  PROVE  /\ pc[p] \in Updating <=> pc[q] \in Updating
         /\ pc[p] \in Acting <=> pc[q] \in Acting
         /\ pc[p] = "over" <=> pc[q] = "over"
BY DEF Phases, Updating, Acting

(* The owner alone updates a device, so the copies of the others lag.        *)
LEMMA UpdateDevicesStep ==
  ASSUME DevicesInv, NEW p \in Processes, UpdateDevices(p)
  PROVE  DevicesInv'
<1> USE DEF DevicesInv
<1>1. /\ dev' \in [Processes -> Copies]
      /\ \A q \in Processes : q # p => dev'[q] = dev[q]
      /\ pc[p] = "devices" /\ pc' = [pc EXCEPT ![p] = "controls"]
      /\ UNCHANGED <<now, ctl, particle, hidden, burnt, vent>>
      /\ \A d \in Devices :
           IF Here(p, d)
           THEN /\ Owner(d) = p /\ Process[Spot(p, d)] = p
                /\ Measured(d, dev[p][d], dev'[p][d], Spot(p, d))
           ELSE dev'[p][d] = dev[p][d]
  BY UpdateDevicesIs
<1>2. TypeOK'
  <2>1. dev' \in [Processes -> [Devices ->
          [current : BOOLEAN, prior : BOOLEAN, tChange : Times \cup {10 * Never},
           mesh : Meshes]]]
    BY <1>1 DEF Copies
  <2> QED BY <1>1, <2>1 DEF TypeOK
<1>3. \A q \in Processes : /\ pc[q] \in Updating /\ pc'[q] \in Updating
                           /\ q # p => pc'[q] = pc[q]
  <2>1. \A q \in Processes : pc[q] \in Updating
    BY <1>1, Together DEF Updating
  <2>2. \A q \in Processes : pc'[q] = IF q = p THEN "controls" ELSE pc[q]
    BY <1>1 DEF TypeOK
  <2> QED BY <2>1, <2>2 DEF Updating
<1>4. Phases' /\ Clock' /\ Exchanged'
  BY <1>3 DEF Phases, Clock, Exchanged, Updating, Acting
<1>5. Placed'
  BY <1>1 DEF Placed, Measured
<1>6. pc'[p] = "controls"
  BY <1>1 DEF TypeOK
<1>7. AtStart'
  <2> SUFFICES ASSUME now = 0, NEW q \in Processes
               PROVE  /\ \A d \in Devices :
                           /\ dev'[q][d].prior = Devc[d].initial
                           /\ pc'[q] = "devices" => dev'[q][d].current = Devc[d].initial
                      /\ \A c \in Controls :
                           /\ ctl'[q][c].prior = Ctrl[c].initial
                           /\ pc'[q] \in {"devices", "controls"} =>
                                ctl'[q][c].current = Ctrl[c].initial
    BY <1>1 DEF AtStart
  <2>1. CASE q # p
    BY <1>1, <1>3, <2>1 DEF AtStart
  <2>2. CASE q = p
    BY <1>1, <1>6, <2>2 DEF AtStart, Measured
  <2> QED BY <2>1, <2>2
<1>8. Lags'
  <2> SUFFICES ASSUME NEW q \in Processes, NEW d \in Devices,
                      Devc[d].latch, dev'[q][d].current # Devc[d].initial
               PROVE  dev'[Owner(d)][d].current # Devc[d].initial
    BY DEF Lags
  <2>1. Owner(d) \in Processes
    BY OwnerIs
  <2>2. CASE q = Owner(d)
    BY <2>2
  <2>3. CASE q # Owner(d)
    <3>1. dev'[q][d] = dev[q][d]
      BY <1>1, <2>3
    <3>2. dev[Owner(d)][d].current # Devc[d].initial
      BY <3>1 DEF Lags
    <3> QED BY <1>1, <2>1, <3>2 DEF Measured
  <2> QED BY <2>2, <2>3
<1> QED BY <1>2, <1>4, <1>5, <1>7, <1>8

(* UPDATE_CONTROLS leaves the devices alone.                                 *)
LEMMA UpdateControlsStep ==
  ASSUME DevicesInv, NEW p \in Processes, UpdateControls(p)
  PROVE  DevicesInv'
<1> USE DEF DevicesInv
<1>1. /\ ctl' \in [Processes -> ControlCopies]
      /\ \A q \in Processes : q # p => ctl'[q] = ctl[q]
      /\ pc[p] = "controls" /\ pc' = [pc EXCEPT ![p] = "exchange"]
      /\ UNCHANGED <<now, dev, particle, hidden, burnt, vent>>
      /\ \A c \in Controls : ctl'[p][c].prior = ctl[p][c].current
  BY UpdateControlsIs
<1>2. TypeOK'
  <2>1. ctl' \in [Processes -> [Controls ->
          [current : BOOLEAN, prior : BOOLEAN, tChange : Times \cup {Never}]]]
    BY <1>1 DEF ControlCopies
  <2> QED BY <1>1, <2>1 DEF TypeOK
<1>3. \A q \in Processes : /\ pc[q] \in Updating /\ pc'[q] \in Updating
                           /\ q # p => pc'[q] = pc[q]
  <2>1. \A q \in Processes : pc[q] \in Updating
    BY <1>1, Together DEF Updating
  <2>2. \A q \in Processes : pc'[q] = IF q = p THEN "exchange" ELSE pc[q]
    BY <1>1 DEF TypeOK
  <2> QED BY <2>1, <2>2 DEF Updating
<1>4. Phases' /\ Clock' /\ Exchanged'
  BY <1>3 DEF Phases, Clock, Exchanged, Updating, Acting
<1>5. Placed' /\ Lags'
  BY <1>1 DEF Placed, Lags
<1>6. pc'[p] = "exchange"
  BY <1>1 DEF TypeOK
<1>7. AtStart'
  <2> SUFFICES ASSUME now = 0, NEW q \in Processes
               PROVE  /\ \A d \in Devices :
                           /\ dev'[q][d].prior = Devc[d].initial
                           /\ pc'[q] = "devices" => dev'[q][d].current = Devc[d].initial
                      /\ \A c \in Controls :
                           /\ ctl'[q][c].prior = Ctrl[c].initial
                           /\ pc'[q] \in {"devices", "controls"} =>
                                ctl'[q][c].current = Ctrl[c].initial
    BY <1>1 DEF AtStart
  <2>1. CASE q # p
    BY <1>1, <1>3, <2>1 DEF AtStart
  <2>2. CASE q = p
    BY <1>1, <1>6, <2>2 DEF AtStart
  <2> QED BY <2>1, <2>2
<1> QED BY <1>2, <1>4, <1>5, <1>7

(* The exchange gives every process the state of the owner.                  *)
LEMMA ExchangeStep ==
  ASSUME DevicesInv, DumpGlobalOutputs
  PROVE  DevicesInv'
<1> USE DEF DevicesInv
<1>1. ASSUME NEW p \in Processes, NEW d \in Devices
      PROVE  /\ dev'[p][d].current = dev[Owner(d)][d].current
             /\ dev'[p][d].prior = dev[Owner(d)][d].prior
             /\ dev'[p][d].tChange = dev[Owner(d)][d].tChange
             /\ dev'[p][d].mesh = dev[p][d].mesh
             /\ dev'[p][d] \in [current : BOOLEAN, prior : BOOLEAN,
                                tChange : Times \cup {10 * Never}, mesh : Meshes]
  <2>1. /\ dev'[p][d] = [current |-> dev[Owner(d)][d].current,
                         prior   |-> dev[Owner(d)][d].prior,
                         tChange |-> dev[Owner(d)][d].tChange,
                         mesh    |-> dev[p][d].mesh]
    BY ExchangeIs
  <2> QED BY <2>1, OwnerIs DEF TypeOK
<1>2. dev' \in [Processes -> [Devices ->
        [current : BOOLEAN, prior : BOOLEAN, tChange : Times \cup {10 * Never},
         mesh : Meshes]]]
  <2>1. /\ DOMAIN dev' = Processes
        /\ \A p \in Processes : DOMAIN dev'[p] = Devices
        /\ dev' = [p \in Processes |-> dev'[p]]
        /\ \A p \in Processes : dev'[p] = [d \in Devices |-> dev'[p][d]]
    BY Zenon DEF DumpGlobalOutputs
  <2>2. \A p \in Processes : dev'[p] \in [Devices ->
          [current : BOOLEAN, prior : BOOLEAN, tChange : Times \cup {10 * Never},
           mesh : Meshes]]
    BY <1>1, <2>1
  <2> QED BY <2>1, <2>2
<1>3. /\ \A p \in Processes : pc[p] = "exchange"
      /\ UNCHANGED <<now, ctl, particle, hidden, burnt, vent>>
      /\ pc' = [p \in Processes |-> IF now = 0 THEN "first"
                                    ELSE IF now < MaxT THEN "open" ELSE "over"]
  BY DEF DumpGlobalOutputs
<1>4. TypeOK'
  BY <1>2, <1>3 DEF TypeOK
<1>5. Phases' /\ Clock'
  BY <1>3, DeviceControlAssumption DEF Phases, Clock, Updating, Acting
<1>6. Placed'
  BY <1>1 DEF Placed
<1>7. AtStart'
  BY <1>1, <1>3, OwnerIs DEF AtStart
<1>8. Exchanged' /\ Lags'
  BY <1>1, OwnerIs DEF Exchanged, Lags
<1> QED BY <1>4, <1>5, <1>6, <1>7, <1>8

(* OPEN_AND_CLOSE only touches obstructions and vents.                       *)
LEMMA OpenAndCloseStep ==
  ASSUME DevicesInv, NEW p \in Processes, OpenAndClose(p)
  PROVE  DevicesInv'
<1> USE DEF DevicesInv
<1>1. /\ pc[p] \in {"first", "open"} /\ UNCHANGED <<now, dev, ctl, particle, burnt>>
      /\ pc' = [pc EXCEPT ![p] = IF pc[p] = "first" THEN "open" ELSE "particles"]
  BY DEF OpenAndClose, Goes
<1>2. now \in Times /\ now + 1 \in Times
  BY <1>1, DeviceControlAssumption DEF TypeOK, Clock, Acting, Times
<1>3. hidden' \in [DOMAIN Obst -> BOOLEAN]
  BY DEF OpenAndClose, OpenObst, TypeOK
<1>4. vent' \in [DOMAIN Vent -> [open : BOOLEAN, tIgn : Times \cup {Never}]]
  <2>1. \A first : OpenVents(p, first) =>
          vent' \in [DOMAIN Vent -> [open : BOOLEAN, tIgn : Times \cup {Never}]]
    BY <1>2 DEF OpenVents, TypeOK
  <2> QED BY <2>1 DEF OpenAndClose
<1>5. TypeOK'
  BY <1>1, <1>3, <1>4 DEF TypeOK
<1>6. \A q \in Processes : /\ pc[q] \in Acting /\ pc'[q] \in Acting
                           /\ pc'[q] = "first" => pc[q] = "first"
  <2>1. \A q \in Processes : pc[q] \in Acting
    BY <1>1, Together DEF Acting
  <2>2. \A q \in Processes :
          pc'[q] = IF q # p THEN pc[q] ELSE IF pc[p] = "first" THEN "open" ELSE "particles"
    BY <1>1 DEF TypeOK
  <2> QED BY <2>1, <2>2 DEF Acting
<1>7. Phases' /\ Clock' /\ AtStart' /\ Exchanged'
  BY <1>1, <1>6 DEF Phases, Clock, AtStart, Exchanged, Updating, Acting
<1>8. Placed' /\ Lags'
  BY <1>1 DEF Placed, Lags
<1> QED BY <1>5, <1>7, <1>8

(* Particles drift, but no copy of a device changes.                         *)
LEMMA CorrectorStep ==
  ASSUME DevicesInv, Corrector
  PROVE  DevicesInv'
<1> USE DEF DevicesInv
<1>1. /\ \A p \in Processes : pc[p] = "particles"
      /\ now' = now + 1 /\ UNCHANGED <<dev, ctl, hidden, vent>>
      /\ pc' = [p \in Processes |-> "devices"]
  BY DEF Corrector
<1>2. Process[1] \in Processes
  BY DeviceControlAssumption DEF Processes, Meshes
<1>3. now' \in Times /\ now' # 0
  BY <1>1, <1>2, DeviceControlAssumption DEF TypeOK, Clock, Acting, Times
<1>4. particle' \in [Devices -> 0..LastMesh] /\ burnt' \subseteq DOMAIN Obst
  BY DEF Corrector, TypeOK
<1>5. TypeOK'
  BY <1>1, <1>3, <1>4 DEF TypeOK
<1>6. Phases' /\ Clock' /\ AtStart' /\ Exchanged'
  BY <1>1, <1>3 DEF Phases, Clock, AtStart, Exchanged, Updating, Acting
<1>7. Placed' /\ Lags'
  BY <1>1 DEF Placed, Lags
<1> QED BY <1>5, <1>6, <1>7

(* So DevicesInv is inductive,                                               *)
LEMMA DevicesStep == DevicesInv /\ [Next]_vars => DevicesInv'
<1> SUFFICES ASSUME DevicesInv, [Next]_vars PROVE DevicesInv'
  OBVIOUS
<1>1. CASE \E p \in Processes : UpdateDevices(p) \/ UpdateControls(p) \/ OpenAndClose(p)
  BY <1>1, UpdateDevicesStep, UpdateControlsStep, OpenAndCloseStep
<1>2. CASE DumpGlobalOutputs
  BY <1>2, ExchangeStep
<1>3. CASE Corrector
  BY <1>3, CorrectorStep
<1>4. CASE UNCHANGED vars
  BY <1>4 DEF vars, DevicesInv, TypeOK, Phases, Clock, Placed, AtStart, Exchanged, Lags
<1> QED BY <1>1, <1>2, <1>3, <1>4 DEF Next, Finished

(* and holds in every state.                                                 *)
LEMMA DevicesHold ==
  ASSUME TiedOnFirst
  PROVE  Spec => []DevicesInv
BY DevicesInit, DevicesStep, PTL DEF Spec

(* The variables keep their types.                                           *)
THEOREM TypeCorrect ==
  ASSUME TiedOnFirst
  PROVE  Spec => []TypeOK
<1>1. DevicesInv => TypeOK
  BY DEF DevicesInv
<1> QED BY <1>1, DevicesHold, PTL

(* A latched device changes state once in a run, on every process.           *)
THEOREM LatchedDevicesTripOnce ==
  ASSUME TiedOnFirst
  PROVE  Spec => DeviceLatchedOnce
<1> DEFINE Stays == \A p \in Processes, d \in Devices :
             Devc[d].latch /\ dev[p][d].current # Devc[d].initial =>
               dev'[p][d].current = dev[p][d].current
<1>1. DevicesInv /\ [Next]_vars => [Stays]_vars
  <2> SUFFICES ASSUME DevicesInv, [Next]_vars,
                      NEW p \in Processes, NEW d \in Devices,
                      Devc[d].latch, dev[p][d].current # Devc[d].initial
               PROVE  dev'[p][d].current = dev[p][d].current
    OBVIOUS
  <2>1. ASSUME NEW q \in Processes, UpdateDevices(q)
        PROVE  dev'[p][d].current = dev[p][d].current
    BY <2>1, UpdateDevicesIs DEF Measured
  <2>2. CASE DumpGlobalOutputs
    <3>1. dev'[p][d].current = dev[Owner(d)][d].current
      <4>1. dev'[p][d] = [current |-> dev[Owner(d)][d].current,
                          prior   |-> dev[Owner(d)][d].prior,
                          tChange |-> dev[Owner(d)][d].tChange,
                          mesh    |-> dev[p][d].mesh]
        BY <2>2, ExchangeIs DEF DevicesInv
      <4> QED BY <4>1
    <3>2. dev[Owner(d)][d].current # Devc[d].initial
      BY DEF DevicesInv, Lags
    <3>3. /\ dev[Owner(d)][d].current \in BOOLEAN /\ dev[p][d].current \in BOOLEAN
          /\ Devc[d].initial \in BOOLEAN
      BY OwnerIs, DeviceControlAssumption DEF DevicesInv, TypeOK
    <3> QED BY <3>1, <3>2, <3>3
  <2>3. CASE UNCHANGED dev
    BY <2>3
  <2>4. \/ \E q \in Processes : UpdateDevices(q)
        \/ DumpGlobalOutputs
        \/ UNCHANGED dev
    BY DEF Next, UpdateControls, OpenAndClose, Corrector, Finished, vars
  <2> QED BY <2>1, <2>2, <2>3, <2>4
<1>2. [][Stays]_vars => DeviceLatchedOnce
  BY PTL DEF DeviceLatchedOnce
<1> QED BY <1>1, <1>2, DevicesHold, PTL DEF Spec

-----------------------------------------------------------------------------
(* What an obstruction or vent of process p waits for                        *)

(* An input has changed in this step, on its owner or in p's own controls,   *)
(* or has not been updated and keeps an edge.                                *)
Fresh(p, in) ==
  \/ /\ in.type = "device" /\ pc[Owner(in.id)] # "devices"
     /\ dev[Owner(in.id)][in.id].current # dev[Owner(in.id)][in.id].prior
  \/ /\ in.type = "control" /\ pc[p] \notin {"devices", "controls"}
     /\ ctl[p][in.id].current # ctl[p][in.id].prior

(* The time of the last change of an input.                                  *)
ChangeSeen(p, in) ==
  IF in.type = "device" THEN dev[Owner(in.id)][in.id].tChange ELSE ctl[p][in.id].tChange

(* A device on a particle may miss an update and keep an edge.               *)
Regular(in) == in.type = "device" => ~Devc[in.id].tied

(* What is seen of an input has a type.                                      *)
LEMMA SeenTypes ==
  ASSUME DevicesInv, NEW p \in Processes, NEW in \in Inputs
  PROVE  /\ StateSeen(p, in) \in BOOLEAN
         /\ ChangeSeen(p, in) \in Int
         /\ in.type = "device" => in.id \in Devices /\ Owner(in.id) \in Processes
         /\ in.type = "control" => in.id \in Controls
         /\ in.type \in {"device", "control"}
<1>1. /\ in.type = "device" => in.id \in Devices /\ Owner(in.id) \in Processes
      /\ in.type = "control" => in.id \in Controls
      /\ in.type \in {"device", "control"}
  BY OwnerIs DEF Inputs
<1> QED BY <1>1 DEF DevicesInv, TypeOK, StateSeen, ChangeSeen, Times, Never

(* A change that is not seen yet is seen as an edge, and stays one.          *)
LEMMA UpdateSeen ==
  ASSUME DevicesInv, NEW p \in Processes, NEW in \in Inputs,
         NEW q \in Processes, UpdateDevices(q) \/ UpdateControls(q)
  PROVE  /\ Fresh(p, in) => Fresh(p, in)' /\ ChangeSeen(p, in)' = ChangeSeen(p, in)
         /\ Fresh(p, in) \/ ~Fresh(p, in)' => StateSeen(p, in)' = StateSeen(p, in)
         /\ Regular(in) /\ ~Fresh(p, in)' => ChangeSeen(p, in)' = ChangeSeen(p, in)
         /\ Regular(in) /\ ~Fresh(p, in) /\ Fresh(p, in)' => ChangeSeen(p, in)' = now
<1>1. /\ in.type = "device" => in.id \in Devices /\ Owner(in.id) \in Processes
      /\ in.type = "control" => in.id \in Controls
      /\ in.type \in {"device", "control"}
  BY SeenTypes
<1>2. CASE UpdateDevices(q)
  <2>1. /\ \A r \in Processes : r # q => dev'[r] = dev[r]
        /\ pc[q] = "devices" /\ pc' = [pc EXCEPT ![q] = "controls"]
        /\ UNCHANGED ctl
        /\ \A d \in Devices :
              IF Here(q, d)
              THEN /\ Owner(d) = q
                   /\ Measured(d, dev[q][d], dev'[q][d], Spot(q, d))
              ELSE dev'[q][d] = dev[q][d]
        /\ \A d \in Devices : ~Devc[d].tied => (Here(q, d) <=> Owner(d) = q)
    BY <1>2, UpdateDevicesIs
  <2>2. \A r \in Processes : pc'[r] = IF r = q THEN "controls" ELSE pc[r]
    BY <2>1 DEF DevicesInv, TypeOK
  <2>3. CASE in.type = "device"
    <3>1. CASE Owner(in.id) # q
      BY <1>1, <2>1, <2>2, <2>3, <3>1 DEF Fresh, StateSeen, ChangeSeen
    <3>2. CASE Owner(in.id) = q /\ ~Here(q, in.id)
      BY <1>1, <2>1, <2>2, <2>3, <3>2 DEF Fresh, StateSeen, ChangeSeen, Regular
    <3>3. CASE Owner(in.id) = q /\ Here(q, in.id)
      <4>1. Measured(in.id, dev[q][in.id], dev'[q][in.id], Spot(q, in.id))
        BY <1>1, <2>1, <2>3, <3>3
      <4> QED BY <1>1, <2>1, <2>2, <2>3, <3>3, <4>1
              DEF Fresh, StateSeen, ChangeSeen, Measured
    <3> QED BY <3>1, <3>2, <3>3
  <2>4. CASE in.type = "control"
    BY <1>1, <2>1, <2>2, <2>4 DEF Fresh, StateSeen, ChangeSeen
  <2> QED BY <1>1, <2>3, <2>4
<1>3. CASE UpdateControls(q)
  <2>1. /\ \A r \in Processes : r # q => ctl'[r] = ctl[r]
        /\ pc[q] = "controls" /\ pc' = [pc EXCEPT ![q] = "exchange"]
        /\ UNCHANGED <<now, dev>>
        /\ \A c \in Controls :
              /\ ctl'[q][c].prior = ctl[q][c].current
              /\ ctl'[q][c].tChange = IF ctl'[q][c].current # ctl[q][c].current
                                      THEN now ELSE ctl[q][c].tChange
    BY <1>3, UpdateControlsIs
  <2>2. \A r \in Processes : pc'[r] = IF r = q THEN "exchange" ELSE pc[r]
    BY <2>1 DEF DevicesInv, TypeOK
  <2>3. CASE in.type = "device"
    BY <1>1, <2>1, <2>2, <2>3 DEF Fresh, StateSeen, ChangeSeen
  <2>4. CASE in.type = "control"
    <3>1. CASE p # q
      BY <1>1, <2>1, <2>2, <2>4, <3>1 DEF Fresh, StateSeen, ChangeSeen
    <3>2. CASE p = q
      BY <1>1, <2>1, <2>2, <2>4, <3>2 DEF Fresh, StateSeen, ChangeSeen
    <3> QED BY <3>1, <3>2
  <2> QED BY <1>1, <2>3, <2>4
<1> QED BY <1>2, <1>3

(* The exchange and OPEN_AND_CLOSE leave what is seen as it is.              *)
LEMMA ActSeen ==
  ASSUME DevicesInv, NEW p \in Processes, NEW in \in Inputs,
         DumpGlobalOutputs \/ (\E q \in Processes : OpenAndClose(q)) \/ UNCHANGED vars
  PROVE  /\ Fresh(p, in)' <=> Fresh(p, in)
         /\ StateSeen(p, in)' = StateSeen(p, in)
         /\ ChangeSeen(p, in)' = ChangeSeen(p, in)
<1>1. /\ in.type = "device" => in.id \in Devices /\ Owner(in.id) \in Processes
      /\ in.type = "control" => in.id \in Controls
      /\ in.type \in {"device", "control"}
  BY SeenTypes
<1>2. CASE DumpGlobalOutputs
  <2>1. /\ \A q \in Processes : pc[q] = "exchange" /\ pc'[q] \notin {"devices", "controls"}
        /\ UNCHANGED ctl
    BY <1>2 DEF DumpGlobalOutputs
  <2>2. \A d \in Devices : /\ dev'[Owner(d)][d].current = dev[Owner(d)][d].current
                           /\ dev'[Owner(d)][d].prior = dev[Owner(d)][d].prior
                           /\ dev'[Owner(d)][d].tChange = dev[Owner(d)][d].tChange
    <3> SUFFICES ASSUME NEW d \in Devices
                 PROVE  /\ dev'[Owner(d)][d].current = dev[Owner(d)][d].current
                        /\ dev'[Owner(d)][d].prior = dev[Owner(d)][d].prior
                        /\ dev'[Owner(d)][d].tChange = dev[Owner(d)][d].tChange
      OBVIOUS
    <3>1. dev'[Owner(d)][d] = [current |-> dev[Owner(d)][d].current,
                               prior   |-> dev[Owner(d)][d].prior,
                               tChange |-> dev[Owner(d)][d].tChange,
                               mesh    |-> dev[Owner(d)][d].mesh]
      BY <1>2, OwnerIs, ExchangeIs DEF DevicesInv
    <3> QED BY <3>1
  <2> QED BY <1>1, <2>1, <2>2 DEF Fresh, StateSeen, ChangeSeen
<1>3. ASSUME NEW q \in Processes, OpenAndClose(q)
      PROVE  /\ Fresh(p, in)' <=> Fresh(p, in)
             /\ StateSeen(p, in)' = StateSeen(p, in)
             /\ ChangeSeen(p, in)' = ChangeSeen(p, in)
  <2>1. /\ UNCHANGED <<dev, ctl>> /\ pc[q] \in {"first", "open"}
        /\ pc' = [pc EXCEPT ![q] = IF pc[q] = "first" THEN "open" ELSE "particles"]
    BY <1>3 DEF OpenAndClose, Goes
  <2>2. \A r \in Processes :
          /\ pc[r] = "devices" <=> pc'[r] = "devices"
          /\ pc[r] \in {"devices", "controls"} <=> pc'[r] \in {"devices", "controls"}
    BY <2>1 DEF DevicesInv, TypeOK
  <2> QED BY <1>1, <2>1, <2>2 DEF Fresh, StateSeen, ChangeSeen
<1>4. CASE UNCHANGED vars
  BY <1>4 DEF vars, Fresh, StateSeen, ChangeSeen
<1> QED BY <1>2, <1>3, <1>4

(* At the start of a step nothing is fresh.                                  *)
LEMMA CorrectorSeen ==
  ASSUME DevicesInv, NEW p \in Processes, NEW in \in Inputs, Corrector
  PROVE  /\ ~Fresh(p, in)'
         /\ StateSeen(p, in)' = StateSeen(p, in)
         /\ ChangeSeen(p, in)' = ChangeSeen(p, in)
<1>1. /\ in.type = "device" => in.id \in Devices /\ Owner(in.id) \in Processes
      /\ in.type = "control" => in.id \in Controls
      /\ in.type \in {"device", "control"}
  BY SeenTypes
<1>2. UNCHANGED <<dev, ctl>> /\ \A q \in Processes : pc'[q] = "devices"
  BY DEF Corrector
<1> QED BY <1>1, <1>2 DEF Fresh, StateSeen, ChangeSeen

(* After the exchange the copies of p show what is seen.                     *)
LEMMA ActingSees ==
  ASSUME DevicesInv, NEW p \in Processes, NEW in \in Inputs, pc[p] \in Acting
  PROVE  /\ On(dev[p], ctl[p], in) <=> StateSeen(p, in)
         /\ Edge(dev[p], ctl[p], in) <=> Fresh(p, in)
<1>1. /\ in.type = "device" => in.id \in Devices /\ Owner(in.id) \in Processes
      /\ in.type = "control" => in.id \in Controls
      /\ in.type \in {"device", "control"}
  BY SeenTypes
<1>2. \A q \in Processes : pc[q] \in Acting /\ pc[q] \notin Updating
  <2>1. \A q \in Processes : pc[q] \in Acting
    BY Together DEF DevicesInv
  <2> QED BY <2>1 DEF Acting, Updating
<1>3. CASE in.type = "device"
  <2>1. /\ dev[p][in.id].current = dev[Owner(in.id)][in.id].current
        /\ dev[p][in.id].prior = dev[Owner(in.id)][in.id].prior
    BY <1>1, <1>2, <1>3 DEF DevicesInv, Exchanged
  <2> QED BY <1>1, <1>2, <1>3, <2>1 DEF On, Edge, StateSeen, Fresh, Acting
<1>4. CASE in.type = "control"
  BY <1>1, <1>2, <1>4 DEF On, Edge, StateSeen, Fresh, Acting
<1> QED BY <1>1, <1>3, <1>4

-----------------------------------------------------------------------------
(* Obstructions and holes                                                    *)

(* What the states say, without what has burnt.                              *)
Hides(p, ob) ==
  IF ob.hole THEN \/ StateSeen(p, ob.input)
                  \/ ob.parent # NoInput /\ ~StateSeen(p, ob.parent)
  ELSE ~StateSeen(p, ob.input)

(* OPEN_AND_CLOSE may leave a part alone.                                    *)
Idle(p, ob) ==
  /\ ~Fresh(p, ob.input)
  /\ ob.hole /\ ob.parent # NoInput => StateSeen(p, ob.input) \/ ~Fresh(p, ob.parent)

(* Outside OPEN_AND_CLOSE a part is as it should be, unless it will be       *)
(* touched.  Nothing is said of the time before the first call.              *)
PartInv(o, ob, p) ==
  /\ pc[p] = "particles" => (hidden[o] <=> o \in burnt \/ Hides(p, ob))
  /\ (now > 0 \/ pc[p] = "open") /\ o \notin burnt /\ Idle(p, ob) =>
       (hidden[o] <=> Hides(p, ob))

(* Of all parts, each on the process of its mesh.                            *)
PartsInv == \A o \in DOMAIN Obst : PartInv(o, Obst[o], Process[Obst[o].mesh])

(* What a part is, and where.                                                *)
LEMMA PartIs ==
  ASSUME NEW o \in DOMAIN Obst
  PROVE  /\ Process[Obst[o].mesh] \in Processes
         /\ Obst[o].input \in Inputs
         /\ Obst[o].parent \in Inputs \cup {NoInput}
         /\ Obst[o].hole \in BOOLEAN
BY DeviceControlAssumption DEF Processes

(* While devices and controls are updated.                                   *)
LEMMA UpdatePart ==
  ASSUME DevicesInv, NEW o \in DOMAIN Obst, NEW ob, ob = Obst[o],
         NEW p \in Processes, p = Process[ob.mesh], PartInv(o, ob, p),
         NEW q \in Processes, UpdateDevices(q) \/ UpdateControls(q)
  PROVE  PartInv(o, ob, p)'
<1>1. /\ ob.input \in Inputs
      /\ ob.parent # NoInput => ob.parent \in Inputs
  BY PartIs
<1>2. UNCHANGED <<now, hidden, burnt>>
  BY DEF UpdateDevices, UpdateControls
<1>3. /\ pc'[p] # "particles" /\ pc'[p] # "open"
  <2>1. pc[q] \in Updating /\ pc[p] \in Updating
    <3>1. pc[q] \in Updating
      BY DEF UpdateDevices, UpdateControls, Updating
    <3> QED BY <3>1, Together DEF DevicesInv
  <2>2. pc' = [pc EXCEPT ![q] = "controls"] \/ pc' = [pc EXCEPT ![q] = "exchange"]
    BY DEF UpdateDevices, UpdateControls, Goes
  <2> QED BY <2>1, <2>2 DEF Updating, DevicesInv, TypeOK
<1>4. /\ Fresh(p, ob.input) => Fresh(p, ob.input)'
      /\ Fresh(p, ob.input) \/ ~Fresh(p, ob.input)' =>
           StateSeen(p, ob.input)' = StateSeen(p, ob.input)
  BY <1>1, UpdateSeen
<1>5. ob.parent # NoInput =>
        /\ Fresh(p, ob.parent) => Fresh(p, ob.parent)'
        /\ Fresh(p, ob.parent) \/ ~Fresh(p, ob.parent)' =>
             StateSeen(p, ob.parent)' = StateSeen(p, ob.parent)
  BY <1>1, UpdateSeen
<1>6. ASSUME Idle(p, ob)'
      PROVE  Idle(p, ob) /\ (Hides(p, ob)' <=> Hides(p, ob))
  BY <1>4, <1>5, <1>6 DEF Idle, Hides
<1> QED BY <1>2, <1>3, <1>6 DEF PartInv

(* The exchange, and OPEN_AND_CLOSE of another process.                      *)
LEMMA OtherPart ==
  ASSUME DevicesInv, NEW o \in DOMAIN Obst, NEW ob, ob = Obst[o],
         NEW p \in Processes, p = Process[ob.mesh], PartInv(o, ob, p),
         \/ DumpGlobalOutputs
         \/ \E q \in Processes \ {p} : OpenAndClose(q)
         \/ UNCHANGED vars
  PROVE  PartInv(o, ob, p)'
<1>1. /\ ob.input \in Inputs
      /\ ob.parent # NoInput => ob.parent \in Inputs
  BY PartIs
<1>2. UNCHANGED <<now, burnt>> /\ hidden'[o] = hidden[o]
  <2>1. ASSUME NEW q \in Processes \ {p}, OpenAndClose(q)
        PROVE  hidden'[o] = hidden[o]
    BY <2>1 DEF OpenAndClose, OpenObst
  <2> QED BY <2>1 DEF DumpGlobalOutputs, OpenAndClose, vars
<1>3. /\ pc'[p] = "particles" => pc[p] = "particles"
      /\ pc'[p] = "open" => pc[p] = "open" \/ now > 0
  <2>1. CASE DumpGlobalOutputs
    <3>1. pc'[p] = IF now = 0 THEN "first" ELSE IF now < MaxT THEN "open" ELSE "over"
      BY <2>1 DEF DumpGlobalOutputs
    <3> QED BY <3>1 DEF DevicesInv, TypeOK, Times
  <2>2. ASSUME NEW q \in Processes \ {p}, OpenAndClose(q)
        PROVE  pc'[p] = pc[p]
    BY <2>2 DEF OpenAndClose, Goes, DevicesInv, TypeOK
  <2> QED BY <2>1, <2>2 DEF vars
<1>4. \A in \in Inputs : /\ Fresh(p, in)' <=> Fresh(p, in)
                         /\ StateSeen(p, in)' = StateSeen(p, in)
  BY ActSeen
<1>5. (Idle(p, ob)' <=> Idle(p, ob)) /\ (Hides(p, ob)' <=> Hides(p, ob))
  BY <1>1, <1>4 DEF Idle, Hides
<1> QED BY <1>2, <1>3, <1>5 DEF PartInv

(* OPEN_AND_CLOSE of the process that has the part.                          *)
LEMMA OpenPart ==
  ASSUME DevicesInv, NEW o \in DOMAIN Obst, NEW ob, ob = Obst[o],
         NEW p \in Processes, p = Process[ob.mesh], PartInv(o, ob, p), OpenAndClose(p)
  PROVE  PartInv(o, ob, p)'
<1>1. /\ ob.input \in Inputs /\ ob.hole \in BOOLEAN
      /\ ob.parent # NoInput => ob.parent \in Inputs
  BY PartIs
<1>2. UNCHANGED <<now, burnt>> /\ pc[p] \in {"first", "open"}
  BY DEF OpenAndClose
<1>3. hidden'[o] = IF o \in burnt THEN TRUE
                   ELSE IF pc[p] = "first" \/ Acts(p, ob) THEN ~Shows(p, ob)
                   ELSE hidden[o]
  BY DEF OpenAndClose, OpenObst
<1>4. \A in \in Inputs : /\ On(dev[p], ctl[p], in) <=> StateSeen(p, in)
                         /\ Edge(dev[p], ctl[p], in) <=> Fresh(p, in)
  BY <1>2, ActingSees DEF Acting
<1>5. Shows(p, ob) <=> ~Hides(p, ob)
  BY <1>1, <1>4 DEF Shows, Hides
<1>6. ~Acts(p, ob) => Idle(p, ob)
  BY <1>1, <1>4 DEF Acts, Idle
<1>7. o \notin burnt => (hidden'[o] <=> Hides(p, ob))
  <2>1. CASE o \notin burnt /\ (pc[p] = "first" \/ Acts(p, ob))
    <3>1. hidden'[o] <=> ~Shows(p, ob)
      BY <1>3, <2>1
    <3> QED BY <1>5, <3>1
  <2>2. CASE o \notin burnt /\ ~(pc[p] = "first" \/ Acts(p, ob))
    <3>1. hidden'[o] = hidden[o] /\ pc[p] = "open" /\ Idle(p, ob)
      BY <1>2, <1>3, <1>6, <2>2
    <3> QED BY <2>2, <3>1 DEF PartInv
  <2> QED BY <2>1, <2>2
<1>8. o \in burnt => hidden'[o]
  BY <1>3
<1>9. Hides(p, ob)' <=> Hides(p, ob)
  <2>1. \A in \in Inputs : StateSeen(p, in)' = StateSeen(p, in)
    BY ActSeen
  <2> QED BY <1>1, <2>1 DEF Hides
<1> QED BY <1>2, <1>7, <1>8, <1>9 DEF PartInv

(* The corrector, which may burn the part.                                   *)
LEMMA CorrectorPart ==
  ASSUME DevicesInv, NEW o \in DOMAIN Obst, NEW ob, ob = Obst[o],
         NEW p \in Processes, p = Process[ob.mesh], PartInv(o, ob, p), Corrector
  PROVE  PartInv(o, ob, p)'
<1>1. /\ ob.input \in Inputs
      /\ ob.parent # NoInput => ob.parent \in Inputs
  BY PartIs
<1>2. /\ hidden' = hidden /\ burnt \subseteq burnt'
      /\ pc[p] = "particles" /\ pc'[p] = "devices"
  BY DEF Corrector
<1>3. \A in \in Inputs : StateSeen(p, in)' = StateSeen(p, in)
  BY CorrectorSeen
<1>4. Hides(p, ob)' <=> Hides(p, ob)
  BY <1>1, <1>3 DEF Hides
<1> QED BY <1>2, <1>4 DEF PartInv

(* Nothing is said of a part before the first call.                          *)
LEMMA PartsInit == Init => PartsInv
<1> SUFFICES ASSUME Init, NEW o \in DOMAIN Obst
             PROVE  PartInv(o, Obst[o], Process[Obst[o].mesh])
  BY DEF PartsInv
<1>1. now = 0 /\ pc[Process[Obst[o].mesh]] = "devices"
  BY PartIs DEF Init
<1> QED BY <1>1 DEF PartInv

(* PartsInv is inductive on top of DevicesInv.                               *)
LEMMA PartsStep == DevicesInv /\ PartsInv /\ [Next]_vars => PartsInv'
<1> SUFFICES ASSUME DevicesInv, PartsInv, [Next]_vars, NEW o \in DOMAIN Obst
             PROVE  PartInv(o, Obst[o], Process[Obst[o].mesh])'
  BY DEF PartsInv
<1> DEFINE ob == Obst[o]
           p == Process[ob.mesh]
<1>1. p \in Processes /\ PartInv(o, ob, p)
  BY PartIs DEF PartsInv
<1>2. ASSUME NEW q \in Processes, UpdateDevices(q) \/ UpdateControls(q)
      PROVE  PartInv(o, ob, p)'
  BY <1>1, <1>2, UpdatePart
<1>3. ASSUME NEW q \in Processes, OpenAndClose(q)
      PROVE  PartInv(o, ob, p)'
  BY <1>1, <1>3, OpenPart, OtherPart
<1>4. CASE DumpGlobalOutputs \/ UNCHANGED vars
  BY <1>1, <1>4, OtherPart
<1>5. CASE Corrector
  BY <1>1, <1>5, CorrectorPart
<1> QED BY <1>2, <1>3, <1>4, <1>5 DEF Next, Finished

(* Every obstruction and hole is as the owners of the devices and the        *)
(* controls of its process say when the process has opened and closed.       *)
THEOREM PartsAlwaysFollow ==
  ASSUME TiedOnFirst
  PROVE  Spec => []PartsFollow
<1>1. DevicesInv /\ PartsInv => PartsFollow
  <2> SUFFICES ASSUME DevicesInv, PartsInv, NEW o \in DOMAIN Obst,
                      pc[Process[Obst[o].mesh]] = "particles"
               PROVE  hidden[o] =
                        \/ o \in burnt
                        \/ ~Obst[o].hole /\ ~StateSeen(Process[Obst[o].mesh], Obst[o].input)
                        \/ Obst[o].hole /\ StateSeen(Process[Obst[o].mesh], Obst[o].input)
                        \/ /\ Obst[o].hole /\ Obst[o].parent # NoInput
                           /\ ~StateSeen(Process[Obst[o].mesh], Obst[o].parent)
    BY DEF PartsFollow
  <2>1. hidden[o] \in BOOLEAN
    BY DEF DevicesInv, TypeOK
  <2>2. hidden[o] <=> o \in burnt \/ Hides(Process[Obst[o].mesh], Obst[o])
    BY DEF PartsInv, PartInv
  <2>3. Obst[o].hole \in BOOLEAN
    BY PartIs
  <2> QED BY <2>1, <2>2, <2>3 DEF Hides
<1>2. Spec => []PartsInv
  <2>1. DevicesInv /\ PartsInv /\ [Next]_vars => PartsInv'
    BY PartsStep
  <2> QED BY PartsInit, <2>1, DevicesHold, PTL DEF Spec
<1> QED BY <1>1, <1>2, DevicesHold, PTL

-----------------------------------------------------------------------------
(* Vents                                                                     *)

(* A vent is open or closed, and since the right moment.                     *)
VentRight(v, in, p) ==
  /\ vent[v].open <=> StateSeen(p, in)
  /\ vent[v].tIgn = IF ~StateSeen(p, in) THEN Never
                    ELSE IF ChangeSeen(p, in) >= Never THEN 0
                    ELSE ChangeSeen(p, in) + 1

(* It is, unless its input has just changed: then OPEN_AND_CLOSE will see    *)
(* the edge in this step.                                                    *)
VentInv(v, in, p) ==
  Regular(in) =>
    /\ ~Fresh(p, in) \/ pc[p] = "particles" => VentRight(v, in, p)
    /\ Fresh(p, in) => ChangeSeen(p, in) = now

(* Of all vents, each on the process of its mesh.                            *)
VentsInv == \A v \in DOMAIN Vent : VentInv(v, Vent[v].input, Process[Vent[v].mesh])

(* Never is later than any step of the run.                                  *)
LEMMA NeverIs == Never \in Int /\ 10 * Never >= Never /\ MaxT < Never
<1>1. Never \in Int /\ 10 * Never >= Never
  BY SMT DEF Never
<1>2. MaxT \in 1..(Never - 1)
  BY DeviceControlAssumption
<1> QED BY <1>1, <1>2

(* What a vent is, and where.                                                *)
LEMMA VentIs ==
  ASSUME NEW v \in DOMAIN Vent
  PROVE  Process[Vent[v].mesh] \in Processes /\ Vent[v].input \in Inputs
BY DeviceControlAssumption DEF Processes

(* READ_VENT opens a vent by the initial state of its input.                 *)
LEMMA VentsInit ==
  ASSUME TiedOnFirst
  PROVE  Init => VentsInv
<1> SUFFICES ASSUME Init, NEW v \in DOMAIN Vent
             PROVE  VentInv(v, Vent[v].input, Process[Vent[v].mesh])
  BY DEF VentsInv
<1> DEFINE in == Vent[v].input
           p == Process[Vent[v].mesh]
<1>1. p \in Processes /\ in \in Inputs
  BY VentIs
<1> HIDE DEF p, in
<1>2. DevicesInv
  BY DevicesInit
<1>3. /\ in.type = "device" => in.id \in Devices /\ Owner(in.id) \in Processes
      /\ in.type = "control" => in.id \in Controls
      /\ in.type \in {"device", "control"}
  BY <1>1, <1>2, SeenTypes
<1>4. /\ vent[v].open = Initially(in)
      /\ vent[v].tIgn = IF Initially(in) THEN 0 ELSE Never
  BY DEF Init, in
<1>5. CASE in.type = "device"
  <2>1. /\ dev[Owner(in.id)][in.id].current = Devc[in.id].initial
        /\ dev[Owner(in.id)][in.id].tChange = 10 * Never
        /\ pc[Owner(in.id)] = "devices"
    BY <1>3, <1>5 DEF Init
  <2>2. /\ ~Fresh(p, in) /\ StateSeen(p, in) = Initially(in)
        /\ ChangeSeen(p, in) >= Never
    BY <1>5, <2>1, NeverIs DEF Fresh, StateSeen, ChangeSeen, Initially
  <2>3. vent[v].open <=> StateSeen(p, in)
    BY <1>4, <2>2
  <2>4. vent[v].tIgn = IF StateSeen(p, in) THEN 0 ELSE Never
    BY <1>4, <2>2
  <2>5. VentRight(v, in, p)
    <3>1. CASE StateSeen(p, in)
      BY <2>2, <2>3, <2>4, <3>1 DEF VentRight
    <3>2. CASE ~StateSeen(p, in)
      BY <2>3, <2>4, <3>2 DEF VentRight
    <3> QED BY <3>1, <3>2
  <2> QED BY <2>2, <2>5 DEF VentInv, in, p
<1>6. CASE in.type = "control"
  <2>1. /\ ctl[p][in.id].current = Ctrl[in.id].initial
        /\ ctl[p][in.id].tChange = Never
        /\ pc[p] = "devices"
    BY <1>1, <1>3, <1>6 DEF Init
  <2>2. /\ ~Fresh(p, in) /\ StateSeen(p, in) = Initially(in)
        /\ ChangeSeen(p, in) >= Never
    BY <1>6, <2>1, NeverIs DEF Fresh, StateSeen, ChangeSeen, Initially
  <2>3. vent[v].open <=> StateSeen(p, in)
    BY <1>4, <2>2
  <2>4. vent[v].tIgn = IF StateSeen(p, in) THEN 0 ELSE Never
    BY <1>4, <2>2
  <2>5. VentRight(v, in, p)
    <3>1. CASE StateSeen(p, in)
      BY <2>2, <2>3, <2>4, <3>1 DEF VentRight
    <3>2. CASE ~StateSeen(p, in)
      BY <2>3, <2>4, <3>2 DEF VentRight
    <3> QED BY <3>1, <3>2
  <2> QED BY <2>2, <2>5 DEF VentInv, in, p
<1> QED BY <1>3, <1>5, <1>6 DEF in, p

(* While devices and controls are updated.                                   *)
LEMMA UpdateVent ==
  ASSUME DevicesInv, NEW v \in DOMAIN Vent, NEW in \in Inputs, NEW p \in Processes,
         VentInv(v, in, p), NEW q \in Processes, UpdateDevices(q) \/ UpdateControls(q)
  PROVE  VentInv(v, in, p)'
<1>1. UNCHANGED <<now, vent>>
  BY DEF UpdateDevices, UpdateControls
<1>2. pc'[p] # "particles"
  <2>1. pc[q] \in Updating /\ pc[p] \in Updating
    <3>1. pc[q] \in Updating
      BY DEF UpdateDevices, UpdateControls, Updating
    <3> QED BY <3>1, Together DEF DevicesInv
  <2>2. pc' = [pc EXCEPT ![q] = "controls"] \/ pc' = [pc EXCEPT ![q] = "exchange"]
    BY DEF UpdateDevices, UpdateControls, Goes
  <2> QED BY <2>1, <2>2 DEF Updating, DevicesInv, TypeOK
<1>3. /\ Fresh(p, in) => Fresh(p, in)' /\ ChangeSeen(p, in)' = ChangeSeen(p, in)
      /\ Fresh(p, in) \/ ~Fresh(p, in)' => StateSeen(p, in)' = StateSeen(p, in)
      /\ Regular(in) /\ ~Fresh(p, in)' => ChangeSeen(p, in)' = ChangeSeen(p, in)
      /\ Regular(in) /\ ~Fresh(p, in) /\ Fresh(p, in)' => ChangeSeen(p, in)' = now
  BY UpdateSeen
<1>4. Regular(in)' <=> Regular(in)
  BY DEF Regular
<1>5. ASSUME Regular(in), ~Fresh(p, in)'
      PROVE  VentRight(v, in, p)'
  BY <1>1, <1>3, <1>5 DEF VentInv, VentRight
<1>6. ASSUME Regular(in), Fresh(p, in)'
      PROVE  ChangeSeen(p, in)' = now'
  BY <1>1, <1>3, <1>6 DEF VentInv
<1> QED BY <1>2, <1>4, <1>5, <1>6 DEF VentInv

(* The exchange, and OPEN_AND_CLOSE of another process.                      *)
LEMMA OtherVent ==
  ASSUME DevicesInv, NEW v \in DOMAIN Vent, NEW in \in Inputs, NEW p \in Processes,
         p = Process[Vent[v].mesh], VentInv(v, in, p),
         \/ DumpGlobalOutputs
         \/ \E q \in Processes \ {p} : OpenAndClose(q)
         \/ UNCHANGED vars
  PROVE  VentInv(v, in, p)'
<1>1. now' = now /\ vent'[v] = vent[v]
  <2>1. ASSUME NEW q \in Processes \ {p}, OpenAndClose(q)
        PROVE  vent'[v] = vent[v]
    BY <2>1 DEF OpenAndClose, OpenVents
  <2> QED BY <2>1 DEF DumpGlobalOutputs, OpenAndClose, vars
<1>2. pc'[p] = "particles" => pc[p] = "particles"
  <2>1. CASE DumpGlobalOutputs
    <3>1. pc'[p] = IF now = 0 THEN "first" ELSE IF now < MaxT THEN "open" ELSE "over"
      BY <2>1 DEF DumpGlobalOutputs
    <3> QED BY <3>1
  <2>2. ASSUME NEW q \in Processes \ {p}, OpenAndClose(q)
        PROVE  pc'[p] = pc[p]
    BY <2>2 DEF OpenAndClose, Goes, DevicesInv, TypeOK
  <2> QED BY <2>1, <2>2 DEF vars
<1>3. /\ Fresh(p, in)' <=> Fresh(p, in)
      /\ StateSeen(p, in)' = StateSeen(p, in)
      /\ ChangeSeen(p, in)' = ChangeSeen(p, in)
  BY ActSeen
<1>4. (Regular(in)' <=> Regular(in)) /\ (VentRight(v, in, p)' <=> VentRight(v, in, p))
  BY <1>1, <1>3 DEF Regular, VentRight
<1> QED BY <1>1, <1>2, <1>3, <1>4 DEF VentInv

(* OPEN_AND_CLOSE of the process that has the vent.                          *)
LEMMA OpenVent ==
  ASSUME DevicesInv, NEW v \in DOMAIN Vent, NEW in \in Inputs, in = Vent[v].input,
         NEW p \in Processes, p = Process[Vent[v].mesh], VentInv(v, in, p),
         OpenAndClose(p)
  PROVE  VentInv(v, in, p)'
<1> SUFFICES ASSUME Regular(in)
             PROVE  /\ ~Fresh(p, in)' \/ pc'[p] = "particles" => VentRight(v, in, p)'
                    /\ Fresh(p, in)' => ChangeSeen(p, in)' = now'
  BY DEF VentInv, Regular
<1>1. /\ now' = now /\ pc[p] \in {"first", "open"}
      /\ pc'[p] = IF pc[p] = "first" THEN "open" ELSE "particles"
  BY DEF OpenAndClose, Goes, DevicesInv, TypeOK
<1>2. /\ Fresh(p, in)' <=> Fresh(p, in)
      /\ StateSeen(p, in)' = StateSeen(p, in)
      /\ ChangeSeen(p, in)' = ChangeSeen(p, in)
  BY ActSeen
<1>3. /\ On(dev[p], ctl[p], in) <=> StateSeen(p, in)
      /\ Edge(dev[p], ctl[p], in) <=> Fresh(p, in)
  BY <1>1, ActingSees DEF Acting
<1>4. vent'[v] = LET closed == [open |-> FALSE, tIgn |-> Never]
                 IN  IF pc[p] = "first" /\ ~Initially(in) THEN closed
                     ELSE IF ~Edge(dev[p], ctl[p], in) THEN vent[v]
                     ELSE IF On(dev[p], ctl[p], in)
                     THEN [open |-> TRUE, tIgn |-> IF pc[p] = "first" THEN now ELSE now + 1]
                     ELSE closed
  BY DEF OpenAndClose, OpenVents
<1>5. now \in Int /\ now < Never /\ (pc[p] = "first" => now = 0)
  BY NeverIs, DeviceControlAssumption DEF DevicesInv, TypeOK, Times, Clock
<1>6. CASE ~Fresh(p, in)
  <2>1. VentRight(v, in, p)
    BY <1>6 DEF VentInv
  <2>2. CASE pc[p] = "first" /\ ~Initially(in)
    <3>1. ~StateSeen(p, in)
      <4>1. /\ in.type = "device" => in.id \in Devices /\ Owner(in.id) \in Processes
            /\ in.type = "control" => in.id \in Controls
            /\ in.type \in {"device", "control"}
        BY SeenTypes
      <4>2. pc[p] \notin Updating
        BY <2>2 DEF Updating
      <4>3. \A q \in Processes : pc[q] \notin Updating
        BY <4>2, Together DEF DevicesInv
      <4>4. CASE in.type = "device"
        <5>1. /\ dev[Owner(in.id)][in.id].prior = Devc[in.id].initial
              /\ dev[Owner(in.id)][in.id].current = dev[Owner(in.id)][in.id].prior
          BY <1>5, <1>6, <2>2, <4>1, <4>3, <4>4 DEF DevicesInv, AtStart, Fresh, Updating
        <5> QED BY <2>2, <4>4, <5>1 DEF Initially, StateSeen
      <4>5. CASE in.type = "control"
        <5>1. /\ ctl[p][in.id].prior = Ctrl[in.id].initial
              /\ ctl[p][in.id].current = ctl[p][in.id].prior
          BY <1>5, <1>6, <2>2, <4>1, <4>3, <4>5 DEF DevicesInv, AtStart, Fresh, Updating
        <5> QED BY <2>2, <4>5, <5>1 DEF Initially, StateSeen
      <4> QED BY <4>1, <4>4, <4>5
    <3>2. vent'[v].open = FALSE /\ vent'[v].tIgn = Never
      BY <1>4, <2>2
    <3> QED BY <1>2, <1>6, <3>1, <3>2 DEF VentRight
  <2>3. CASE ~(pc[p] = "first" /\ ~Initially(in))
    <3>1. vent'[v] = vent[v]
      BY <1>3, <1>4, <1>6, <2>3
    <3> QED BY <1>2, <1>6, <2>1, <3>1 DEF VentRight
  <2> QED BY <2>2, <2>3
<1>7. CASE Fresh(p, in)
  <2>1. ChangeSeen(p, in) = now
    BY <1>7 DEF VentInv
  <2>2. CASE pc[p] = "first"
    BY <1>1, <1>2, <1>7, <2>1, <2>2
  <2>3. CASE pc[p] = "open" /\ StateSeen(p, in)
    <3>1. vent'[v].open = TRUE /\ vent'[v].tIgn = now + 1
      BY <1>3, <1>4, <1>7, <2>3
    <3>2. ChangeSeen(p, in)' = now /\ StateSeen(p, in)' /\ ~(now >= Never)
      BY <1>2, <1>5, <2>1, <2>3, NeverIs
    <3>3. VentRight(v, in, p)'
      BY <3>1, <3>2 DEF VentRight
    <3> QED BY <1>1, <1>2, <2>1, <3>3
  <2>4. CASE pc[p] = "open" /\ ~StateSeen(p, in)
    <3>1. vent'[v].open = FALSE /\ vent'[v].tIgn = Never
      BY <1>3, <1>4, <1>7, <2>4
    <3> QED BY <1>1, <1>2, <2>1, <2>4, <3>1 DEF VentRight
  <2> QED BY <1>1, <2>2, <2>3, <2>4
<1> QED BY <1>6, <1>7

(* The corrector: the next step has begun, and nothing is fresh.             *)
LEMMA CorrectorVent ==
  ASSUME DevicesInv, NEW v \in DOMAIN Vent, NEW in \in Inputs, NEW p \in Processes,
         VentInv(v, in, p), Corrector
  PROVE  VentInv(v, in, p)'
<1>1. vent' = vent /\ pc[p] = "particles"
  BY DEF Corrector
<1>2. /\ ~Fresh(p, in)'
      /\ StateSeen(p, in)' = StateSeen(p, in)
      /\ ChangeSeen(p, in)' = ChangeSeen(p, in)
  BY CorrectorSeen
<1> QED BY <1>1, <1>2 DEF VentInv, VentRight, Regular

(* VentsInv is inductive on top of DevicesInv.                               *)
LEMMA VentsStep == DevicesInv /\ VentsInv /\ [Next]_vars => VentsInv'
<1> SUFFICES ASSUME DevicesInv, VentsInv, [Next]_vars, NEW v \in DOMAIN Vent
             PROVE  VentInv(v, Vent[v].input, Process[Vent[v].mesh])'
  BY DEF VentsInv
<1> DEFINE in == Vent[v].input
           p == Process[Vent[v].mesh]
<1>1. p \in Processes /\ in \in Inputs /\ VentInv(v, in, p)
  BY VentIs DEF VentsInv
<1>2. ASSUME NEW q \in Processes, UpdateDevices(q) \/ UpdateControls(q)
      PROVE  VentInv(v, in, p)'
  BY <1>1, <1>2, UpdateVent
<1>3. ASSUME NEW q \in Processes, OpenAndClose(q)
      PROVE  VentInv(v, in, p)'
  BY <1>1, <1>3, OpenVent, OtherVent
<1>4. CASE DumpGlobalOutputs \/ UNCHANGED vars
  BY <1>1, <1>4, OtherVent
<1>5. CASE Corrector
  BY <1>1, <1>5, CorrectorVent
<1> QED BY <1>2, <1>3, <1>4, <1>5 DEF Next, Finished

(* A vent opens in the step after its input has changed, and T_IGN stays the *)
(* time of that step.                                                        *)
THEOREM VentsAlwaysActOnce ==
  ASSUME TiedOnFirst
  PROVE  Spec => []VentsActOnce
<1>1. DevicesInv /\ VentsInv => VentsActOnce
  <2> SUFFICES ASSUME DevicesInv, VentsInv, NEW v \in DOMAIN Vent,
                      NEW in, in = Vent[v].input, NEW p, p = Process[Vent[v].mesh],
                      pc[p] = "particles", Regular(in)
               PROVE  /\ vent[v].open = StateSeen(p, in)
                      /\ vent[v].tIgn = IF ~vent[v].open THEN Never
                                        ELSE IF ChangeSeen(p, in) >= Never THEN 0
                                        ELSE ChangeSeen(p, in) + 1
    BY DEF VentsActOnce, ChangeSeen, Regular
  <2>1. p \in Processes /\ in \in Inputs
    BY VentIs
  <2>2. VentRight(v, in, p)
    BY DEF VentsInv, VentInv
  <2>3. StateSeen(p, in) \in BOOLEAN /\ vent[v].open \in BOOLEAN
    BY <2>1, SeenTypes DEF DevicesInv, TypeOK
  <2>4. vent[v].open = StateSeen(p, in)
    BY <2>2, <2>3 DEF VentRight
  <2> QED BY <2>2, <2>4 DEF VentRight
<1>2. Spec => []VentsInv
  <2>1. DevicesInv /\ VentsInv /\ [Next]_vars => VentsInv'
    BY VentsStep
  <2> QED BY VentsInit, <2>1, DevicesHold, PTL DEF Spec
<1> QED BY <1>1, <1>2, DevicesHold, PTL

-----------------------------------------------------------------------------
(* Gates over the devices of one process                                     *)

(* What the inputs of a gate make of it, when the devices and the controls   *)
(* have the states a and s.                                                  *)
GateState(a, s, c) ==
  StateFor(Ctrl[c], GateTrips(Ctrl[c], Cardinality({k \in UsedInputs(Ctrl[c]) :
    LET in == Ctrl[c].inputs[k] IN IF in.type = "device" THEN a[in.id] ELSE s[in.id]})))

(* The states of copies of the devices or the controls.                      *)
States(copy) == [x \in DOMAIN copy |-> copy[x].current]

(* A gate over devices of p, over devices and gates that are.                *)
LEMMA GatesOfAre ==
  ASSUME NEW p, NEW c \in GatesOf(p)
  PROVE  /\ c \in Controls /\ Ctrl[c].kind \in Gates /\ ~Ctrl[c].initial
         /\ \A k \in UsedInputs(Ctrl[c]) :
              LET in == Ctrl[c].inputs[k]
              IN  \/ in.type = "control" /\ in.id \in GatesOf(p)
                  \/ /\ in.type = "device" /\ in.id \in Devices
                     /\ Owner(in.id) = p /\ ~Devc[in.id].initial
<1> DEFINE Solution(f) == f = [i \in Controls |-> FollowsBy(p, f, i)]
           gate == CHOOSE f : Solution(f)
           Body == [g \in [Controls -> BOOLEAN] |-> [i \in Controls |-> FollowsBy(p, g, i)]]
<1>1. LastCtrl \in Nat
  BY DeviceControlAssumption
<1>2. PICK rank \in [Controls -> 0..LastCtrl] :
        \A i \in Controls : \A k \in UsedInputs(Ctrl[i]) :
          /\ Ctrl[i].inputs[k] \in Inputs
          /\ Ctrl[i].inputs[k].type = "control" =>
               /\ Ctrl[i].inputs[k].id \in Controls
               /\ rank[Ctrl[i].inputs[k].id] < rank[i]
  BY ControlRanks
<1>3. \A g, i : FollowsBy(p, g, i) \in BOOLEAN
  BY DEF FollowsBy
<1>4. ASSUME NEW g \in [Controls -> BOOLEAN], NEW h \in [Controls -> BOOLEAN],
             NEW i \in Controls, \A j \in Controls : rank[j] < rank[i] => g[j] = h[j]
      PROVE  FollowsBy(p, g, i) = FollowsBy(p, h, i)
  <2>1. \A k \in UsedInputs(Ctrl[i]) : Ctrl[i].inputs[k].type = "control" =>
          g[Ctrl[i].inputs[k].id] = h[Ctrl[i].inputs[k].id]
    BY <1>2, <1>4
  <2>2. FollowsBy(p, g, i) <=> FollowsBy(p, h, i)
    BY <2>1 DEF FollowsBy
  <2> QED BY <1>3, <2>2
<1>5. Recurses(Controls, BOOLEAN, rank, Body)
  <2>1. Body \in [[Controls -> BOOLEAN] -> [Controls -> BOOLEAN]]
    BY <1>3
  <2>2. \A g \in [Controls -> BOOLEAN] : \A i \in Controls :
          Body[g][i] = FollowsBy(p, g, i)
    OBVIOUS
  <2> HIDE DEF Body
  <2> QED BY <2>1, <2>2, <1>4 DEF Recurses
<1>6. \E f : Solution(f)
  <2>1. \E f \in [Controls -> BOOLEAN] : f = Body[f]
    <3> DEFINE V == BOOLEAN
    <3>1. (\E v : v \in V) /\ Recurses(Controls, V, rank, Body)
      BY <1>5
    <3> HIDE DEF Body, Solution, V
    <3>2. \E f \in [Controls -> V] : f = Body[f]
      BY <1>1, <3>1, FixedPoint
    <3> QED BY <3>2 DEF V
  <2>2. PICK f \in [Controls -> BOOLEAN] : f = Body[f]
    BY <2>1
  <2>3. Body[f] = [i \in Controls |-> FollowsBy(p, f, i)]
    OBVIOUS
  <2> QED BY <2>2, <2>3
<1>7. Solution(gate)
  BY <1>6
<1>8. GatesOf(p) = {i \in Controls : gate[i]}
  BY DEF GatesOf
<1> HIDE DEF gate, Body
<1>9. \A i \in Controls : gate[i] = FollowsBy(p, gate, i)
  BY <1>7
<1>10. c \in Controls /\ FollowsBy(p, gate, c)
  BY <1>8, <1>9
<1>11. ASSUME NEW k \in UsedInputs(Ctrl[c]), NEW in, in = Ctrl[c].inputs[k]
       PROVE  \/ in.type = "control" /\ in.id \in GatesOf(p)
              \/ /\ in.type = "device" /\ in.id \in Devices
                 /\ Owner(in.id) = p /\ ~Devc[in.id].initial
  <2>1. in \in Inputs /\ (in.type = "control" => in.id \in Controls)
    BY <1>2, <1>10, <1>11
  <2>2. IF in.type = "control" THEN gate[in.id]
        ELSE Owner(in.id) = p /\ ~Devc[in.id].initial /\ ~Devc[in.id].tied
    BY <1>10, <1>11 DEF FollowsBy
  <2> QED BY <1>8, <2>1, <2>2 DEF Inputs
<1> QED BY <1>10, <1>11 DEF FollowsBy

(* Equal inputs make equal gates.                                            *)
LEMMA SameGate ==
  ASSUME NEW c \in Controls, NEW a, NEW b, NEW s, NEW t,
         \A k \in UsedInputs(Ctrl[c]) :
           LET in == Ctrl[c].inputs[k]
           IN  IF in.type = "device" THEN a[in.id] <=> b[in.id] ELSE s[in.id] <=> t[in.id]
  PROVE  GateState(a, s, c) <=> GateState(b, t, c)
<1>1. {k \in UsedInputs(Ctrl[c]) :
         LET in == Ctrl[c].inputs[k] IN IF in.type = "device" THEN a[in.id] ELSE s[in.id]}
      = {k \in UsedInputs(Ctrl[c]) :
         LET in == Ctrl[c].inputs[k] IN IF in.type = "device" THEN b[in.id] ELSE t[in.id]}
  OBVIOUS
<1> QED BY <1>1 DEF GateState

(* A gate without a TRUE input is FALSE.                                     *)
LEMMA FalseGate ==
  ASSUME NEW p, NEW c \in GatesOf(p), NEW a, NEW s,
         \A d \in Devices : ~Devc[d].initial => ~a[d],
         \A i \in GatesOf(p) : ~s[i]
  PROVE  ~GateState(a, s, c)
<1>1. {k \in UsedInputs(Ctrl[c]) :
         LET in == Ctrl[c].inputs[k] IN IF in.type = "device" THEN a[in.id] ELSE s[in.id]} = {}
  BY GatesOfAre
<1>2. Cardinality({}) = 0
  BY FS_EmptySet
<1>3. c \in Controls /\ ~Ctrl[c].initial
  BY GatesOfAre
<1>4. Len(Ctrl[c].inputs) \in Nat \ {0} /\ Ctrl[c].kind \in {"AND_GATE", "OR_GATE", "TIME_DELAY"}
  <2>1. /\ Ctrl[c].inputs \in Seq(Inputs) /\ Ctrl[c].inputs # << >>
        /\ Ctrl[c].kind \in {"AND_GATE", "OR_GATE", "TIME_DELAY"}
    BY <1>3, DeviceControlAssumption
  <2> QED BY <2>1
<1>5. ~GateTrips(Ctrl[c], 0)
  BY <1>4 DEF GateTrips
<1> QED BY <1>1, <1>2, <1>3, <1>5 DEF GateState, StateFor

(* UPDATE_CONTROLS evaluates every such gate, but a latched one that is TRUE.*)
LEMMA GateUpdated ==
  ASSUME DevicesInv, NEW q \in Processes, UpdateControls(q), NEW p, NEW c \in GatesOf(p)
  PROVE  ctl'[q][c].current <=>
           \/ Ctrl[c].latch /\ ctl[q][c].current
           \/ GateState(States(dev[q]), States(ctl'[q]), c)
<1>1. c \in Controls /\ Ctrl[c].kind \in Gates /\ ~Ctrl[c].initial
  BY GatesOfAre
<1>2. /\ pc[q] = "controls" /\ ctl' \in [Processes -> ControlCopies]
      /\ \A i \in Controls : ctl'[q][i] = NewControl(q, ctl'[q], i)
  BY UpdateControlsIs
<1>3. PICK new \in ControlCopies : new = ctl'[q]
  BY <1>2
<1>4. new[c] = NewControl(q, new, c)
  BY <1>1, <1>2, <1>3
<1>5. /\ Ctrl[c].initial = FALSE /\ Ctrl[c].latch \in BOOLEAN
      /\ ctl[q][c].current \in BOOLEAN
  BY <1>1, DeviceControlAssumption DEF DevicesInv, TypeOK
<1>6. now = 0 => ~ctl[q][c].current
  BY <1>1, <1>2, <1>5 DEF DevicesInv, AtStart
<1> DEFINE state == [k \in UsedInputs(Ctrl[c]) |-> InputOf(q, new, Ctrl[c].inputs[k]).current]
           change == [k \in UsedInputs(Ctrl[c]) |-> InputOf(q, new, Ctrl[c].inputs[k]).tChange]
<1>7. Evaluated(Ctrl[c], ctl[q][c], state, change) = GateState(States(dev[q]), States(new), c)
  <2>1. \A k \in UsedInputs(Ctrl[c]) :
          state[k] = LET in == Ctrl[c].inputs[k]
                     IN  IF in.type = "device" THEN States(dev[q])[in.id] ELSE States(new)[in.id]
    <3> SUFFICES ASSUME NEW k \in UsedInputs(Ctrl[c]), NEW in, in = Ctrl[c].inputs[k]
                 PROVE  state[k] = IF in.type = "device" THEN States(dev[q])[in.id]
                                                         ELSE States(new)[in.id]
      OBVIOUS
    <3>1. /\ in.type = "device" => in.id \in Devices
          /\ in.type # "device" => in.id \in Controls
      <4>1. in \in Inputs
        BY <1>1, ControlRanks
      <4> QED BY <4>1 DEF Inputs
    <3>2. DOMAIN dev[q] = Devices /\ DOMAIN new = Controls
      BY DEF DevicesInv, TypeOK, ControlCopies
    <3> QED BY <3>1, <3>2 DEF InputOf, States
  <2>2. {k \in DOMAIN state : state[k]} =
        {k \in UsedInputs(Ctrl[c]) :
           LET in == Ctrl[c].inputs[k]
           IN  IF in.type = "device" THEN States(dev[q])[in.id] ELSE States(new)[in.id]}
    <3>1. DOMAIN state = UsedInputs(Ctrl[c])
      OBVIOUS
    <3> HIDE DEF state
    <3> QED BY <2>1, <3>1
  <2>3. Ctrl[c].kind # "TIME_DELAY"
    BY <1>1 DEF Gates
  <2> HIDE DEF state, change
  <2> QED BY <2>2, <2>3 DEF Evaluated, GateState
<1>8. new[c].current = IF Held(Ctrl[c], ctl[q][c].current, now = 0) THEN ctl[q][c].current
                       ELSE Evaluated(Ctrl[c], ctl[q][c], state, change)
  <2>1. Passed(ctl[q][c]).current = ctl[q][c].current
    BY <1>1 DEF Passed, DevicesInv, TypeOK
  <2> QED BY <1>4, <2>1 DEF NewControl
<1> HIDE DEF state, change
<1>9. Held(Ctrl[c], ctl[q][c].current, now = 0) <=> Ctrl[c].latch /\ ctl[q][c].current
  BY <1>5, <1>6 DEF Held
<1> QED BY <1>3, <1>7, <1>8, <1>9

-----------------------------------------------------------------------------
(* The copies of a gate                                                      *)

(* The states of the controls of p one step before.                          *)
Last(p) == [c \in Controls |-> IF pc[p] = "exchange" THEN ctl[p][c].prior
                                                     ELSE ctl[p][c].current]

(* Gates of p on another process q: q gives them the states that they had on *)
(* p one step before, for what q knows of the devices of p are the states of *)
(* that step.                                                                *)
FollowInv(p, q) ==
  \A c \in GatesOf(p) :
    /\ pc[q] = "exchange" => (ctl[q][c].current <=> Last(p)[c])
    /\ pc[q] # "exchange" =>
         (Last(p)[c] <=> \/ Ctrl[c].latch /\ ctl[q][c].current
                         \/ GateState(States(dev[q]), Last(p), c))

(* Gates of p on p itself, from the evaluation to the exchange.              *)
LeadInv(p) ==
  pc[p] = "exchange" =>
    \A c \in GatesOf(p) :
      ctl[p][c].current <=> \/ Ctrl[c].latch /\ ctl[p][c].prior
                            \/ GateState(States(dev[p]), States(ctl[p]), c)

(* The gates of every process, on it and on the others.                      *)
GatesInv ==
  /\ \A p \in Processes : LeadInv(p)
  /\ \A p, q \in Processes : p # q => FollowInv(p, q)

(* Gates of p only depend on the devices of p and on such gates.             *)
LEMMA AgreeingGates ==
  ASSUME NEW p, NEW c \in GatesOf(p), NEW a, NEW b, NEW s, NEW t,
         \A d \in Devices : Owner(d) = p => (a[d] <=> b[d]),
         \A i \in GatesOf(p) : s[i] <=> t[i]
  PROVE  GateState(a, s, c) <=> GateState(b, t, c)
<1>1. \A k \in UsedInputs(Ctrl[c]) :
        LET in == Ctrl[c].inputs[k]
        IN  IF in.type = "device" THEN a[in.id] <=> b[in.id] ELSE s[in.id] <=> t[in.id]
  BY GatesOfAre
<1>2. c \in Controls
  BY GatesOfAre
<1> QED BY <1>1, <1>2, SameGate

(* At the start all gates of a process are FALSE, like their devices.        *)
LEMMA GatesInit ==
  ASSUME TiedOnFirst
  PROVE  Init => GatesInv
<1> SUFFICES ASSUME Init PROVE GatesInv
  OBVIOUS
<1>1. \A p \in Processes : pc[p] = "devices"
  BY DEF Init
<1>2. ASSUME NEW p \in Processes, NEW q \in Processes, NEW c \in GatesOf(p)
      PROVE  /\ ~Last(p)[c] /\ ~ctl[q][c].current
             /\ ~GateState(States(dev[q]), Last(p), c)
  <2>1. \A r \in Processes : \A i \in GatesOf(p) : i \in Controls /\ ~ctl[r][i].current
    <3>1. \A i \in GatesOf(p) : i \in Controls /\ ~Ctrl[i].initial
      BY GatesOfAre
    <3> QED BY <3>1 DEF Init
  <2>2. \A i \in GatesOf(p) : ~Last(p)[i]
    BY <1>1, <2>1 DEF Last
  <2>3. \A d \in Devices : ~Devc[d].initial => ~States(dev[q])[d]
    BY DEF Init, States
  <2>4. ~GateState(States(dev[q]), Last(p), c)
    <3>1. PICK a, s : a = States(dev[q]) /\ s = Last(p)
      OBVIOUS
    <3>2. ~GateState(a, s, c)
      BY <2>2, <2>3, <3>1, FalseGate
    <3> QED BY <3>1, <3>2
  <2> QED BY <2>1, <2>2, <2>4
<1>3. \A p, q \in Processes : FollowInv(p, q)
  BY <1>1, <1>2 DEF FollowInv
<1> QED BY <1>1, <1>3 DEF GatesInv, LeadInv

(* UPDATE_DEVICES of any process.                                            *)
LEMMA UpdateDevicesGates ==
  ASSUME DevicesInv, GatesInv, NEW r \in Processes, UpdateDevices(r)
  PROVE  GatesInv'
<1>1. /\ \A q \in Processes : q # r => dev'[q] = dev[q]
      /\ pc[r] = "devices" /\ pc' = [pc EXCEPT ![r] = "controls"]
      /\ ctl' = ctl /\ dev' \in [Processes -> Copies]
      /\ \A d \in Devices : Owner(d) # r => dev'[r][d] = dev[r][d]
  BY UpdateDevicesIs
<1>2. \A q \in Processes : /\ pc'[q] = "exchange" <=> pc[q] = "exchange"
                           /\ pc[q] = "exchange" => q # r
  BY <1>1 DEF DevicesInv, TypeOK
<1>3. \A q \in Processes : DOMAIN dev[q] = Devices /\ DOMAIN dev'[q] = Devices
  BY <1>1 DEF DevicesInv, TypeOK, Copies
<1>4. \A q \in Processes : Last(q)' = Last(q)
  BY <1>1, <1>2 DEF Last
<1>5. ASSUME NEW p \in Processes PROVE LeadInv(p)'
  <2> SUFFICES ASSUME pc'[p] = "exchange" PROVE LeadInv(p)'
    BY DEF LeadInv
  <2>1. p # r /\ dev'[p] = dev[p] /\ ctl'[p] = ctl[p] /\ LeadInv(p)
    BY <1>1, <1>2 DEF GatesInv
  <2> QED BY <1>2, <2>1 DEF LeadInv
<1>6. ASSUME NEW p \in Processes, NEW q \in Processes, p # q PROVE FollowInv(p, q)'
  <2>1. FollowInv(p, q)
    BY <1>6 DEF GatesInv
  <2> SUFFICES ASSUME NEW c \in GatesOf(p), NEW L, L = Last(p)
               PROVE  /\ pc[q] = "exchange" => (ctl[q][c].current <=> L[c])
                      /\ pc[q] # "exchange" =>
                           (L[c] <=> \/ Ctrl[c].latch /\ ctl[q][c].current
                                     \/ GateState(States(dev'[q]), L, c))
    BY <1>1, <1>2, <1>4 DEF FollowInv
  <2>2. GateState(States(dev'[q]), L, c) <=> GateState(States(dev[q]), L, c)
    <3>1. PICK a, b : a = States(dev'[q]) /\ b = States(dev[q])
      OBVIOUS
    <3>2. \A d \in Devices : Owner(d) = p => (a[d] <=> b[d])
      BY <1>1, <1>3, <1>6, <3>1 DEF States
    <3>3. GateState(a, L, c) <=> GateState(b, L, c)
      BY <3>2, AgreeingGates
    <3> QED BY <3>1, <3>3
  <2> QED BY <2>1, <2>2 DEF FollowInv
<1> QED BY <1>5, <1>6 DEF GatesInv

(* The controls are evaluated in the order of their ranks, whatever the      *)
(* order of their declarations.                                              *)
LEMMA UpdateFollows ==
  ASSUME DevicesInv, NEW p \in Processes, NEW q \in Processes, p # q,
         FollowInv(p, q), UpdateControls(q), NEW c \in GatesOf(p)
  PROVE  ctl'[q][c].current <=> Last(p)[c]
<1>1. PICK rank \in [Controls -> 0..LastCtrl] :
        \A i \in Controls : \A k \in UsedInputs(Ctrl[i]) :
          /\ Ctrl[i].inputs[k] \in Inputs
          /\ Ctrl[i].inputs[k].type = "control" =>
               /\ Ctrl[i].inputs[k].id \in Controls
               /\ rank[Ctrl[i].inputs[k].id] < rank[i]
  BY ControlRanks
<1>2. rank \in [Controls -> Nat]
  BY DeviceControlAssumption
<1>3. PICK new, a, L : new = States(ctl'[q]) /\ a = States(dev[q]) /\ L = Last(p)
  OBVIOUS
<1>4. \A i \in Controls : new[i] = ctl'[q][i].current
  BY <1>3, UpdateControlsIs DEF States, ControlCopies
<1>5. pc[q] # "exchange"
  BY DEF UpdateControls
<1> DEFINE S == {i \in Controls : i \in GatesOf(p) => (new[i] <=> L[i])}
<1>6. ASSUME NEW i \in Controls, \A j \in Controls : rank[j] < rank[i] => j \in S
      PROVE  i \in S
  <2> SUFFICES ASSUME i \in GatesOf(p) PROVE new[i] <=> L[i]
    OBVIOUS
  <2>1. new[i] <=> \/ Ctrl[i].latch /\ ctl[q][i].current
                   \/ GateState(a, new, i)
    BY <1>3, <1>4, GateUpdated
  <2>2. L[i] <=> \/ Ctrl[i].latch /\ ctl[q][i].current
                 \/ GateState(a, L, i)
    BY <1>3, <1>5 DEF FollowInv
  <2>3. \A k \in UsedInputs(Ctrl[i]) :
          LET in == Ctrl[i].inputs[k]
          IN  IF in.type = "device" THEN a[in.id] <=> a[in.id] ELSE new[in.id] <=> L[in.id]
    BY <1>1, <1>6, GatesOfAre
  <2>4. GateState(a, new, i) <=> GateState(a, L, i)
    BY <2>3, SameGate
  <2> QED BY <2>1, <2>2, <2>4
<1>7. Controls \subseteq S
  <2> HIDE DEF S
  <2> QED BY <1>2, <1>6, ByRank
<1>8. c \in Controls
  BY GatesOfAre
<1> QED BY <1>3, <1>4, <1>7, <1>8

(* UPDATE_CONTROLS of the process of the gates, or of another.               *)
LEMMA UpdateControlsGates ==
  ASSUME DevicesInv, GatesInv, NEW r \in Processes, UpdateControls(r)
  PROVE  GatesInv'
<1>1. /\ \A q \in Processes : q # r => ctl'[q] = ctl[q]
      /\ pc[r] = "controls" /\ pc' = [pc EXCEPT ![r] = "exchange"]
      /\ dev' = dev
      /\ \A c \in Controls : ctl'[r][c].prior = ctl[r][c].current
  BY UpdateControlsIs
<1>2. \A q \in Processes : pc'[q] = IF q = r THEN "exchange" ELSE pc[q]
  BY <1>1 DEF DevicesInv, TypeOK
<1>3. ASSUME NEW q \in Processes PROVE Last(q)' = Last(q)
  BY <1>1, <1>2 DEF Last
<1>4. ASSUME NEW p \in Processes PROVE LeadInv(p)'
  <2>1. CASE p # r
    BY <1>1, <1>2, <2>1 DEF LeadInv, GatesInv
  <2>2. CASE p = r
    <3> SUFFICES ASSUME NEW c \in GatesOf(p)
                 PROVE  ctl'[p][c].current <=>
                          \/ Ctrl[c].latch /\ ctl'[p][c].prior
                          \/ GateState(States(dev'[p]), States(ctl'[p]), c)
      BY DEF LeadInv
    <3>1. c \in Controls
      BY GatesOfAre
    <3>2. ctl'[p][c].current <=> \/ Ctrl[c].latch /\ ctl[p][c].current
                                 \/ GateState(States(dev[p]), States(ctl'[p]), c)
      BY <2>2, GateUpdated
    <3> QED BY <1>1, <2>2, <3>1, <3>2
  <2> QED BY <2>1, <2>2
<1>5. ASSUME NEW p \in Processes, NEW q \in Processes, p # q PROVE FollowInv(p, q)'
  <2>1. FollowInv(p, q)
    BY <1>5 DEF GatesInv
  <2>2. CASE q # r
    <3>1. /\ Last(p)' = Last(p) /\ pc'[q] = pc[q] /\ ctl'[q] = ctl[q]
      BY <1>1, <1>2, <1>3, <2>2
    <3> QED BY <1>1, <2>1, <3>1 DEF FollowInv
  <2>3. CASE q = r
    <3>1. \A c \in GatesOf(p) : ctl'[q][c].current <=> Last(p)[c]
      BY <1>5, <2>1, <2>3, UpdateFollows
    <3>2. pc'[q] = "exchange" /\ Last(p)' = Last(p)
      BY <1>2, <1>3, <2>3
    <3> QED BY <3>1, <3>2 DEF FollowInv
  <2> QED BY <2>2, <2>3
<1> QED BY <1>4, <1>5 DEF GatesInv

(* After the exchange the others see the devices the gates were made of.     *)
LEMMA ExchangeGates ==
  ASSUME DevicesInv, GatesInv, DumpGlobalOutputs
  PROVE  GatesInv'
<1>1. /\ ctl' = ctl
      /\ \A p \in Processes : pc[p] = "exchange" /\ pc'[p] # "exchange"
  BY DEF DumpGlobalOutputs
<1>2. \A q \in Processes : DOMAIN dev[q] = Devices /\ DOMAIN dev'[q] = Devices
  BY DEF DevicesInv, TypeOK, DumpGlobalOutputs
<1>3. ASSUME NEW q \in Processes, NEW d \in Devices
      PROVE  dev'[q][d].current = dev[Owner(d)][d].current
  <2>1. dev'[q][d] = [current |-> dev[Owner(d)][d].current,
                      prior   |-> dev[Owner(d)][d].prior,
                      tChange |-> dev[Owner(d)][d].tChange,
                      mesh    |-> dev[q][d].mesh]
    BY ExchangeIs DEF DevicesInv
  <2> QED BY <2>1
<1>4. ASSUME NEW p \in Processes, NEW q \in Processes, p # q PROVE FollowInv(p, q)'
  <2> SUFFICES ASSUME NEW c \in GatesOf(p)
               PROVE  Last(p)'[c] <=> \/ Ctrl[c].latch /\ ctl[q][c].current
                                      \/ GateState(States(dev'[q]), Last(p)', c)
    BY <1>1 DEF FollowInv
  <2>1. \A i \in GatesOf(p) : i \in Controls
    BY GatesOfAre
  <2>2. \A i \in GatesOf(p) : Last(p)'[i] = ctl[p][i].current
    BY <1>1, <2>1 DEF Last
  <2>3. ctl[p][c].current <=> \/ Ctrl[c].latch /\ ctl[p][c].prior
                              \/ GateState(States(dev[p]), States(ctl[p]), c)
    BY <1>1 DEF GatesInv, LeadInv
  <2>4. ctl[q][c].current <=> ctl[p][c].prior
    <3>1. ctl[q][c].current <=> Last(p)[c]
      BY <1>1, <1>4 DEF GatesInv, FollowInv
    <3> QED BY <1>1, <2>1, <3>1 DEF Last
  <2>5. GateState(States(dev'[q]), Last(p)', c) <=> GateState(States(dev[p]), States(ctl[p]), c)
    <3>1. PICK a, b, s, t : /\ a = States(dev'[q]) /\ b = States(dev[p])
                            /\ s = Last(p)' /\ t = States(ctl[p])
      OBVIOUS
    <3>2. \A d \in Devices : Owner(d) = p => (a[d] <=> b[d])
      BY <1>2, <1>3, <3>1 DEF States
    <3>3. \A i \in GatesOf(p) : s[i] <=> t[i]
      BY <2>1, <2>2, <3>1 DEF States, DevicesInv, TypeOK
    <3>4. GateState(a, s, c) <=> GateState(b, t, c)
      BY <3>2, <3>3, AgreeingGates
    <3> QED BY <3>1, <3>4
  <2> QED BY <2>2, <2>3, <2>4, <2>5
<1> QED BY <1>1, <1>4 DEF GatesInv, LeadInv

(* GatesInv is inductive on top of DevicesInv.                               *)
LEMMA GatesStep == DevicesInv /\ GatesInv /\ [Next]_vars => GatesInv'
<1> SUFFICES ASSUME DevicesInv, GatesInv, [Next]_vars PROVE GatesInv'
  OBVIOUS
<1>1. ASSUME NEW r \in Processes, UpdateDevices(r) \/ UpdateControls(r)
      PROVE  GatesInv'
  BY <1>1, UpdateDevicesGates, UpdateControlsGates
<1>2. CASE DumpGlobalOutputs
  BY <1>2, ExchangeGates
<1>3. CASE \/ \E r \in Processes : OpenAndClose(r)
           \/ Corrector
           \/ UNCHANGED vars
  <2>1. dev' = dev /\ ctl' = ctl
    BY <1>3 DEF OpenAndClose, Corrector, vars
  <2>2. \A q \in Processes : pc'[q] = "exchange" <=> pc[q] = "exchange"
    BY <1>3 DEF OpenAndClose, Goes, Corrector, vars, DevicesInv, TypeOK
  <2>3. \A q \in Processes : Last(q)' = Last(q)
    BY <2>1, <2>2 DEF Last
  <2>4. \A p, q \in Processes : FollowInv(p, q) => FollowInv(p, q)'
    BY <2>1, <2>2, <2>3 DEF FollowInv
  <2>5. \A p \in Processes : LeadInv(p) => LeadInv(p)'
    BY <2>1, <2>2 DEF LeadInv
  <2> QED BY <2>4, <2>5 DEF GatesInv
<1> QED BY <1>1, <1>2, <1>3 DEF Next, Finished

(* A gate over devices of one process lags on the others by one step, and    *)
(* does not part.                                                            *)
THEOREM ControlsAlwaysFollow ==
  ASSUME TiedOnFirst
  PROVE  Spec => []ControlsFollow
<1>1. DevicesInv /\ GatesInv => ControlsFollow
  <2> SUFFICES ASSUME DevicesInv, GatesInv, \A p \in Processes : pc[p] = "exchange",
                      NEW p \in Processes, NEW q \in Processes, NEW c \in GatesOf(p),
                      q # p
               PROVE  ctl[q][c].current = ctl[p][c].prior
    BY DEF ControlsFollow
  <2>1. c \in Controls
    BY GatesOfAre
  <2>2. ctl[q][c].current <=> ctl[p][c].prior
    BY <2>1 DEF GatesInv, FollowInv, Last
  <2>3. ctl[q][c].current \in BOOLEAN /\ ctl[p][c].prior \in BOOLEAN
    BY <2>1 DEF DevicesInv, TypeOK
  <2> QED BY <2>2, <2>3
<1>2. Spec => []GatesInv
  <2>1. DevicesInv /\ GatesInv /\ [Next]_vars => GatesInv'
    BY GatesStep
  <2> QED BY GatesInit, <2>1, DevicesHold, PTL DEF Spec
<1> QED BY <1>1, <1>2, DevicesHold, PTL
=============================================================================
