------------------------- MODULE ControlNetworkProofs -------------------------
(***************************************************************************)
(* Proofs about ControlNetwork, for any number of controls and devices and  *)
(* any set of well-formed networks without cycles.                          *)
(***************************************************************************)
EXTENDS ControlNetwork, Recursion, TLAPS, FiniteSetTheorems, SequenceTheorems

(* How many inputs EVALUATE_CONTROL looks at.                                *)
Used(c) == IF net[c].kind \in Gates THEN Len(net[c].inputs) ELSE 1

(* The first m inputs of c have been evaluated in this sweep.                *)
InputsDone(c, m) ==
  \A k \in 1..m : LET in == net[c].inputs[k]
                  IN  in.type = "control" => updated[in.id]

TrueAmong(c, m) == {k \in 1..m : InputState(net[c].inputs[k])}

FrameOK(f) ==
  /\ f.nc \in 1..(Used(f.ctl) + 1)
  /\ InputsDone(f.ctl, f.nc - 1)
  /\ f.count = Cardinality(TrueAmong(f.ctl, f.nc - 1))

Active == 1..Len(stack)

OnStack == {stack[i] : i \in Active}

Framing == \A f \in OnStack : FrameOK(f)

(* A control that has not been evaluated has the state it had before.        *)
Untouched == \A c \in Controls : ~updated[c] => current[c] = before[c]

(* PRIOR_STATE is the state before the sweep from the call on.               *)
Edges ==
  /\ \A c \in Controls : updated[c] => prior[c] = before[c]
  /\ \A i \in Active : prior[stack[i].ctl] = before[stack[i].ctl]

(* The controls that are being evaluated descend, so none is twice among     *)
(* them.                                                                     *)
Descent ==
  \A rank \in [Controls -> Controls] :
    Ranks(net, rank) =>
      \A i, j \in Active : i < j => rank[stack[j].ctl] < rank[stack[i].ctl]

Open == \A i \in Active : ~updated[stack[i].ctl]

HeldOK ==
  \A c \in Controls :
    Held(net[c], before[c], runStart) => updated[c] /\ current[c] = before[c]

Values ==
  \A c \in Controls :
    updated[c] /\ ~Held(net[c], before[c], runStart) =>
      InputsDone(c, Used(c)) /\ Agrees(c)

SweepInv ==
  /\ TypeOK
  /\ net \in Networks
  /\ ~Sweeping => stack = << >>
  /\ \A c \in Controls : c < nc => updated[c]
  /\ runStart => \A c \in Controls : before[c] = net[c].initial
  /\ Untouched
  /\ Edges
  /\ Descent
  /\ Open
  /\ Framing
  /\ HeldOK
  /\ Values

-----------------------------------------------------------------------------
(* The inputs of a control and the stack of calls.                           *)

Frames == [ctl : Controls, nc : Nat \ {0}, count : Nat]

(* Every input EVALUATE_CONTROL reads exists, and one that is a control is   *)
(* another control.                                                          *)
LEMMA InputsExist ==
  ASSUME TypeOK, NEW c \in Controls
  PROVE  /\ Used(c) \in Nat \ {0}
         /\ UsedInputs(net[c]) = 1..Used(c)
         /\ \A k \in 1..Used(c) :
              /\ net[c].inputs[k] \in Inputs
              /\ net[c].inputs[k].type = "control" =>
                   /\ net[c].inputs[k].id \in Controls \ {c}
                   /\ net[c].inputs[k].id \in ControlInputs(net[c])
<1>1. /\ net[c].inputs \in Seq(Inputs) /\ net[c].inputs # << >>
      /\ c \notin ControlInputs(net[c])
  BY DEF TypeOK, WellFormed
<1>2. Len(net[c].inputs) \in Nat \ {0}
  BY <1>1, EmptySeq
<1>3. Used(c) \in Nat \ {0} /\ Used(c) <= Len(net[c].inputs)
  BY <1>2 DEF Used
<1>4. UsedInputs(net[c]) = 1..Used(c)
  <2>1. CASE net[c].kind \in Gates
    BY <2>1 DEF UsedInputs, Used
  <2>2. CASE net[c].kind \notin Gates
    <3>1. UsedInputs(net[c]) = {1} /\ Used(c) = 1
      BY <2>2 DEF UsedInputs, Used
    <3> QED BY <3>1
  <2> QED BY <2>1, <2>2
<1>5. ASSUME NEW k \in 1..Used(c)
      PROVE  /\ net[c].inputs[k] \in Inputs
             /\ net[c].inputs[k].type = "control" =>
                  /\ net[c].inputs[k].id \in Controls \ {c}
                  /\ net[c].inputs[k].id \in ControlInputs(net[c])
  <2>1. k \in 1..Len(net[c].inputs)
    BY <1>2, <1>3
  <2>2. net[c].inputs[k] \in Inputs
    BY <2>1, <1>1, ElementOfSeq
  <2>3. ASSUME net[c].inputs[k].type = "control"
        PROVE  /\ net[c].inputs[k].id \in Controls \ {c}
               /\ net[c].inputs[k].id \in ControlInputs(net[c])
    <3>1. net[c].inputs[k].id \in Controls
      BY <2>2, <2>3 DEF Inputs
    <3>2. net[c].inputs[k].id \in ControlInputs(net[c])
      BY <1>4, <2>3 DEF ControlInputs
    <3> QED BY <3>1, <3>2, <1>1
  <2> QED BY <2>2, <2>3
<1> QED BY <1>3, <1>4, <1>5

(* The innermost call.                                                       *)
LEMMA TopExists ==
  ASSUME TypeOK, stack # << >>
  PROVE  /\ Len(stack) \in Nat \ {0}
         /\ Len(stack) \in Active
         /\ Top \in Frames
         /\ Top.ctl \in Controls
         /\ MoreInputs <=> Top.nc <= Used(Top.ctl)
         /\ MoreInputs => Top.nc \in 1..Used(Top.ctl)
<1>1. stack \in Seq(Frames)
  BY DEF TypeOK, Frames
<1>2. Len(stack) \in Nat \ {0} /\ Len(stack) \in Active
  BY <1>1, EmptySeq DEF Active
<1>3. Top \in Frames
  BY <1>1, <1>2, ElementOfSeq DEF Top, Active
<1>4. Top.ctl \in Controls /\ Top.nc \in Nat \ {0}
  BY <1>3 DEF Frames
<1>5. UsedInputs(net[Top.ctl]) = 1..Used(Top.ctl) /\ Used(Top.ctl) \in Nat
  BY <1>4, InputsExist
<1> QED BY <1>2, <1>3, <1>4, <1>5 DEF MoreInputs, cfOf

(* CALL EVALUATE_CONTROL adds a frame to the stack.                          *)
LEMMA PushFrame ==
  ASSUME TypeOK, NEW c \in Controls, Push(c)
  PROVE  /\ stack' \in Seq(Frames)
         /\ Len(stack) \in Nat
         /\ Len(stack') = Len(stack) + 1
         /\ \A i \in Active : stack'[i] = stack[i]
         /\ stack'[Len(stack) + 1] = Frame(c)
         /\ prior' = [prior EXCEPT ![c] = current[c]]
<1>1. stack \in Seq(Frames) /\ Frame(c) \in Frames
  BY DEF TypeOK, Frames, Frame
<1>2. stack' = Append(stack, Frame(c)) /\ prior' = [prior EXCEPT ![c] = current[c]]
  BY DEF Push
<1>3. Len(stack) \in Nat
  BY <1>1, LenProperties
<1> QED BY <1>1, <1>2, <1>3, AppendProperties DEF Active

(* RETURN removes the innermost frame.                                       *)
LEMMA PopFrame ==
  ASSUME TypeOK, stack # << >>, stack' = SubSeq(stack, 1, Len(stack) - 1)
  PROVE  /\ stack' \in Seq(Frames)
         /\ Len(stack') = Len(stack) - 1
         /\ \A i \in 1..Len(stack') : i \in Active /\ i < Len(stack) /\ stack'[i] = stack[i]
<1>1. stack \in Seq(Frames) /\ Len(stack) \in Nat \ {0}
  BY TopExists DEF TypeOK, Frames
<1>2. \A i \in 1..(Len(stack) - 1) : stack[i] \in Frames
  BY <1>1, ElementOfSeq
<1>3. /\ stack' \in Seq(Frames)
      /\ Len(stack') = IF 1 <= Len(stack) - 1 THEN Len(stack) - 1 - 1 + 1 ELSE 0
      /\ \A i \in 1..(Len(stack) - 1 - 1 + 1) : stack'[i] = stack[1 + i - 1]
  BY <1>1, <1>2, SubSeqProperties
<1>4. Len(stack') = Len(stack) - 1
  <2>1. CASE Len(stack) = 1
    <3>1. ~ (1 <= Len(stack) - 1)
      BY <2>1
    <3> QED BY <1>3, <3>1, <2>1
  <2>2. CASE Len(stack) # 1
    <3>1. \A l \in Nat \ {0} : l # 1 => 1 <= l - 1 /\ l - 1 - 1 + 1 = l - 1
      OBVIOUS
    <3> QED BY <1>1, <1>3, <2>2, <3>1
  <2> QED BY <2>1, <2>2
<1>5. ASSUME NEW i \in 1..Len(stack')
      PROVE  i \in Active /\ i < Len(stack) /\ stack'[i] = stack[i]
  <2>1. i \in 1..(Len(stack) - 1 - 1 + 1) /\ 1 + i - 1 = i
    BY <1>1, <1>4
  <2> QED BY <2>1, <1>1, <1>3, <1>4 DEF Active
<1> QED BY <1>3, <1>4, <1>5

(* Reading an input changes the innermost frame only.                        *)
LEMMA StepFrame ==
  ASSUME TypeOK, ReadInput
  PROVE  /\ stack' \in Seq(Frames)
         /\ Len(stack') = Len(stack)
         /\ \A i \in Active : i # Len(stack) => stack'[i] = stack[i]
         /\ stack'[Len(stack)] = Counted(Top)
<1>1. stack \in Seq(Frames) /\ Len(stack) \in Active /\ Top \in Frames
  BY TopExists DEF ReadInput, TypeOK, Frames
<1>2. Top.ctl \in Controls /\ Top.nc \in Nat \ {0} /\ Top.count \in Nat
  BY <1>1 DEF Frames
<1>3. Counted(Top) \in Frames
  <2>1. CASE InputState(TopInput)
    BY <1>2, <2>1 DEF Counted, Frames
  <2>2. CASE ~InputState(TopInput)
    BY <1>2, <2>2 DEF Counted, Frames
  <2> QED BY <2>1, <2>2
<1>4. stack' = [stack EXCEPT ![Len(stack)] = Counted(Top)]
  BY DEF ReadInput
<1>5. /\ [stack EXCEPT ![Len(stack)] = Counted(Top)] \in Seq(Frames)
      /\ Len([stack EXCEPT ![Len(stack)] = Counted(Top)]) = Len(stack)
      /\ \A j \in 1..Len(stack) :
           [stack EXCEPT ![Len(stack)] = Counted(Top)][j] =
             IF j = Len(stack) THEN Counted(Top) ELSE stack[j]
  BY <1>1, <1>3, ExceptSeq DEF Active
<1>6. \A i \in Active : i # Len(stack) => stack'[i] = stack[i]
  BY <1>4, <1>5 DEF Active
<1>7. stack'[Len(stack)] = Counted(Top)
  BY <1>1, <1>4, <1>5 DEF Active
<1> QED BY <1>4, <1>5, <1>6, <1>7

-----------------------------------------------------------------------------
(* Types                                                                     *)

(* The state of a control is a truth value, whatever function it is, and is  *)
(* dated with a time of the run.                                             *)
LEMMA NewStateTyped ==
  ASSUME TypeOK, NEW c \in Controls, NEW count
  PROVE  /\ NewState(c, count) \in BOOLEAN
         /\ ChangeTime(c, count) \in {-Never, Never} \cup 0..MaxT
<1>1. net[c].initial \in BOOLEAN /\ prior[c] \in BOOLEAN /\ current[c] \in BOOLEAN
  BY DEF TypeOK, WellFormed
<1>2. \A trips : StateFor(net[c], trips) \in BOOLEAN
  BY <1>1 DEF StateFor
<1>3. NewState(c, count) \in BOOLEAN
  BY <1>1, <1>2 DEF NewState, cfOf
<1>4. now \in 0..MaxT
  BY DEF TypeOK
<1>5. ChangeTime(c, count) \in {-Never, Never} \cup 0..MaxT
  BY <1>4 DEF ChangeTime
<1> QED BY <1>3, <1>5

(* A call keeps the types.                                                   *)
LEMMA PushTyped ==
  ASSUME TypeOK, NEW c \in Controls, Push(c),
         UNCHANGED <<net, device, now, runStart, current, tChange, updated, nc,
                     ctrlStop, coreDump, stopped, before, changed>>
  PROVE  TypeOK'
<1>1. stack' \in Seq(Frames)
  BY PushFrame
<1>2. prior' \in [Controls -> BOOLEAN]
  BY DEF Push, TypeOK
<1> QED BY <1>1, <1>2 DEF TypeOK, Frames

(* Every step keeps the types.                                               *)
LEMMA TypeStep == TypeOK /\ [Next]_vars => TypeOK'
<1> SUFFICES ASSUME TypeOK, [Next]_vars PROVE TypeOK'
  OBVIOUS
<1>1. CASE BeginSweep
  <2>1. now \in 0..MaxT /\ now' = now + 1 /\ now < MaxT /\ MaxT \in Nat
    BY <1>1, SizeAssumption DEF BeginSweep, TypeOK
  <2>2. now' \in 0..MaxT
    BY <2>1
  <2>3. device' \in [Devices -> [on : BOOLEAN, level : Levels, tChange : {Never} \cup 0..MaxT]]
    <3>1. PICK on \in [Devices -> BOOLEAN], level \in [Devices -> Levels] :
            device' = [d \in Devices |->
              [on |-> on[d], level |-> level[d],
               tChange |-> IF on[d] # device[d].on THEN now + 1 ELSE device[d].tChange]]
      BY <1>1 DEF BeginSweep
    <3>2. ASSUME NEW d \in Devices
          PROVE  /\ on[d] \in BOOLEAN /\ level[d] \in Levels
                 /\ (IF on[d] # device[d].on THEN now + 1 ELSE device[d].tChange)
                      \in {Never} \cup 0..MaxT
      <4>1. device[d].tChange \in {Never} \cup 0..MaxT
        BY DEF TypeOK
      <4>2. now + 1 \in {Never} \cup 0..MaxT
        BY <2>1
      <4> QED BY <4>1, <4>2
    <3> QED BY <3>1, <3>2
  <2>4. nc' \in 1..(NCtrl + 1)
    BY <1>1, SizeAssumption DEF BeginSweep
  <2>5. ASSUME NEW c \in Controls
        PROVE  /\ Held(net[c], current[c], FALSE) \in BOOLEAN
               /\ (IF Held(net[c], current[c], FALSE) THEN current[c] ELSE prior[c]) \in BOOLEAN
    BY Zenon DEF Held, TypeOK, WellFormed
  <2>6. updated' \in [Controls -> BOOLEAN] /\ prior' \in [Controls -> BOOLEAN]
    BY <1>1, <2>5 DEF BeginSweep
  <2>7. /\ UNCHANGED <<net, current, tChange, stack, stopped, changed>>
        /\ runStart' = FALSE /\ ctrlStop' = FALSE /\ coreDump' = FALSE
        /\ before' = current
    BY <1>1 DEF BeginSweep
  <2> QED BY <2>2, <2>3, <2>4, <2>6, <2>7 DEF TypeOK
<1>2. CASE Stop
  BY <1>2 DEF Stop, TypeOK, state
<1>3. CASE SkipUpdated
  <2>1. nc' \in 1..(NCtrl + 1)
    BY <1>3, SizeAssumption DEF SkipUpdated, Sweeping, TypeOK
  <2> QED BY <1>3, <2>1 DEF SkipUpdated, TypeOK, state
<1>4. CASE CallFromLoop
  <2>1. nc \in Controls
    BY <1>4, SizeAssumption DEF CallFromLoop, Sweeping, Controls, TypeOK
  <2> QED BY <1>4, <2>1, PushTyped DEF CallFromLoop
<1>5. CASE CallFromInput
  <2>1. TopInput.id \in Controls
    BY <1>5, TopExists, InputsExist DEF CallFromInput, NeedsCall, TopInput, cfOf
  <2> QED BY <1>5, <2>1, PushTyped DEF CallFromInput
<1>6. CASE ReadInput
  <2>1. stack' \in Seq(Frames)
    BY <1>6, StepFrame
  <2> QED BY <1>6, <2>1 DEF ReadInput, TypeOK, state, Frames
<1>7. CASE Return
  <2> DEFINE c == Top.ctl
             new == NewState(c, Top.count)
  <2>1. c \in Controls
    BY <1>7, TopExists DEF Return
  <2>2. new \in BOOLEAN /\ ChangeTime(c, Top.count) \in {-Never, Never} \cup 0..MaxT
    BY <2>1, NewStateTyped
  <2>3. stack' \in Seq(Frames)
    BY <1>7, PopFrame DEF Return
  <2>4. /\ current' = [current EXCEPT ![c] = new]
        /\ tChange' = [tChange EXCEPT ![c] =
                         IF new # prior[c] THEN ChangeTime(c, Top.count) ELSE @]
        /\ changed' = [changed EXCEPT ![c] = IF new # current[c] THEN now ELSE @]
        /\ updated' = [updated EXCEPT ![c] = TRUE]
        /\ ctrlStop' = (ctrlStop \/ (cfOf(c).kind = "KILL" /\ Top.count = 1))
        /\ coreDump' = (coreDump \/ (cfOf(c).kind = "CORE_DUMP" /\ Top.count = 1))
        /\ UNCHANGED <<net, device, now, runStart, prior, nc, stopped, before>>
    BY <1>7 DEF Return
  <2> HIDE DEF c, new
  <2>5. current' \in [Controls -> BOOLEAN] /\ updated' \in [Controls -> BOOLEAN]
    BY <2>1, <2>2, <2>4 DEF TypeOK
  <2>6. tChange' \in [Controls -> {-Never, Never} \cup 0..MaxT]
    <3>1. (IF new # prior[c] THEN ChangeTime(c, Top.count) ELSE tChange[c])
            \in {-Never, Never} \cup 0..MaxT
      BY <2>1, <2>2 DEF TypeOK
    <3> QED BY <2>1, <2>4, <3>1 DEF TypeOK
  <2>7. changed' \in [Controls -> {Never} \cup 0..MaxT]
    <3>1. (IF new # current[c] THEN now ELSE changed[c]) \in {Never} \cup 0..MaxT
      BY <2>1 DEF TypeOK
    <3> QED BY <2>1, <2>4, <3>1 DEF TypeOK
  <2>8. ctrlStop' \in BOOLEAN /\ coreDump' \in BOOLEAN
    BY <2>4
  <2>9. UNCHANGED <<net, device, now, runStart, prior, nc, stopped, before>>
    BY <2>4
  <2> QED BY <2>3, <2>5, <2>6, <2>7, <2>8, <2>9 DEF TypeOK, Frames
<1>8. CASE Finished \/ UNCHANGED vars
  BY <1>8 DEF Finished, vars, state, TypeOK
<1> QED BY <1>1, <1>2, <1>3, <1>4, <1>5, <1>6, <1>7, <1>8 DEF Next, Evaluate

(* The variables have their types initially.                                 *)
LEMMA TypeInit == Init => TypeOK
<1> SUFFICES ASSUME Init PROVE TypeOK
  OBVIOUS
<1>1. WellFormed(net)
  BY NetworksAssumption DEF Init
<1>2. device \in [Devices -> [on : BOOLEAN, level : Levels, tChange : {Never} \cup 0..MaxT]]
  <2>1. PICK on \in [Devices -> BOOLEAN], level \in [Devices -> Levels] :
          device = [d \in Devices |-> [on |-> on[d], level |-> level[d],
                                       tChange |-> IF on[d] THEN 0 ELSE Never]]
    BY DEF Init
  <2>2. ASSUME NEW d \in Devices
        PROVE  (IF on[d] THEN 0 ELSE Never) \in {Never} \cup 0..MaxT
    BY SizeAssumption
  <2> QED BY <2>1, <2>2
<1>3. /\ current \in [Controls -> BOOLEAN] /\ prior = current /\ before = current
      /\ updated \in [Controls -> BOOLEAN]
      /\ tChange \in [Controls -> {Never}] /\ changed = tChange
  BY <1>1 DEF Init, WellFormed
<1>4. now \in 0..MaxT /\ nc \in 1..(NCtrl + 1)
  BY SizeAssumption DEF Init
<1>5. stack \in Seq([ctl : Controls, nc : Nat \ {0}, count : Nat])
  BY EmptySeq DEF Init
<1>6. runStart \in BOOLEAN /\ ctrlStop \in BOOLEAN /\ coreDump \in BOOLEAN /\ stopped \in BOOLEAN
  BY DEF Init
<1>7. /\ tChange \in [Controls -> {-Never, Never} \cup 0..MaxT]
      /\ changed \in [Controls -> {Never} \cup 0..MaxT]
  BY <1>3
<1> QED BY <1>1, <1>2, <1>3, <1>4, <1>5, <1>6, <1>7 DEF TypeOK

(* Throughout every run the variables have the types the Fortran variables   *)
(* are declared with.                                                        *)
THEOREM TypeCorrect == Spec => []TypeOK
  BY TypeInit, TypeStep, PTL DEF Spec

-----------------------------------------------------------------------------
(* The invariant of a sweep                                                  *)

(* What has been read of the inputs stays true when no control that has been *)
(* evaluated changes.                                                        *)
LEMMA ReadsStable ==
  ASSUME TypeOK, net' = net, device' = device,
         \A d \in Controls :
           updated[d] => updated'[d] /\ current'[d] = current[d],
         NEW c \in Controls, NEW m \in 0..Used(c), InputsDone(c, m)
  PROVE  /\ InputsDone(c, m)'
         /\ TrueAmong(c, m)' = TrueAmong(c, m)
<1>1. ASSUME NEW k \in 1..m
      PROVE  /\ net[c].inputs[k].type = "control" => updated'[net[c].inputs[k].id]
             /\ InputState(net[c].inputs[k])' = InputState(net[c].inputs[k])
  <2>1. k \in 1..Used(c) /\ Used(c) \in Nat
    BY InputsExist
  <2>2. /\ net[c].inputs[k] \in Inputs
        /\ net[c].inputs[k].type = "control" => net[c].inputs[k].id \in Controls
    BY <2>1, InputsExist
  <2>3. net[c].inputs[k].type = "control" => updated[net[c].inputs[k].id]
    BY DEF InputsDone
  <2>4. CASE net[c].inputs[k].type = "control"
    <3>1. updated'[net[c].inputs[k].id] /\
          current'[net[c].inputs[k].id] = current[net[c].inputs[k].id]
      BY <2>2, <2>3, <2>4
    <3> QED BY <2>4, <3>1 DEF InputState
  <2>5. CASE net[c].inputs[k].type # "control"
    <3>1. net[c].inputs[k].type = "device"
      BY <2>2, <2>5 DEF Inputs
    <3> QED BY <3>1 DEF InputState
  <2> QED BY <2>4, <2>5
<1>2. InputsDone(c, m)'
  BY <1>1 DEF InputsDone
<1>3. TrueAmong(c, m)' = TrueAmong(c, m)
  BY <1>1, Zenon DEF TrueAmong
<1> QED BY <1>2, <1>3

(* A frame stays right while no control that has been evaluated changes.     *)
LEMMA FrameStable ==
  ASSUME TypeOK, net' = net, device' = device,
         \A d \in Controls :
           updated[d] => updated'[d] /\ current'[d] = current[d],
         NEW f \in Frames, FrameOK(f)
  PROVE  FrameOK(f)'
<1>1. f.ctl \in Controls /\ f.nc \in Nat \ {0}
  BY DEF Frames
<1>2. Used(f.ctl) \in Nat
  BY <1>1, InputsExist
<1>3. f.nc - 1 \in 0..Used(f.ctl) /\ InputsDone(f.ctl, f.nc - 1)
  BY <1>1, <1>2 DEF FrameOK
<1>4. /\ InputsDone(f.ctl, f.nc - 1)'
      /\ TrueAmong(f.ctl, f.nc - 1)' = TrueAmong(f.ctl, f.nc - 1)
  BY <1>1, <1>3, ReadsStable
<1>5. Used(f.ctl)' = Used(f.ctl)
  BY DEF Used
<1> QED BY <1>4, <1>5 DEF FrameOK

(* A control that has been evaluated keeps agreeing with its inputs.         *)
LEMMA ValueStable ==
  ASSUME TypeOK, net' = net, device' = device, before' = before,
         \A d \in Controls :
           updated[d] => updated'[d] /\ current'[d] = current[d],
         NEW c \in Controls, updated[c],
         InputsDone(c, Used(c)), Agrees(c)
  PROVE  InputsDone(c, Used(c))' /\ Agrees(c)'
<1>1. Used(c) \in 0..Used(c) /\ Used(c)' = Used(c) /\ UsedInputs(net[c]) = 1..Used(c)
  BY InputsExist DEF Used
<1>2. InputsDone(c, Used(c))' /\ TrueAmong(c, Used(c))' = TrueAmong(c, Used(c))
  <2>2. InputsDone(c, Used(c))' <=> \A k \in 1..Used(c)' :
          LET in == net'[c].inputs[k] IN in.type = "control" => updated'[in.id]
    BY DEF InputsDone
  <2>3. ASSUME NEW k \in 1..Used(c), net[c].inputs[k].type = "control"
        PROVE  updated'[net[c].inputs[k].id]
    <3>1. updated[net[c].inputs[k].id] /\ net[c].inputs[k].id \in Controls
      BY <2>3, InputsExist DEF InputsDone
    <3> QED BY <3>1
  <2>4. InputsDone(c, Used(c))'
    BY <1>1, <2>2, <2>3
  <2>5. ASSUME NEW k \in 1..Used(c)
        PROVE  InputState(net[c].inputs[k])' = InputState(net[c].inputs[k])
    <3>1. CASE net[c].inputs[k].type = "control"
      <4>1. updated[net[c].inputs[k].id] /\ net[c].inputs[k].id \in Controls
        BY <3>1, InputsExist DEF InputsDone
      <4> QED BY <3>1, <4>1 DEF InputState
    <3>2. CASE net[c].inputs[k].type # "control"
      <4>1. net[c].inputs[k].type = "device"
        BY <3>2, InputsExist DEF Inputs
      <4> QED BY <4>1 DEF InputState
    <3> QED BY <3>1, <3>2
  <2>6. TrueAmong(c, Used(c))' = TrueAmong(c, Used(c))
    BY <1>1, <2>5, Zenon DEF TrueAmong
  <2> QED BY <2>4, <2>6
<1>3. TrueInputs(c) = TrueAmong(c, Used(c)) /\ TrueInputs(c)' = TrueAmong(c, Used(c))'
  BY <1>1 DEF TrueInputs, TrueAmong
<1>4. TrueInputs(c)' = TrueInputs(c) /\ current'[c] = current[c]
  BY <1>2, <1>3
<1>5. Agrees(c)'
  BY <1>4 DEF Agrees
<1> QED BY <1>2, <1>5

(* The empty stack satisfies what is said of the frames.                     *)
LEMMA SweepInit == Init => SweepInv
<1> SUFFICES ASSUME Init PROVE SweepInv
  OBVIOUS
<1>1. TypeOK /\ net \in Networks
  BY TypeInit DEF Init
<1>2. stack = << >> /\ Active = {}
  BY EmptySeq DEF Init, Active
<1>3. /\ nc = 1 /\ runStart = TRUE /\ prior = current /\ before = current
      /\ updated = [c \in Controls |-> FALSE]
      /\ current = [c \in Controls |-> net[c].initial]
  BY DEF Init
<1>4. \A c \in Controls : ~ (c < nc)
  BY <1>3 DEF Controls
<1>5. Untouched /\ Edges /\ Descent /\ Open /\ Framing /\ Values
  BY <1>2, <1>3 DEF Untouched, Edges, Descent, Open, Framing, OnStack, Values
<1>6. HeldOK
  BY <1>3 DEF HeldOK, Held
<1> QED BY <1>1, <1>2, <1>3, <1>4, <1>5, <1>6 DEF SweepInv

(* A new sweep begins with the latched controls evaluated.                   *)
LEMMA BeginSweepInv == SweepInv /\ BeginSweep => SweepInv'
<1> SUFFICES ASSUME SweepInv, BeginSweep PROVE SweepInv'
  OBVIOUS
<1>1. TypeOK'
  BY TypeStep DEF SweepInv, Next
<1>2. /\ net' = net /\ current' = current /\ before' = current /\ stack' = stack
      /\ runStart' = FALSE /\ nc' = 1 /\ stack = << >>
      /\ updated' = [c \in Controls |-> Held(net[c], current[c], FALSE)]
      /\ prior' = [c \in Controls |-> IF Held(net[c], current[c], FALSE)
                                      THEN current[c] ELSE prior[c]]
  BY DEF BeginSweep, SweepInv
<1>3. Active' = {}
  BY <1>2, EmptySeq DEF Active
<1>4. \A c \in Controls : updated'[c] <=> Held(net'[c], before'[c], runStart')
  BY <1>2 DEF Held
<1>5. \A c \in Controls : updated'[c] => prior'[c] = before'[c]
  BY <1>2
<1>6. (\A c \in Controls : c < nc => updated[c])'
  BY <1>2 DEF Controls
<1>7. Untouched' /\ HeldOK' /\ Values'
  BY <1>2, <1>4 DEF Untouched, HeldOK, Values
<1>8. Edges' /\ Descent' /\ Open' /\ Framing'
  BY <1>3, <1>5 DEF Edges, Descent, Open, Framing, OnStack
<1> QED BY <1>1, <1>2, <1>6, <1>7, <1>8 DEF SweepInv

(* CALL EVALUATE_CONTROL for a control that is below all those that are      *)
(* being evaluated.                                                          *)
LEMMA PushInv ==
  ASSUME SweepInv, Sweeping, NEW c \in Controls, ~updated[c], Push(c),
         \A rank \in [Controls -> Controls] :
           Ranks(net, rank) => \A i \in Active : rank[c] < rank[stack[i].ctl],
         UNCHANGED <<net, device, now, runStart, current, tChange, updated, nc,
                     ctrlStop, coreDump, stopped, before, changed>>
  PROVE  SweepInv'
<1>1. TypeOK /\ TypeOK'
  BY PushTyped DEF SweepInv
<1>2. /\ Len(stack) \in Nat /\ Len(stack') = Len(stack) + 1
      /\ \A i \in Active : stack'[i] = stack[i]
      /\ stack'[Len(stack) + 1] = Frame(c)
      /\ prior' = [prior EXCEPT ![c] = current[c]]
  BY <1>1, PushFrame
<1>3. \A i \in Active' : i \in Active \/ i = Len(stack) + 1
  BY <1>2 DEF Active
<1>4. ASSUME NEW i \in Active
      PROVE  stack[i] \in Frames /\ stack[i].ctl \in Controls
  <2>1. stack \in Seq(Frames)
    BY <1>1 DEF TypeOK, Frames
  <2>2. stack[i] \in Frames
    BY <2>1, ElementOfSeq DEF Active
  <2> QED BY <2>2 DEF Frames
<1>5. stack'[Len(stack) + 1].ctl = c
  BY <1>2 DEF Frame
<1>6. prior'[c] = before[c] /\ \A d \in Controls : d # c => prior'[d] = prior[d]
  BY <1>1, <1>2 DEF SweepInv, Untouched, TypeOK
<1>7. Edges'
  <2>1. \A d \in Controls : updated[d] => prior'[d] = before[d]
    BY <1>6 DEF SweepInv, Edges
  <2>2. ASSUME NEW i \in Active' PROVE prior'[stack'[i].ctl] = before[stack'[i].ctl]
    <3>1. CASE i \in Active
      BY <1>2, <1>4, <1>6, <3>1 DEF SweepInv, Edges
    <3>2. CASE i = Len(stack) + 1
      BY <1>5, <1>6, <3>2
    <3> QED BY <1>3, <3>1, <3>2
  <2> QED BY <2>1, <2>2 DEF Edges
<1>8. Open'
  BY <1>2, <1>3, <1>5 DEF Open, SweepInv
<1>9. Descent'
  <2> SUFFICES ASSUME NEW rank \in [Controls -> Controls], Ranks(net, rank),
                      NEW i \in Active', NEW j \in Active', i < j
               PROVE  rank[stack'[j].ctl] < rank[stack'[i].ctl]
    BY DEF Descent
  <2>1. i \in Active
    BY <1>2, <1>3 DEF Active
  <2>2. CASE j \in Active
    BY <1>2, <2>1, <2>2 DEF SweepInv, Descent
  <2>3. CASE j = Len(stack) + 1
    BY <1>2, <1>5, <2>1, <2>3
  <2> QED BY <1>3, <2>2, <2>3
<1>10. Framing'
  <2> SUFFICES ASSUME NEW f \in OnStack'
               PROVE  FrameOK(f)'
    BY DEF Framing
  <2>1. PICK i \in Active' : stack'[i] = f
    BY DEF OnStack
  <2>2. CASE i \in Active
    <3>1. f \in OnStack /\ f \in Frames
      BY <1>2, <1>4, <2>1, <2>2 DEF OnStack
    <3>2. FrameOK(f)
      BY <3>1 DEF SweepInv, Framing
    <3>3. /\ net' = net /\ device' = device
          /\ \A d \in Controls : updated[d] => updated'[d] /\ current'[d] = current[d]
      OBVIOUS
    <3> QED BY <1>1, <3>1, <3>2, <3>3, FrameStable
  <2>3. CASE i = Len(stack) + 1
    <3>1. f.ctl = c /\ f.nc = 1 /\ f.count = 0
      BY <1>2, <2>1, <2>3 DEF Frame
    <3>2. Used(f.ctl)' = Used(f.ctl) /\ Used(f.ctl) \in Nat \ {0}
      BY <1>1, <3>1, InputsExist DEF Used
    <3>3. InputsDone(f.ctl, f.nc - 1)'
      BY <3>1 DEF InputsDone
    <3>4. TrueAmong(f.ctl, f.nc - 1)' = {}
      BY <3>1 DEF TrueAmong
    <3> QED BY <3>1, <3>2, <3>3, <3>4, FS_EmptySet DEF FrameOK
  <2> QED BY <1>3, <2>2, <2>3
<1>11. Untouched' /\ HeldOK' /\ Values'
  <2>1. Untouched' /\ HeldOK'
    BY DEF SweepInv, Untouched, HeldOK
  <2>2. Values'
    <3>1. \A d \in Controls : InputsDone(d, Used(d)) => InputsDone(d, Used(d))'
      BY DEF InputsDone, Used
    <3>2. \A d \in Controls : Agrees(d) => Agrees(d)'
      BY DEF Agrees, TrueInputs, InputState
    <3> QED BY <3>1, <3>2 DEF SweepInv, Values
  <2> QED BY <2>1, <2>2
<1>12. /\ net' \in Networks
       /\ ~(~Sweeping')
       /\ (\A d \in Controls : d < nc => updated[d])'
       /\ (runStart => \A d \in Controls : before[d] = net[d].initial)'
  BY DEF SweepInv, Sweeping
<1> QED BY <1>1, <1>7, <1>8, <1>9, <1>10, <1>11, <1>12 DEF SweepInv

(* CONTROL_LOOP_2 calls for a control that is not UPDATED, with no other     *)
(* call active.                                                              *)
LEMMA CallFromLoopInv == SweepInv /\ CallFromLoop => SweepInv'
<1> SUFFICES ASSUME SweepInv, CallFromLoop PROVE SweepInv'
  OBVIOUS
<1>1. nc \in Controls
  BY SizeAssumption DEF CallFromLoop, Sweeping, Controls, SweepInv, TypeOK
<1>2. Active = {}
  BY EmptySeq DEF CallFromLoop, Active
<1>3. ~updated[nc] /\ Push(nc) /\ Sweeping
  BY DEF CallFromLoop
<1>4. UNCHANGED <<net, device, now, runStart, current, tChange, updated, nc,
                  ctrlStop, coreDump, stopped, before, changed>>
  BY DEF CallFromLoop
<1> QED BY <1>1, <1>2, <1>3, <1>4, PushInv

(* A control calls for an input that is not UPDATED, which ranks below it.   *)
LEMMA CallFromInputInv == SweepInv /\ CallFromInput => SweepInv'
<1> SUFFICES ASSUME SweepInv, CallFromInput PROVE SweepInv'
  OBVIOUS
<1> DEFINE c == TopInput.id
<1>1. /\ TypeOK /\ Len(stack) \in Active /\ Len(stack) \in Nat
      /\ Top.ctl \in Controls /\ Top.nc \in 1..Used(Top.ctl)
  BY TopExists DEF SweepInv, CallFromInput
<1>2. TopInput = net[Top.ctl].inputs[Top.nc] /\ TopInput.type = "control" /\ ~updated[c]
  BY DEF CallFromInput, NeedsCall, TopInput, cfOf
<1>3. c \in Controls /\ c \in ControlInputs(net[Top.ctl])
  BY <1>1, <1>2, InputsExist
<1>4. ASSUME NEW rank \in [Controls -> Controls], Ranks(net, rank), NEW i \in Active
      PROVE  rank[c] < rank[stack[i].ctl]
  <2>1. rank[c] < rank[Top.ctl]
    BY <1>1, <1>3, <1>4 DEF Ranks
  <2>2. CASE i = Len(stack)
    BY <2>1, <2>2 DEF Top
  <2>3. CASE i # Len(stack)
    <3>1. i < Len(stack)
      BY <1>1, <2>3 DEF Active
    <3>2. rank[stack[Len(stack)].ctl] < rank[stack[i].ctl]
      BY <1>1, <1>4, <3>1 DEF SweepInv, Descent
    <3>3. stack[i].ctl \in Controls
      <4>1. stack \in Seq(Frames)
        BY <1>1 DEF TypeOK, Frames
      <4>2. stack[i] \in Frames
        BY <4>1, ElementOfSeq DEF Active
      <4> QED BY <4>2 DEF Frames
    <3>4. /\ rank[c] \in Int /\ rank[Top.ctl] \in Int /\ rank[stack[i].ctl] \in Int
      <4>1. Controls \subseteq Int
        BY SizeAssumption DEF Controls
      <4>2. /\ rank[c] \in Controls /\ rank[Top.ctl] \in Controls
            /\ rank[stack[i].ctl] \in Controls
        BY <1>1, <1>3, <3>3
      <4> QED BY <4>1, <4>2
    <3> QED BY <2>1, <3>2, <3>4 DEF Top
  <2> QED BY <2>2, <2>3
<1>5. Push(c) /\ Sweeping
  BY DEF CallFromInput
<1>6. UNCHANGED <<net, device, now, runStart, current, tChange, updated, nc,
                  ctrlStop, coreDump, stopped, before, changed>>
  BY DEF CallFromInput
<1> HIDE DEF c
<1> QED BY <1>2, <1>3, <1>4, <1>5, <1>6, PushInv DEF c

(* Reading an input adds it to what the frame has counted.                   *)
LEMMA ReadInputInv == SweepInv /\ ReadInput => SweepInv'
<1> SUFFICES ASSUME SweepInv, ReadInput PROVE SweepInv'
  OBVIOUS
<1>1. TypeOK /\ TypeOK'
  BY TypeStep DEF SweepInv, Next, Evaluate
<1>2. /\ Len(stack) \in Active /\ Len(stack) \in Nat /\ Top \in Frames /\ Top = stack[Len(stack)]
      /\ Top.ctl \in Controls /\ Top.nc \in 1..Used(Top.ctl)
  BY <1>1, TopExists DEF ReadInput, Top
<1>3. /\ Len(stack') = Len(stack)
      /\ \A i \in Active : i # Len(stack) => stack'[i] = stack[i]
      /\ stack'[Len(stack)] = Counted(Top)
  BY <1>1, StepFrame
<1>4. UNCHANGED <<net, device, now, runStart, current, prior, tChange, updated, nc, before>>
  BY DEF ReadInput, state
<1>5. Active' = Active
  BY <1>3 DEF Active
<1>6. \A i \in Active : stack'[i].ctl = stack[i].ctl
  BY <1>2, <1>3 DEF Counted
<1>7. Edges' /\ Open'
  BY <1>4, <1>5, <1>6 DEF SweepInv, Edges, Open
<1>8. Descent'
  BY <1>4, <1>5, <1>6 DEF SweepInv, Descent
<1>9. Framing'
  <2> SUFFICES ASSUME NEW f \in OnStack' PROVE FrameOK(f)'
    BY DEF Framing
  <2>1. PICK i \in Active : stack'[i] = f
    BY <1>5 DEF OnStack
  <2>2. CASE i # Len(stack)
    <3>1. f \in OnStack
      BY <1>3, <2>1, <2>2 DEF OnStack
    <3>2. FrameOK(f) /\ f \in Frames
      <4>1. stack \in Seq(Frames)
        BY <1>1 DEF TypeOK, Frames
      <4>2. stack[i] \in Frames
        BY <4>1, ElementOfSeq DEF Active
      <4> QED BY <1>3, <2>1, <2>2, <3>1, <4>2 DEF SweepInv, Framing
    <3> QED BY <1>1, <1>4, <3>2, FrameStable
  <2>3. CASE i = Len(stack)
    <3> DEFINE c == Top.ctl
               n == Top.nc
    <3>1. f = Counted(Top) /\ f.ctl = c /\ f.nc = n + 1 /\ f.nc - 1 = n
      BY <1>2, <1>3, <2>1, <2>3 DEF Counted
    <3>2. /\ n \in 1..Used(c) /\ InputsDone(c, n - 1)
          /\ Top.count = Cardinality(TrueAmong(c, n - 1))
      BY <1>2 DEF SweepInv, Framing, OnStack, FrameOK
    <3>3. Used(c) \in Nat
      BY <1>1, <1>2, InputsExist
    <3>4. f.nc \in 1..(Used(c) + 1)
      BY <3>1, <3>2, <3>3
    <3>5. TopInput = net[c].inputs[n]
      BY DEF TopInput, cfOf
    <3>6. InputsDone(c, n)
      <4>1. TopInput.type = "control" => updated[TopInput.id]
        BY DEF ReadInput, NeedsCall
      <4>2. \A k \in 1..n : k \in 1..(n - 1) \/ k = n
        BY <3>2, <3>3
      <4> QED BY <3>2, <3>5, <4>1, <4>2 DEF InputsDone
    <3>7. f.count = Cardinality(TrueAmong(c, n))
      <4>1. IsFiniteSet(TrueAmong(c, n - 1))
        <5>1. IsFiniteSet(1..(n - 1))
          <6>1. n - 1 \in Int
            BY <3>2, <3>3
          <6> QED BY <6>1, FS_Interval
        <5> QED BY <5>1, FS_Subset DEF TrueAmong
      <4>2. n \notin TrueAmong(c, n - 1)
        BY <3>2, <3>3 DEF TrueAmong
      <4>3. CASE InputState(TopInput)
        <5>1. TrueAmong(c, n) = TrueAmong(c, n - 1) \cup {n}
          BY <3>2, <3>3, <3>5, <4>3 DEF TrueAmong
        <5>2. Cardinality(TrueAmong(c, n)) = Cardinality(TrueAmong(c, n - 1)) + 1
          BY <4>1, <4>2, <5>1, FS_AddElement
        <5> QED BY <3>1, <3>2, <4>3, <5>2 DEF Counted
      <4>4. CASE ~InputState(TopInput)
        <5>1. TrueAmong(c, n) = TrueAmong(c, n - 1)
          BY <3>2, <3>3, <3>5, <4>4 DEF TrueAmong
        <5> QED BY <3>1, <3>2, <4>4, <5>1 DEF Counted
      <4> QED BY <4>3, <4>4
    <3>8. f \in Frames
      BY <1>1, <2>1, <1>5, ElementOfSeq DEF TypeOK, Frames, Active
    <3> HIDE DEF c, n
    <3>9. FrameOK(f)
      BY <3>1, <3>4, <3>6, <3>7 DEF FrameOK
    <3> QED BY <1>1, <1>4, <3>8, <3>9, FrameStable
  <2> QED BY <2>2, <2>3
<1>10. Untouched' /\ HeldOK' /\ Values'
  <2>1. Untouched' /\ HeldOK'
    BY <1>4 DEF SweepInv, Untouched, HeldOK
  <2>2. Values'
    <3>1. \A d \in Controls : InputsDone(d, Used(d)) => InputsDone(d, Used(d))'
      BY <1>4 DEF InputsDone, Used
    <3>2. \A d \in Controls : Agrees(d) => Agrees(d)'
      BY <1>4 DEF Agrees, TrueInputs, InputState
    <3> QED BY <1>4, <3>1, <3>2 DEF SweepInv, Values
  <2> QED BY <2>1, <2>2
<1>11. /\ net' \in Networks
       /\ ~(~Sweeping')
       /\ (\A d \in Controls : d < nc => updated[d])'
       /\ (runStart => \A d \in Controls : before[d] = net[d].initial)'
  BY <1>4 DEF SweepInv, Sweeping, ReadInput
<1> QED BY <1>1, <1>7, <1>8, <1>9, <1>10, <1>11 DEF SweepInv

(* The state that RETURN leaves is what the function makes of the inputs.    *)
LEMMA ReturnValue ==
  ASSUME SweepInv, NEW c \in Controls, ~updated[c],
         net' = net, device' = device, before' = before,
         \A d \in Controls :
           updated[d] => updated'[d] /\ current'[d] = current[d],
         InputsDone(c, Used(c)), NEW count,
         count = Cardinality(TrueAmong(c, Used(c))),
         current'[c] = NewState(c, count)
  PROVE  InputsDone(c, Used(c))' /\ Agrees(c)'
<1>1. TypeOK /\ Used(c) \in 0..Used(c)
  BY InputsExist DEF SweepInv
<1>2. Used(c)' = Used(c) /\ UsedInputs(net[c]) = 1..Used(c)
  BY <1>1, InputsExist DEF Used
<1>3. /\ \A k \in 1..Used(c) :
           /\ net[c].inputs[k].type = "control" => updated'[net[c].inputs[k].id]
           /\ InputState(net[c].inputs[k])' = InputState(net[c].inputs[k])
  <2> SUFFICES ASSUME NEW k \in 1..Used(c)
               PROVE  /\ net[c].inputs[k].type = "control" => updated'[net[c].inputs[k].id]
                      /\ InputState(net[c].inputs[k])' = InputState(net[c].inputs[k])
    OBVIOUS
  <2>1. /\ net[c].inputs[k] \in Inputs
        /\ net[c].inputs[k].type = "control" => net[c].inputs[k].id \in Controls
        /\ net[c].inputs[k].type = "control" => updated[net[c].inputs[k].id]
    BY <1>1, InputsExist DEF InputsDone
  <2>2. CASE net[c].inputs[k].type = "control"
    BY <2>1, <2>2 DEF InputState
  <2>3. CASE net[c].inputs[k].type # "control"
    <3>1. net[c].inputs[k].type = "device"
      BY <2>1, <2>3 DEF Inputs
    <3> QED BY <3>1 DEF InputState
  <2> QED BY <2>2, <2>3
<1>4. InputsDone(c, Used(c))'
  BY <1>2, <1>3 DEF InputsDone
<1>5. TrueInputs(c)' = TrueInputs(c) /\ TrueInputs(c) = TrueAmong(c, Used(c))
  BY <1>2, <1>3, Zenon DEF TrueInputs, TrueAmong
<1>6. count = Cardinality(TrueInputs(c)')
  BY <1>5
<1>7. current[c] = before[c]
  BY DEF SweepInv, Untouched
<1>8. net[c].kind \in Gates \cup {"KILL", "CORE_DUMP"} =>
        NewState(c, count) = StateFor(net[c], GateTrips(net[c], count))
  <2>1. CASE net[c].kind \in Gates \cup {"KILL", "CORE_DUMP"}
    <3>1. net[c].kind # "TIME_DELAY" /\ net[c].kind # "DEADBAND" /\ net[c].kind # "CUSTOM"
      BY <2>1 DEF Gates
    <3> QED BY <3>1, Zenon DEF NewState, cfOf
  <2> QED BY <2>1
<1>9. net[c].kind = "DEADBAND" =>
        NewState(c, count) =
          StateFor(net[c], DeadbandTrips(net[c], current[c], device[net[c].inputs[1].id].level))
  <2>1. CASE net[c].kind = "DEADBAND"
    <3>1. net[c].kind # "TIME_DELAY" /\ net[c].kind # "CUSTOM"
      BY <2>1
    <3> QED BY <2>1, <3>1, Zenon DEF NewState, cfOf
  <2> QED BY <2>1
<1>10. net[c].kind = "CUSTOM" =>
        NewState(c, count) =
          StateFor(net[c], CustomTrips(device[net[c].inputs[1].id].level))
  <2>1. CASE net[c].kind = "CUSTOM"
    <3>1. net[c].kind # "TIME_DELAY" /\ net[c].kind # "DEADBAND"
      BY <2>1
    <3> QED BY <2>1, <3>1, Zenon DEF NewState, cfOf
  <2> QED BY <2>1
<1>11. Agrees(c)'
  BY <1>6, <1>7, <1>8, <1>9, <1>10 DEF Agrees
<1> QED BY <1>4, <1>11

(* What holds when EVALUATE_CONTROL has looked at all inputs of a control:   *)
(* it is not latched, no other call is for it, and the inputs are read.      *)
LEMMA AtReturn ==
  ASSUME SweepInv, stack # << >>, ~MoreInputs
  PROVE  /\ Top.ctl \in Controls /\ ~updated[Top.ctl]
         /\ current[Top.ctl] = before[Top.ctl]
         /\ prior[Top.ctl] = before[Top.ctl]
         /\ ~Held(net[Top.ctl], before[Top.ctl], runStart)
         /\ InputsDone(Top.ctl, Used(Top.ctl))
         /\ Top.count = Cardinality(TrueAmong(Top.ctl, Used(Top.ctl)))
         /\ \A i \in Active : i < Len(stack) => stack[i].ctl # Top.ctl
<1> DEFINE c == Top.ctl
<1>1. /\ TypeOK /\ Len(stack) \in Active /\ Top \in Frames /\ Top = stack[Len(stack)]
      /\ c \in Controls /\ ~ (Top.nc <= Used(c))
  BY TopExists DEF SweepInv, Top
<1>2. ~updated[c] /\ prior[c] = before[c]
  BY <1>1 DEF SweepInv, Open, Edges
<1>3. current[c] = before[c] /\ ~Held(net[c], before[c], runStart)
  BY <1>1, <1>2 DEF SweepInv, Untouched, HeldOK
<1>4. FrameOK(Top) /\ Top \in OnStack
  BY <1>1 DEF SweepInv, Framing, OnStack
<1>5. Used(c) \in Nat
  BY <1>1, InputsExist
<1>6. Top.nc - 1 = Used(c)
  BY <1>1, <1>4, <1>5 DEF FrameOK
<1>7. InputsDone(c, Used(c)) /\ Top.count = Cardinality(TrueAmong(c, Used(c)))
  BY <1>4, <1>6 DEF FrameOK
<1>8. ASSUME NEW i \in Active, i < Len(stack), stack[i].ctl = c
      PROVE  FALSE
  <2>1. PICK rank \in [Controls -> Controls] : Ranks(net, rank)
    BY NetworksAssumption DEF SweepInv, Acyclic
  <2>2. rank[c] < rank[c]
    BY <1>1, <1>8, <2>1 DEF SweepInv, Descent
  <2>3. rank[c] \in Controls /\ Controls \subseteq Int
    BY <1>1, SizeAssumption DEF Controls
  <2> QED BY <2>2, <2>3
<1> QED BY <1>1, <1>2, <1>3, <1>7, <1>8

(* RETURN from EVALUATE_CONTROL.                                             *)
LEMMA ReturnInv == SweepInv /\ Return => SweepInv'
<1> SUFFICES ASSUME SweepInv, Return PROVE SweepInv'
  OBVIOUS
<1> DEFINE c == Top.ctl
<1>1. TypeOK /\ TypeOK'
  BY TypeStep DEF SweepInv, Next, Evaluate
<1>2. /\ c \in Controls /\ ~updated[c] /\ current[c] = before[c] /\ prior[c] = before[c]
      /\ ~Held(net[c], before[c], runStart)
      /\ InputsDone(c, Used(c)) /\ Top.count = Cardinality(TrueAmong(c, Used(c)))
      /\ \A i \in Active : i < Len(stack) => stack[i].ctl # c
  BY AtReturn DEF Return
<1>3. /\ current' = [current EXCEPT ![c] = NewState(c, Top.count)]
      /\ updated' = [updated EXCEPT ![c] = TRUE]
      /\ UNCHANGED <<net, device, now, runStart, prior, nc, stopped, before>>
  BY DEF Return
<1>4. /\ Len(stack') = Len(stack) - 1
      /\ \A i \in 1..Len(stack') : i \in Active /\ i < Len(stack) /\ stack'[i] = stack[i]
  BY <1>1, PopFrame DEF Return
<1>5. \A i \in Active' : i \in Active /\ i < Len(stack) /\ stack'[i] = stack[i]
  BY <1>4 DEF Active
<1>6. \A i \in Active : stack[i] \in Frames /\ stack[i].ctl \in Controls
  <2> SUFFICES ASSUME NEW i \in Active PROVE stack[i] \in Frames /\ stack[i].ctl \in Controls
    OBVIOUS
  <2>1. stack \in Seq(Frames)
    BY <1>1 DEF TypeOK, Frames
  <2>2. stack[i] \in Frames
    BY <2>1, ElementOfSeq DEF Active
  <2> QED BY <2>2 DEF Frames
<1> HIDE DEF c
<1>7. /\ updated'[c] /\ current'[c] = NewState(c, Top.count)
      /\ \A d \in Controls : d # c => updated'[d] = updated[d] /\ current'[d] = current[d]
  BY <1>1, <1>2, <1>3 DEF TypeOK
<1>8. \A d \in Controls : updated[d] => updated'[d] /\ current'[d] = current[d]
  BY <1>2, <1>7
<1>9. Untouched' /\ HeldOK'
  BY <1>2, <1>3, <1>7 DEF SweepInv, Untouched, HeldOK
<1>10. Edges'
  <2>1. \A d \in Controls : updated'[d] => prior'[d] = before'[d]
    BY <1>2, <1>3, <1>7 DEF SweepInv, Edges
  <2>2. \A i \in Active' : prior'[stack'[i].ctl] = before'[stack'[i].ctl]
    BY <1>3, <1>5 DEF SweepInv, Edges
  <2> QED BY <2>1, <2>2 DEF Edges
<1>11. Open'
  BY <1>2, <1>5, <1>6, <1>7 DEF SweepInv, Open
<1>12. Descent'
  BY <1>3, <1>5 DEF SweepInv, Descent
<1>13. Framing'
  <2> SUFFICES ASSUME NEW f \in OnStack' PROVE FrameOK(f)'
    BY DEF Framing
  <2>1. f \in OnStack /\ f \in Frames
    BY <1>5, <1>6 DEF OnStack
  <2>2. FrameOK(f)
    BY <2>1 DEF SweepInv, Framing
  <2>3. net' = net /\ device' = device
    BY <1>3
  <2> QED BY <1>1, <1>8, <2>1, <2>2, <2>3, FrameStable
<1>14. Values'
  <2> SUFFICES ASSUME NEW d \in Controls, updated'[d], ~Held(net'[d], before'[d], runStart')
               PROVE  InputsDone(d, Used(d))' /\ Agrees(d)'
    BY DEF Values
  <2>1. CASE d = c
    <3>1. /\ ~updated[d] /\ InputsDone(d, Used(d))
          /\ Top.count = Cardinality(TrueAmong(d, Used(d)))
          /\ current'[d] = NewState(d, Top.count)
      BY <1>2, <1>7, <2>1
    <3>2. net' = net /\ device' = device /\ before' = before
      BY <1>3
    <3> QED BY <1>8, <3>1, <3>2, ReturnValue
  <2>2. CASE d # c
    <3>1. updated[d] /\ ~Held(net[d], before[d], runStart)
      BY <1>3, <1>7, <2>2
    <3>2. InputsDone(d, Used(d)) /\ Agrees(d)
      BY <3>1 DEF SweepInv, Values
    <3> QED BY <1>1, <1>3, <1>8, <3>1, <3>2, ValueStable
  <2> QED BY <2>1, <2>2
<1>15. /\ net' \in Networks
       /\ ~(~Sweeping')
       /\ (\A d \in Controls : d < nc => updated[d])'
       /\ (runStart => \A d \in Controls : before[d] = net[d].initial)'
  BY <1>3, <1>7, <1>8 DEF SweepInv, Sweeping, Return
<1> QED BY <1>1, <1>9, <1>10, <1>11, <1>12, <1>13, <1>14, <1>15 DEF SweepInv

(* Steps that leave the controls alone.                                      *)
LEMMA OtherInv == SweepInv /\ (Stop \/ SkipUpdated \/ Finished \/ UNCHANGED vars) => SweepInv'
<1> SUFFICES ASSUME SweepInv, Stop \/ SkipUpdated \/ Finished \/ UNCHANGED vars
             PROVE  SweepInv'
  OBVIOUS
<1>1. TypeOK'
  BY TypeStep DEF SweepInv, Next, Evaluate
<1>2. UNCHANGED <<net, device, runStart, current, prior, updated, stack, before>>
  BY DEF Stop, SkipUpdated, Finished, vars, state
<1>3. \/ nc' = nc
      \/ nc' = nc + 1 /\ stack = << >> /\ updated[nc]
  BY DEF Stop, SkipUpdated, Finished, vars
<1>4. (\A c \in Controls : c < nc => updated[c])'
  <2>1. ASSUME NEW c \in Controls, c < nc' PROVE c < nc \/ updated[c]
    BY <1>3, <2>1, SizeAssumption DEF Controls, SweepInv, TypeOK
  <2> QED BY <1>2, <2>1 DEF SweepInv
<1>5. (~Sweeping => stack = << >>)'
  BY <1>2, <1>3 DEF SweepInv, Sweeping
<1>6. Untouched' /\ Edges' /\ Descent' /\ Open' /\ HeldOK'
  BY <1>2 DEF SweepInv, Untouched, Edges, Descent, Open, HeldOK, Active
<1>7. Framing'
  <2> SUFFICES ASSUME NEW f \in OnStack' PROVE FrameOK(f)'
    BY DEF Framing
  <2>1. PICK i \in Active : f = stack[i]
    BY <1>2 DEF OnStack, Active
  <2>2. f \in OnStack /\ FrameOK(f)
    BY <2>1 DEF OnStack, SweepInv, Framing
  <2>3. f \in Frames
    <3>1. stack \in Seq(Frames)
      BY DEF SweepInv, TypeOK, Frames
    <3> QED BY <2>1, <3>1, ElementOfSeq DEF Active
  <2>4. /\ TypeOK /\ net' = net /\ device' = device
        /\ \A d \in Controls : updated[d] => updated'[d] /\ current'[d] = current[d]
    BY <1>2 DEF SweepInv
  <2> QED BY <2>2, <2>3, <2>4, FrameStable
<1>8. Values'
  BY <1>2 DEF SweepInv, Values, InputsDone, Used, Agrees, TrueInputs, InputState
<1> QED BY <1>1, <1>2, <1>4, <1>5, <1>6, <1>7, <1>8 DEF SweepInv

-----------------------------------------------------------------------------
(* Theorems                                                                  *)

(* SweepInv is inductive.                                                    *)
LEMMA SweepStep == SweepInv /\ [Next]_vars => SweepInv'
  BY BeginSweepInv, CallFromLoopInv, CallFromInputInv, ReadInputInv, ReturnInv, OtherInv
  DEF Next, Evaluate

(* In every reachable state SweepInv holds.                                  *)
LEMMA SweepInvariant == Spec => []SweepInv
  BY SweepInit, SweepStep, PTL DEF Spec

(* After a sweep every control has been evaluated.                           *)
LEMMA SweepDone ==
  ASSUME SweepInv, ~Sweeping
  PROVE  \A c \in Controls : updated[c]
<1>1. \A c \in Controls : c < nc
  BY SizeAssumption DEF SweepInv, TypeOK, Sweeping, Controls
<1> QED BY <1>1 DEF SweepInv

(* After a sweep of UPDATE_CONTROLS over any network without cycles, every   *)
(* control that was evaluated has the state that its function makes of the   *)
(* states its inputs have after the sweep.                                   *)
THEOREM SweepIsConsistent == Spec => []Consistent
<1>1. SweepInv => Consistent
  BY SweepDone DEF Consistent, SweepInv, HeldOK, Values
<1> QED BY <1>1, SweepInvariant, PTL

(* After a sweep PRIOR_STATE and CURRENT_STATE differ exactly for the        *)
(* controls that changed state in it.                                        *)
THEOREM EdgesAreReported == Spec => []EdgesReported
<1>1. SweepInv => EdgesReported
  <2> SUFFICES ASSUME SweepInv, ~Sweeping PROVE prior = before
    BY DEF EdgesReported
  <2>1. \A c \in Controls : prior[c] = before[c]
    BY SweepDone DEF SweepInv, Edges
  <2>2. prior \in [Controls -> BOOLEAN] /\ before \in [Controls -> BOOLEAN]
    BY DEF SweepInv, TypeOK
  <2> QED BY <2>1, <2>2
<1> QED BY <1>1, SweepInvariant, PTL

(* A control with LATCH changes state at most once in a run.                 *)
THEOREM LatchesHold == Spec => LatchedOnce
<1> DEFINE Once == \A c \in Controls :
             net[c].latch /\ current[c] # net[c].initial => current'[c] = current[c]
<1>1. SweepInv /\ [Next]_vars => [Once]_vars
  <2> SUFFICES ASSUME SweepInv, [Next]_vars, ~ UNCHANGED vars,
                      NEW c \in Controls, net[c].latch, current[c] # net[c].initial
               PROVE  current'[c] = current[c]
    OBVIOUS
  <2>1. CASE Return
    <3>1. /\ Top.ctl \in Controls /\ current[Top.ctl] = before[Top.ctl]
          /\ ~Held(net[Top.ctl], before[Top.ctl], runStart)
      BY <2>1, AtReturn DEF Return
    <3>2. c # Top.ctl
      BY <3>1 DEF SweepInv, Held
    <3>3. current' = [current EXCEPT ![Top.ctl] = NewState(Top.ctl, Top.count)]
      BY <2>1 DEF Return
    <3> QED BY <3>1, <3>2, <3>3 DEF SweepInv, TypeOK
  <2>2. CASE ~Return
    <3>1. UNCHANGED current
      BY <2>2 DEF Next, Evaluate, BeginSweep, Stop, SkipUpdated, CallFromLoop,
                  CallFromInput, ReadInput, Finished, vars, state
    <3> QED BY <3>1
  <2> QED BY <2>1, <2>2
<1>2. [][Once]_vars => LatchedOnce
  BY PTL DEF LatchedOnce
<1> QED BY <1>1, <1>2, SweepInvariant, PTL DEF Spec

-----------------------------------------------------------------------------
(* The requests of a sweep                                                   *)

(* A control that has been evaluated in this sweep with an input TRUE.       *)
Asking(c) ==
  updated[c] /\ ~Held(net[c], before[c], runStart) /\ TrueInputs(c) # {}

(* A request stands from the moment the control that makes it returns.       *)
Requests ==
  /\ coreDump <=> \E c \in Controls : net[c].kind = "CORE_DUMP" /\ Asking(c)
  /\ ctrlStop <=> \E c \in Controls : net[c].kind = "KILL" /\ Asking(c)

(* No later step of the sweep changes whether an evaluated control asks.     *)
LEMMA AskingKept ==
  ASSUME SweepInv, net' = net, device' = device, before' = before,
         runStart' = runStart,
         \A d \in Controls :
           updated[d] => updated'[d] /\ current'[d] = current[d],
         NEW c \in Controls, updated[c]
  PROVE  Asking(c)' <=> Asking(c)
<1>1. TypeOK /\ updated'[c]
  BY DEF SweepInv
<1>2. CASE Held(net[c], before[c], runStart)
  <2>1. Held(net[c], before[c], runStart)'
    BY <1>2 DEF Held
  <2> QED BY <1>2, <2>1 DEF Asking
<1>3. CASE ~Held(net[c], before[c], runStart)
  <2>1. InputsDone(c, Used(c)) /\ Used(c) \in 0..Used(c)
    BY <1>1, <1>3, InputsExist DEF SweepInv, Values
  <2>2. TrueAmong(c, Used(c))' = TrueAmong(c, Used(c))
    <3>1. PICK m \in Nat : m = Used(c)
      BY <2>1
    <3>2. TrueAmong(c, m)' = TrueAmong(c, m)
      BY <1>1, <2>1, <3>1, ReadsStable
    <3>3. Used(c)' = m
      BY <3>1 DEF Used
    <3> QED BY <3>1, <3>2, <3>3 DEF TrueAmong
  <2>3. TrueInputs(c) = TrueAmong(c, Used(c)) /\ TrueInputs(c)' = TrueAmong(c, Used(c))'
    <3>1. UsedInputs(net[c]) = 1..Used(c) /\ UsedInputs(net[c])' = UsedInputs(net[c])
          /\ Used(c)' = Used(c)
      BY <1>1, InputsExist DEF Used
    <3> QED BY <3>1 DEF TrueInputs, TrueAmong
  <2>4. Held(net[c], before[c], runStart)' <=> Held(net[c], before[c], runStart)
    BY DEF Held
  <2> QED BY <1>1, <1>3, <2>2, <2>3, <2>4 DEF Asking
<1> QED BY <1>2, <1>3

(* No control has been evaluated at the start.                               *)
LEMMA RequestsInit == Init => Requests
  BY DEF Init, Requests, Asking

(* A sweep begins with no request: only what is latched counts as evaluated. *)
LEMMA RequestsBegin == SweepInv /\ BeginSweep => Requests'
<1> SUFFICES ASSUME SweepInv, BeginSweep PROVE Requests'
  OBVIOUS
<1>1. /\ coreDump' = FALSE /\ ctrlStop' = FALSE
      /\ net' = net /\ before' = current /\ runStart' = FALSE
      /\ updated' = [c \in Controls |-> Held(net[c], current[c], FALSE)]
  BY DEF BeginSweep
<1>2. \A c \in Controls : ~Asking(c)'
  BY <1>1 DEF Asking, Held
<1> QED BY <1>1, <1>2 DEF Requests

(* The control that returns asks if and only if its COUNTER is 1.            *)
LEMMA RequestsReturn == SweepInv /\ Requests /\ Return => Requests'
<1> SUFFICES ASSUME SweepInv, Requests, Return PROVE Requests'
  OBVIOUS
<1> DEFINE c == Top.ctl
<1>1. /\ c \in Controls /\ ~updated[c]
      /\ ~Held(net[c], before[c], runStart)
      /\ InputsDone(c, Used(c)) /\ Top.count = Cardinality(TrueAmong(c, Used(c)))
  BY AtReturn DEF Return
<1>2. /\ current' = [current EXCEPT ![c] = NewState(c, Top.count)]
      /\ updated' = [updated EXCEPT ![c] = TRUE]
      /\ ctrlStop' = (ctrlStop \/ (net[c].kind = "KILL" /\ Top.count = 1))
      /\ coreDump' = (coreDump \/ (net[c].kind = "CORE_DUMP" /\ Top.count = 1))
      /\ UNCHANGED <<net, device, runStart, before>>
  BY DEF Return, cfOf
<1>3. PICK count : count = Top.count
  OBVIOUS
<1>4. PICK k \in Controls : k = c
  BY <1>1
<1> HIDE DEF c
<1>5. \A d \in Controls : updated[d] => updated'[d] /\ current'[d] = current[d]
  BY <1>1, <1>2 DEF SweepInv, TypeOK
<1>6. updated'[k] /\ \A d \in Controls : d # k => updated'[d] = updated[d]
  BY <1>1, <1>2, <1>4 DEF SweepInv, TypeOK
<1>7. ASSUME NEW d \in Controls, d # k
      PROVE  Asking(d)' <=> Asking(d)
  <2>1. CASE updated[d]
    BY <1>2, <1>5, <2>1, AskingKept
  <2>2. CASE ~updated[d]
    BY <1>6, <1>7, <2>2 DEF Asking
  <2> QED BY <2>1, <2>2
<1>8. ~Asking(k)
  BY <1>1, <1>4 DEF Asking
<1>9. ASSUME net[k].kind \in {"KILL", "CORE_DUMP"}
      PROVE  Asking(k)' <=> count = 1
  <2>1. Used(k) = 1 /\ UsedInputs(net[k]) = {1} /\ UsedInputs(net[k])' = {1}
    BY <1>2, <1>9 DEF Used, UsedInputs, Gates
  <2>2. InputsDone(k, 1) /\ count = Cardinality(TrueAmong(k, 1))
    BY <1>1, <1>3, <1>4, <2>1
  <2>3. TrueAmong(k, 1)' = TrueAmong(k, 1)
    BY <1>2, <1>5, <2>1, <2>2, ReadsStable DEF SweepInv
  <2>4. TrueInputs(k)' = TrueAmong(k, 1)
    BY <2>1, <2>3 DEF TrueInputs, TrueAmong
  <2>5. Held(net[k], before[k], runStart)' = Held(net[k], before[k], runStart)
    BY <1>2 DEF Held
  <2>6. Asking(k)' <=> TrueAmong(k, 1) # {}
    BY <1>1, <1>4, <1>6, <2>4, <2>5 DEF Asking
  <2>7. TrueAmong(k, 1) = {} \/ TrueAmong(k, 1) = {1}
    BY DEF TrueAmong
  <2>8. Cardinality({}) = 0 /\ Cardinality({1}) = 1
    BY FS_EmptySet, FS_Singleton
  <2> QED BY <2>2, <2>6, <2>7, <2>8
<1>10. net' = net
  BY <1>2
<1>11. coreDump' <=> \E d \in Controls : net'[d].kind = "CORE_DUMP" /\ Asking(d)'
  BY <1>2, <1>3, <1>4, <1>7, <1>8, <1>9 DEF Requests
<1>12. ctrlStop' <=> \E d \in Controls : net'[d].kind = "KILL" /\ Asking(d)'
  BY <1>2, <1>3, <1>4, <1>7, <1>8, <1>9 DEF Requests
<1> QED BY <1>11, <1>12 DEF Requests

(* Every other step leaves the requests and what they rest on alone.         *)
LEMMA RequestsStep == SweepInv /\ Requests /\ [Next]_vars => Requests'
<1> SUFFICES ASSUME SweepInv, Requests, [Next]_vars PROVE Requests'
  OBVIOUS
<1>1. CASE BeginSweep
  BY <1>1, RequestsBegin
<1>2. CASE Return
  BY <1>2, RequestsReturn
<1>3. CASE ~BeginSweep /\ ~Return
  <2>1. UNCHANGED <<net, device, runStart, before, current, updated, ctrlStop, coreDump>>
    BY <1>3 DEF Next, Evaluate, Stop, SkipUpdated, CallFromLoop, CallFromInput,
                ReadInput, Finished, vars, state
  <2>2. \A c \in Controls : Asking(c)' <=> Asking(c)
    BY <2>1 DEF Asking, Held, TrueInputs, InputState
  <2> QED BY <2>1, <2>2 DEF Requests
<1> QED BY <1>1, <1>2, <1>3

(* After every sweep the run has been asked for restart files exactly when a *)
(* RESTART control that was evaluated has an input that is TRUE, and for a   *)
(* stop exactly when a KILL control has; nothing is left over from the sweep *)
(* before.                                                                   *)
THEOREM RequestsAlwaysCurrent == Spec => []RequestsCurrent
<1>1. SweepInv /\ Requests => RequestsCurrent
  <2> SUFFICES ASSUME SweepInv, Requests, ~Sweeping
               PROVE  coreDump = Asks("CORE_DUMP") /\ ctrlStop = Asks("KILL")
    BY DEF RequestsCurrent
  <2>1. \A c \in Controls : updated[c]
    BY SweepDone
  <2>2. coreDump \in BOOLEAN /\ ctrlStop \in BOOLEAN
    BY DEF SweepInv, TypeOK
  <2>3. /\ coreDump <=> Asks("CORE_DUMP")
        /\ ctrlStop <=> Asks("KILL")
    BY <2>1 DEF Requests, Asking, Asks
  <2>4. Asks("CORE_DUMP") \in BOOLEAN /\ Asks("KILL") \in BOOLEAN
    BY DEF Asks
  <2> QED BY <2>2, <2>3, <2>4
<1>2. Spec => []Requests
  <2>1. Init => Requests
    BY RequestsInit
  <2> QED BY <2>1, RequestsStep, SweepInvariant, PTL DEF Spec
<1> QED BY <1>1, <1>2, SweepInvariant, PTL

(* A thermostat changes state only when its device is beyond the setpoint on *)
(* that side, whatever the controls around it are.                           *)
THEOREM ThermostatsHaveHysteresis == Spec => Hysteresis
<1> DEFINE Beyond == \A c \in Controls :
             net[c].kind = "DEADBAND" /\ current'[c] # current[c] =>
               LET turnsOn == current[c] = net[c].initial
               IN  device[net[c].inputs[1].id].level =
                     IF turnsOn = net[c].upper THEN Above ELSE Below
<1>1. SweepInv /\ [Next]_vars => [Beyond]_vars
  <2> SUFFICES ASSUME SweepInv, [Next]_vars, ~ UNCHANGED vars,
                      NEW c \in Controls, net[c].kind = "DEADBAND",
                      current'[c] # current[c]
               PROVE  device[net[c].inputs[1].id].level =
                        IF (current[c] = net[c].initial) = net[c].upper
                        THEN Above ELSE Below
    OBVIOUS
  <2>1. Return
    <3>1. ~Return => UNCHANGED current
      BY DEF Next, Evaluate, BeginSweep, Stop, SkipUpdated, CallFromLoop,
             CallFromInput, ReadInput, Finished, vars, state
    <3> QED BY <3>1
  <2>2. current' = [current EXCEPT ![Top.ctl] = NewState(Top.ctl, Top.count)]
    BY <2>1 DEF Return
  <2>3. c = Top.ctl /\ current'[c] = NewState(c, Top.count)
    BY <2>2 DEF SweepInv, TypeOK
  <2>4. PICK level : level = device[net[c].inputs[1].id].level
    OBVIOUS
  <2>5. NewState(c, Top.count) =
          StateFor(net[c], DeadbandTrips(net[c], current[c], level))
    BY <2>4, Zenon DEF NewState, cfOf
  <2>6. /\ net[c].initial \in BOOLEAN /\ net[c].upper \in BOOLEAN
        /\ current[c] \in BOOLEAN
    BY DEF SweepInv, TypeOK, WellFormed
  <2>7. StateFor(net[c], DeadbandTrips(net[c], current[c], level)) # current[c]
    BY <2>3, <2>5
  <2>8. CASE current[c] = net[c].initial
    <3>1. DeadbandTrips(net[c], current[c], level)
      BY <2>6, <2>7, <2>8 DEF StateFor
    <3> QED BY <2>4, <2>6, <2>8, <3>1 DEF DeadbandTrips
  <2>9. CASE current[c] # net[c].initial
    <3>1. ~DeadbandTrips(net[c], current[c], level)
      BY <2>6, <2>7, <2>9 DEF StateFor
    <3> QED BY <2>4, <2>6, <2>9, <3>1 DEF DeadbandTrips
  <2> QED BY <2>8, <2>9
<1>2. [][Beyond]_vars => Hysteresis
  BY PTL DEF Hysteresis
<1> QED BY <1>1, <1>2, SweepInvariant, PTL DEF Spec

-----------------------------------------------------------------------------
(* Timers                                                                    *)
(*                                                                           *)
(* What the properties of the timers need of a network: a DELAY that is not  *)
(* zero, and no ONLY or AT_LEAST function as the input, whose T_CHANGE is    *)
(* not the time at which it changed when none of its inputs is TRUE.  Times  *)
(* stay below the one that stands for Never.                                 *)
DatedInputs(n) ==
  \A c \in Controls :
    n[c].kind = "TIME_DELAY" /\ ~n[c].latch =>
      /\ n[c].delay > 0
      /\ n[c].inputs[1].type = "control" =>
           n[n[c].inputs[1].id].kind \notin {"XOR_GATE", "X_OF_N_GATE"}

ProperTimers == MaxT < Never /\ \A n \in Networks : DatedInputs(n)

(* T_CHANGE is the time of the change.                                       *)
Dated ==
  \A c \in Controls :
    net[c].kind \notin {"XOR_GATE", "X_OF_N_GATE"} => tChange[c] = changed[c]

(* Changes are past, and those of this sweep are of controls that have been  *)
(* evaluated.                                                                *)
ChangesPast ==
  /\ \A c \in Controls : changed[c] = Never \/ changed[c] <= now
  /\ \A c \in Controls : ~updated[c] => changed[c] = Never \/ changed[c] < now
  /\ \A d \in Devices : device[d].tChange = Never \/ device[d].tChange <= now

(* A timer does not change state in the same sweep as its input.             *)
NeverTogether == \A c \in Delays : changed[c] = Never \/ changed[c] # InputChanged(c)

(* A timer that has been evaluated has changed state if it had to.           *)
Expired(c) ==
  InputChanged(c) # Never /\ InputChanged(c) + net[c].delay <= now
    => changed[c] # Never /\ changed[c] >= InputChanged(c)

Timing ==
  /\ Dated
  /\ ChangesPast
  /\ NeverTogether
  /\ \A c \in Delays : updated[c] => Expired(c)

(* The input of a timer is a device or another control, which has been       *)
(* evaluated if the timer has.                                               *)
LEMMA TimerInput ==
  ASSUME ProperTimers, SweepInv, NEW c \in Delays
  PROVE  /\ c \in Controls /\ net[c].delay \in Nat \ {0}
         /\ net[c].inputs[1] \in Inputs
         /\ net[c].inputs[1].type = "control" =>
              /\ net[c].inputs[1].id \in Controls \ {c}
              /\ net[net[c].inputs[1].id].kind \notin {"XOR_GATE", "X_OF_N_GATE"}
              /\ updated[c] => updated[net[c].inputs[1].id]
<1>1. c \in Controls /\ net[c].kind = "TIME_DELAY" /\ ~net[c].latch
  BY DEF Delays
<1>2. TypeOK /\ Used(c) = 1
  BY <1>1 DEF SweepInv, Used, Gates
<1>3. /\ net[c].inputs[1] \in Inputs
      /\ net[c].inputs[1].type = "control" => net[c].inputs[1].id \in Controls \ {c}
  BY <1>1, <1>2, InputsExist
<1>4. /\ net[c].delay > 0
      /\ net[c].inputs[1].type = "control" =>
           net[net[c].inputs[1].id].kind \notin {"XOR_GATE", "X_OF_N_GATE"}
  BY <1>1 DEF ProperTimers, DatedInputs, SweepInv
<1>5. net[c].delay \in Nat
  BY <1>1, <1>2 DEF TypeOK, WellFormed
<1>6. ASSUME updated[c], net[c].inputs[1].type = "control"
      PROVE  updated[net[c].inputs[1].id]
  <2>1. ~Held(net[c], before[c], runStart)
    BY <1>1 DEF Held
  <2>2. InputsDone(c, 1)
    BY <1>1, <1>2, <1>6, <2>1 DEF SweepInv, Values
  <2> QED BY <1>6, <2>2 DEF InputsDone
<1> QED BY <1>1, <1>3, <1>4, <1>5, <1>6

(* The time at which EVALUATE_CONTROL sees the input change is the right one.*)
LEMMA TimerSees ==
  ASSUME ProperTimers, SweepInv, Timing, NEW c \in Delays
  PROVE  /\ InputChange(net[c].inputs[1]) = InputChanged(c)
         /\ InputChanged(c) \in {Never} \cup 0..MaxT
         /\ InputChanged(c) = Never \/ InputChanged(c) <= now
<1>1. TypeOK
  BY DEF SweepInv
<1>2. CASE net[c].inputs[1].type = "control"
  BY <1>1, <1>2, TimerInput DEF InputChange, InputChanged, Timing, Dated, ChangesPast, TypeOK
<1>3. CASE net[c].inputs[1].type # "control"
  <2>1. net[c].inputs[1].type = "device" /\ net[c].inputs[1].id \in Devices
    BY <1>3, TimerInput DEF Inputs
  <2>2. device[net[c].inputs[1].id].tChange \in {Never} \cup 0..MaxT
    BY <1>1, <2>1 DEF TypeOK
  <2> QED BY <2>1, <2>2 DEF InputChange, InputChanged, Timing, ChangesPast
<1> QED BY <1>2, <1>3

(* Nothing has changed at the start.                                       *)
LEMMA TimingInit == Init => Timing
<1> SUFFICES ASSUME Init PROVE Timing
  OBVIOUS
<1>1. /\ tChange = [c \in Controls |-> Never] /\ changed = tChange
      /\ updated = [c \in Controls |-> FALSE] /\ now = 0
  BY DEF Init
<1>2. \A d \in Devices : device[d].tChange \in {0, Never}
  BY DEF Init
<1>3. \A c \in Controls : changed[c] = Never /\ ~updated[c]
  BY <1>1
<1> QED BY <1>1, <1>2, <1>3 DEF Timing, Dated, ChangesPast, NeverTogether, Delays

(* Devices change at the start of a sweep, later than all controls.          *)
LEMMA BeginSweepTiming ==
  ASSUME ProperTimers, SweepInv, Timing, BeginSweep
  PROVE  Timing'
<1>1. /\ net' = net /\ tChange' = tChange /\ changed' = changed /\ now' = now + 1
      /\ updated' = [c \in Controls |-> Held(net[c], current[c], FALSE)]
  BY DEF BeginSweep
<1>2. TypeOK /\ now \in Nat
  BY DEF SweepInv, TypeOK
<1>3. ASSUME NEW d \in Devices
      PROVE  \/ device'[d].tChange = device[d].tChange
             \/ device'[d].tChange = now + 1
  BY DEF BeginSweep
<1>4. \A d \in Devices : device[d].tChange \in Int
  BY <1>2 DEF TypeOK, Never
<1>5. \A c \in Controls : changed[c] \in Int
  BY <1>2 DEF TypeOK, Never
<1>6. Dated'
  BY <1>1 DEF Timing, Dated
<1>7. \A d \in Devices : device'[d].tChange = Never \/ device'[d].tChange <= now + 1
  BY <1>2, <1>3, <1>4 DEF Timing, ChangesPast
<1>8. ChangesPast'
  <2>1. ASSUME NEW c \in Controls
        PROVE  \/ changed'[c] = Never
               \/ changed'[c] <= now' /\ changed'[c] < now'
    <3>1. changed[c] = Never \/ changed[c] <= now
      BY DEF Timing, ChangesPast
    <3>2. changed'[c] = changed[c] /\ changed[c] \in Int /\ now' = now + 1 /\ now \in Int
      BY <1>1, <1>2, <1>5
    <3> QED BY <3>1, <3>2
  <2>2. ASSUME NEW d \in Devices
        PROVE  device'[d].tChange = Never \/ device'[d].tChange <= now'
    BY <1>1, <1>7
  <2> QED BY <2>1, <2>2 DEF ChangesPast
<1>9. ASSUME NEW c \in Delays'
      PROVE  ~updated'[c] /\ (changed'[c] = Never \/ changed'[c] # InputChanged(c)')
  <2>1. c \in Delays /\ c \in Controls /\ ~net[c].latch
    BY <1>1 DEF Delays
  <2>2. ~updated'[c]
    BY <1>1, <2>1 DEF Held
  <2>3. changed[c] = Never \/ changed[c] # InputChanged(c)
    BY <2>1 DEF Timing, NeverTogether
  <2>4. changed[c] = Never \/ changed[c] <= now
    BY <2>1 DEF Timing, ChangesPast
  <2>5. InputChanged(c)' = InputChanged(c) \/ InputChanged(c)' = now + 1
    <3>1. CASE net[c].inputs[1].type = "control"
      BY <1>1, <3>1, <2>1, TimerInput DEF InputChanged
    <3>2. CASE net[c].inputs[1].type # "control"
      <4>1. net[c].inputs[1].type = "device" /\ net[c].inputs[1].id \in Devices
        BY <2>1, <3>2, TimerInput DEF Inputs
      <4> QED BY <1>1, <1>3, <4>1 DEF InputChanged
    <3> QED BY <3>1, <3>2
  <2>6. changed'[c] = changed[c] /\ changed[c] \in Int /\ now \in Int
    BY <1>1, <1>2, <1>5, <2>1
  <2>7. changed[c] = Never \/ changed[c] # InputChanged(c)'
    BY <2>3, <2>4, <2>5, <2>6
  <2> QED BY <2>2, <2>6, <2>7
<1>10. NeverTogether' /\ (\A c \in Delays : updated[c] => Expired(c))'
  BY <1>9 DEF NeverTogether
<1> QED BY <1>6, <1>8, <1>10 DEF Timing

(* What RETURN does to a control and its times.                              *)
LEMMA ReturnTimes ==
  ASSUME SweepInv, Return, NEW d \in Controls
  PROVE  /\ Top.ctl \in Controls /\ ~updated[Top.ctl]
         /\ d # Top.ctl => /\ updated'[d] = updated[d] /\ changed'[d] = changed[d]
                           /\ tChange'[d] = tChange[d] /\ current'[d] = current[d]
         /\ d = Top.ctl =>
              /\ updated'[d] /\ current'[d] = NewState(d, Top.count)
              /\ changed'[d] = IF NewState(d, Top.count) # current[d] THEN now ELSE changed[d]
              /\ tChange'[d] = IF NewState(d, Top.count) # current[d]
                               THEN ChangeTime(d, Top.count) ELSE tChange[d]
         /\ net' = net /\ device' = device /\ now' = now
<1>1. /\ Top.ctl \in Controls /\ ~updated[Top.ctl]
      /\ current[Top.ctl] = before[Top.ctl] /\ prior[Top.ctl] = before[Top.ctl]
  BY AtReturn DEF Return
<1> DEFINE c == Top.ctl
           new == NewState(c, Top.count)
<1>2. /\ current' = [current EXCEPT ![c] = new]
      /\ tChange' = [tChange EXCEPT ![c] =
                       IF new # prior[c] THEN ChangeTime(c, Top.count) ELSE @]
      /\ changed' = [changed EXCEPT ![c] = IF new # current[c] THEN now ELSE @]
      /\ updated' = [updated EXCEPT ![c] = TRUE]
      /\ net' = net /\ device' = device /\ now' = now
  BY DEF Return
<1>3. /\ DOMAIN current = Controls /\ DOMAIN tChange = Controls
      /\ DOMAIN changed = Controls /\ DOMAIN updated = Controls
  BY DEF SweepInv, TypeOK
<1> HIDE DEF new
<1>4. CASE d # c
  BY <1>1, <1>2, <1>3, <1>4
<1>5. CASE d = c
  BY <1>1, <1>2, <1>3, <1>5 DEF new
<1> QED BY <1>1, <1>2, <1>4, <1>5

(* A timer that returns.                                                     *)
LEMMA TimerReturns ==
  ASSUME ProperTimers, SweepInv, Timing, Return, NEW c \in Delays, c = Top.ctl
  PROVE  /\ current'[c] # current[c] =>
              /\ now - InputChanged(c) >= net[c].delay
              /\ changed[c] = Never \/ changed[c] < InputChanged(c)
         /\ changed'[c] = IF current'[c] # current[c] THEN now ELSE changed[c]
         /\ current'[c] = current[c] =>
              \/ ~ (now - InputChanged(c) >= net[c].delay)
              \/ changed[c] # Never /\ changed[c] > InputChanged(c)
<1>1. c \in Controls /\ net[c].kind = "TIME_DELAY"
  BY DEF Delays
<1>2. current[c] = prior[c] /\ current[c] \in BOOLEAN
  BY <1>1, AtReturn DEF Return, SweepInv, TypeOK
<1>3. current'[c] = NewState(c, Top.count)
      /\ changed'[c] = IF NewState(c, Top.count) # current[c] THEN now ELSE changed[c]
  BY <1>1, ReturnTimes
<1>4. NewState(c, Top.count) =
        IF DelayFlips(net[c], now, tChange[c], InputChange(net[c].inputs[1]))
        THEN ~prior[c] ELSE current[c]
  BY <1>1, Zenon DEF NewState, cfOf
<1>5. InputChange(net[c].inputs[1]) = InputChanged(c) /\ tChange[c] = changed[c]
  BY <1>1, TimerSees DEF Timing, Dated
<1>6. current'[c] # current[c] <=> DelayFlips(net[c], now, changed[c], InputChanged(c))
  BY <1>2, <1>3, <1>4, <1>5
<1>7. changed[c] = Never \/ changed[c] # InputChanged(c)
  BY DEF Timing, NeverTogether
<1>8. /\ now \in Int /\ net[c].delay \in Int /\ changed[c] \in Int
      /\ InputChanged(c) \in Int
  BY <1>1, TimerInput, TimerSees DEF SweepInv, TypeOK, Never
<1>9. changed'[c] = IF current'[c] # current[c] THEN now ELSE changed[c]
  BY <1>3
<1> QED BY <1>6, <1>7, <1>8, <1>9 DEF DelayFlips

(* RETURN keeps the times right.                                             *)
LEMMA ReturnTiming ==
  ASSUME ProperTimers, SweepInv, Timing, Return
  PROVE  Timing'
<1>1. TypeOK /\ now \in 0..MaxT /\ MaxT < Never /\ MaxT \in Nat
  BY SizeAssumption DEF SweepInv, TypeOK, ProperTimers
<1>2. \A c \in Controls : changed[c] \in Int
  BY <1>1 DEF TypeOK, Never
<1>3. net' = net /\ device' = device /\ now' = now
  BY DEF Return
<1>4. Dated'
  <2> SUFFICES ASSUME NEW c \in Controls, net[c].kind \notin {"XOR_GATE", "X_OF_N_GATE"}
               PROVE  tChange'[c] = changed'[c]
    BY <1>3 DEF Dated
  <2>1. tChange[c] = changed[c]
    BY DEF Timing, Dated
  <2>2. ChangeTime(c, Top.count) = now
    BY DEF ChangeTime, cfOf
  <2> QED BY <2>1, <2>2, ReturnTimes
<1>5. ChangesPast'
  <2>1. ASSUME NEW c \in Controls
        PROVE  /\ changed'[c] = Never \/ changed'[c] <= now
               /\ ~updated'[c] => changed'[c] = Never \/ changed'[c] < now
    <3>1. CASE c = Top.ctl
      BY <1>1, <1>2, <3>1, ReturnTimes DEF Timing, ChangesPast
    <3>2. CASE c # Top.ctl
      BY <3>2, ReturnTimes DEF Timing, ChangesPast
    <3> QED BY <3>1, <3>2
  <2> QED BY <1>3, <2>1 DEF Timing, ChangesPast
<1>6. ASSUME NEW c \in Delays
      PROVE  /\ changed'[c] = Never \/ changed'[c] # InputChanged(c)'
             /\ updated'[c] => Expired(c)'
  <2>0. /\ c \in Controls /\ net[c].delay \in Nat \ {0}
        /\ InputChanged(c) \in Int
    BY TimerInput, TimerSees DEF Never
  <2>1. CASE c = Top.ctl
    <3>1. InputChanged(c)' = InputChanged(c)
      <4>1. CASE net[c].inputs[1].type = "control"
        BY <1>3, <2>1, <4>1, TimerInput, ReturnTimes DEF InputChanged
      <4>2. CASE net[c].inputs[1].type # "control"
        <5>1. net[c].inputs[1].type = "device"
          BY <4>2, TimerInput DEF Inputs
        <5> QED BY <1>3, <5>1 DEF InputChanged
      <4> QED BY <4>1, <4>2
    <3>2. CASE current'[c] # current[c]
      <4>1. changed'[c] = now /\ now - InputChanged(c) >= net[c].delay
        BY <2>1, <3>2, TimerReturns
      <4>2. now # Never /\ now \in Int /\ now > InputChanged(c)
        BY <1>1, <2>0, <4>1 DEF Never
      <4> QED BY <1>3, <3>1, <4>1, <4>2, <2>0 DEF Expired
    <3>3. CASE current'[c] = current[c]
      <4>1. /\ changed'[c] = changed[c]
            /\ \/ ~ (now - InputChanged(c) >= net[c].delay)
               \/ changed[c] # Never /\ changed[c] > InputChanged(c)
        BY <2>1, <3>3, TimerReturns
      <4>2. changed[c] = Never \/ changed[c] # InputChanged(c)
        BY DEF Timing, NeverTogether
      <4>3. now \in Int /\ changed[c] \in Int
        BY <1>1, <1>2, <2>0
      <4>4. Expired(c)'
        BY <1>3, <2>0, <3>1, <4>1, <4>3 DEF Expired
      <4> QED BY <3>1, <4>1, <4>2, <4>4
    <3> QED BY <3>2, <3>3
  <2>2. CASE c # Top.ctl
    <3>1. changed'[c] = changed[c] /\ updated'[c] = updated[c]
      BY <2>0, <2>2, ReturnTimes
    <3>2. CASE InputChanged(c)' = InputChanged(c)
      BY <1>3, <3>1, <3>2 DEF Timing, NeverTogether, Expired
    <3>3. CASE InputChanged(c)' # InputChanged(c)
      <4>1. net[c].inputs[1].type = "control" /\ net[c].inputs[1].id = Top.ctl
        <5>1. CASE net[c].inputs[1].type = "control"
          BY <1>3, <3>3, <5>1, TimerInput, ReturnTimes DEF InputChanged
        <5>2. CASE net[c].inputs[1].type # "control"
          <6>1. net[c].inputs[1].type = "device"
            BY <5>2, TimerInput DEF Inputs
          <6> QED BY <1>3, <3>3, <6>1 DEF InputChanged
        <5> QED BY <5>1, <5>2
      <4>2. InputChanged(c)' = now
        BY <1>3, <3>3, <4>1, TimerInput, ReturnTimes DEF InputChanged
      <4>3. ~updated[c]
        BY <2>0, <4>1, TimerInput, ReturnTimes
      <4>4. changed[c] = Never \/ changed[c] < now
        BY <2>0, <4>3 DEF Timing, ChangesPast
      <4> QED BY <1>1, <1>2, <2>0, <3>1, <4>2, <4>3, <4>4
    <3> QED BY <3>2, <3>3
  <2> QED BY <2>1, <2>2
<1>7. NeverTogether' /\ (\A c \in Delays : updated[c] => Expired(c))'
  <2>1. Delays' = Delays
    BY <1>3 DEF Delays
  <2> QED BY <1>6, <2>1 DEF NeverTogether
<1> QED BY <1>4, <1>5, <1>7 DEF Timing

(* Every step keeps the times right.                                       *)
LEMMA TimingStep ==
  ASSUME ProperTimers
  PROVE  SweepInv /\ Timing /\ [Next]_vars => Timing'
<1> SUFFICES ASSUME SweepInv, Timing, [Next]_vars PROVE Timing'
  OBVIOUS
<1>1. CASE BeginSweep
  BY <1>1, BeginSweepTiming
<1>2. CASE Return
  BY <1>2, ReturnTiming
<1>3. CASE ~BeginSweep /\ ~Return
  <2>1. UNCHANGED <<net, device, now, tChange, changed, updated>>
    BY <1>3 DEF Next, Evaluate, Stop, SkipUpdated, CallFromLoop, CallFromInput,
                ReadInput, Finished, vars, state
  <2> QED BY <2>1 DEF Timing, Dated, ChangesPast, NeverTogether, Expired, InputChanged, Delays
<1> QED BY <1>1, <1>2, <1>3

(* The times are right at every moment.                                    *)
LEMMA TimingHolds ==
  ASSUME ProperTimers
  PROVE  Spec => [](SweepInv /\ Timing)
<1>1. Init => SweepInv /\ Timing
  BY SweepInit, TimingInit
<1>2. SweepInv /\ Timing /\ [Next]_vars => (SweepInv /\ Timing)'
  BY SweepStep, TimingStep
<1> QED BY <1>1, <1>2, PTL DEF Spec

(* A timer whose input has kept its state for DELAY has followed it after    *)
(* every sweep, in any network without the two kinds of timers that do not.  *)
THEOREM TimersExpire ==
  ASSUME ProperTimers
  PROVE  Spec => []DelayExpires
<1>1. SweepInv /\ Timing => DelayExpires
  <2> SUFFICES ASSUME SweepInv, Timing, ~Sweeping, NEW c \in Delays
               PROVE  Expired(c)
    BY DEF DelayExpires, Expired
  <2>1. updated[c]
    BY SweepDone DEF Delays
  <2> QED BY <2>1 DEF Timing
<1> QED BY <1>1, TimingHolds, PTL

(* A timer changes state once for every change of its input, and not before  *)
(* DELAY has passed.                                                         *)
THEOREM TimersFlipOnce ==
  ASSUME ProperTimers
  PROVE  Spec => DelayOnce
<1> DEFINE Once == \A c \in Delays :
       current'[c] # current[c] =>
         /\ now - InputChanged(c) >= net[c].delay
         /\ changed[c] = Never \/ changed[c] < InputChanged(c)
<1>1. SweepInv /\ Timing /\ [Next]_vars => [Once]_vars
  <2> SUFFICES ASSUME SweepInv, Timing, [Next]_vars, ~ UNCHANGED vars,
                      NEW c \in Delays, current'[c] # current[c]
               PROVE  /\ now - InputChanged(c) >= net[c].delay
                      /\ changed[c] = Never \/ changed[c] < InputChanged(c)
    OBVIOUS
  <2>1. Return
    <3>1. ~Return => UNCHANGED current
      BY DEF Next, Evaluate, BeginSweep, Stop, SkipUpdated, CallFromLoop,
             CallFromInput, ReadInput, Finished, vars, state
    <3> QED BY <3>1
  <2>2. c = Top.ctl
    BY <2>1, ReturnTimes DEF Delays
  <2> QED BY <2>1, <2>2, TimerReturns
<1>2. [][Once]_vars => DelayOnce
  BY PTL DEF DelayOnce
<1> QED BY <1>1, <1>2, TimingHolds, PTL DEF Spec
-----------------------------------------------------------------------------
(* The outcome of a sweep                                                    *)

(* An input when the controls have the states new.                           *)
StateIn(new, in) == IF in.type = "device" THEN device[in.id].on ELSE new[in.id]

(* What the states before the sweep, the devices and the inputs make of a    *)
(* control.  A timer, which depends on times, is taken as it is.             *)
Determined(new, c) ==
  LET cf    == net[c]
      level == device[cf.inputs[1].id].level
      count == Cardinality({k \in UsedInputs(cf) : StateIn(new, cf.inputs[k])})
  IN  CASE Held(cf, before[c], runStart) -> before[c]
        [] ~Held(cf, before[c], runStart) /\ cf.kind = "TIME_DELAY" -> current[c]
        [] ~Held(cf, before[c], runStart) /\ cf.kind = "DEADBAND" ->
             StateFor(cf, DeadbandTrips(cf, before[c], level))
        [] ~Held(cf, before[c], runStart) /\ cf.kind = "CUSTOM" ->
             StateFor(cf, CustomTrips(level))
        [] OTHER -> StateFor(cf, GateTrips(cf, count))

(* The whole network in one recursion, in which no order of declaration, no  *)
(* UPDATED and no stack occurs.                                              *)
Outcome == LET new[c \in Controls] == Determined(new, c) IN new

(* Only the inputs of a control matter to it.                                *)
LEMMA DeterminedByInputs ==
  ASSUME NEW f, NEW g, NEW c \in Controls,
         \A k \in UsedInputs(net[c]) :
           StateIn(f, net[c].inputs[k]) = StateIn(g, net[c].inputs[k])
  PROVE  Determined(f, c) = Determined(g, c)
<1>1. {k \in UsedInputs(net[c]) : StateIn(f, net[c].inputs[k])}
        = {k \in UsedInputs(net[c]) : StateIn(g, net[c].inputs[k])}
  OBVIOUS
<1> QED BY <1>1, Zenon DEF Determined

(* After a sweep every control is what is determined by the others.          *)
LEMMA SweepSettles ==
  ASSUME SweepInv, ~Sweeping, NEW c \in Controls
  PROVE  current[c] = Determined(current, c)
<1> DEFINE cf == net[c]
           level == device[cf.inputs[1].id].level
           count == Cardinality({k \in UsedInputs(cf) : StateIn(current, cf.inputs[k])})
<1>1. IF Held(cf, before[c], runStart) THEN current[c] = before[c] ELSE Agrees(c)
  BY SweepDone DEF SweepInv, HeldOK, Values
<1>2. {k \in UsedInputs(cf) : StateIn(current, cf.inputs[k])} = TrueInputs(c)
  BY DEF TrueInputs, StateIn, InputState
<1>3. cf.kind \in Kinds
  BY DEF SweepInv, TypeOK, WellFormed
<1>4. CASE Held(cf, before[c], runStart)
  BY <1>1, <1>4 DEF Determined
<1>5. CASE ~Held(cf, before[c], runStart) /\ cf.kind = "TIME_DELAY"
  BY <1>5 DEF Determined
<1>6. CASE ~Held(cf, before[c], runStart) /\ cf.kind = "DEADBAND"
  <2>1. Determined(current, c) = StateFor(cf, DeadbandTrips(cf, before[c], level))
    BY <1>6 DEF Determined
  <2> QED BY <1>1, <1>6, <2>1 DEF Agrees
<1>7. CASE ~Held(cf, before[c], runStart) /\ cf.kind = "CUSTOM"
  <2>1. Determined(current, c) = StateFor(cf, CustomTrips(level))
    BY <1>7 DEF Determined
  <2> QED BY <1>1, <1>7, <2>1 DEF Agrees
<1>8. CASE /\ ~Held(cf, before[c], runStart)
           /\ cf.kind \in Gates \cup {"KILL", "CORE_DUMP"}
  <2>1. Determined(current, c) = StateFor(cf, GateTrips(cf, count))
    BY <1>8 DEF Determined, Gates
  <2>2. current[c] = StateFor(cf, GateTrips(cf, Cardinality(TrueInputs(c))))
    BY <1>1, <1>8 DEF Agrees
  <2> QED BY <1>2, <2>1, <2>2
<1> QED BY <1>3, <1>4, <1>5, <1>6, <1>7, <1>8 DEF Kinds, Single

(* In a network without cycles nothing else is.                              *)
LEMMA OneOutcome ==
  ASSUME SweepInv, NEW f, NEW g,
         \A c \in Controls : f[c] = Determined(f, c),
         \A c \in Controls : g[c] = Determined(g, c)
  PROVE  \A c \in Controls : f[c] = g[c]
<1> DEFINE S == {c \in Controls : f[c] = g[c]}
<1>1. PICK rank \in [Controls -> Controls] : Ranks(net, rank)
  BY NetworksAssumption DEF SweepInv, Acyclic
<1>2. rank \in [Controls -> Nat]
  BY <1>1, SizeAssumption DEF Controls
<1>3. ASSUME NEW c \in Controls, \A i \in Controls : rank[i] < rank[c] => i \in S
      PROVE  c \in S
  <2>1. ASSUME NEW k \in UsedInputs(net[c])
        PROVE  StateIn(f, net[c].inputs[k]) = StateIn(g, net[c].inputs[k])
    <3>1. net[c].inputs[k] \in Inputs
      BY <2>1, InputsExist DEF Used, UsedInputs, SweepInv
    <3>2. CASE net[c].inputs[k].type = "control"
      <4>1. net[c].inputs[k].id \in ControlInputs(net[c])
        BY <3>2 DEF ControlInputs
      <4>2. net[c].inputs[k].id \in Controls
        BY <3>1, <3>2 DEF Inputs
      <4> QED BY <1>1, <1>3, <3>2, <4>1, <4>2 DEF Ranks, StateIn
    <3>3. CASE net[c].inputs[k].type = "device"
      BY <3>3 DEF StateIn
    <3> QED BY <3>1, <3>2, <3>3 DEF Inputs
  <2>2. Determined(f, c) = Determined(g, c)
    BY <2>1, DeterminedByInputs
  <2> QED BY <2>2
<1>4. Controls \subseteq S
  <2> HIDE DEF S
  <2> QED BY <1>2, <1>3, ByRank
<1> QED BY <1>4

(* A sweep of UPDATE_CONTROLS, however the recursive EVALUATE_CONTROL goes   *)
(* through the network, leaves the states that one recursion over the        *)
(* network defines from the devices, the states before the sweep and the     *)
(* timers: two processes with the same of these, or two input files with     *)
(* the controls in another order, come to the same states.                   *)
THEOREM SweepComputesNetwork == Spec => [](~Sweeping => current = Outcome)
<1>1. SweepInv => (~Sweeping => current = Outcome)
  <2> SUFFICES ASSUME SweepInv, ~Sweeping PROVE current = Outcome
    OBVIOUS
  <2> DEFINE Solution(f) == f = [c \in Controls |-> Determined(f, c)]
             new == CHOOSE f : Solution(f)
  <2>1. current \in [Controls -> BOOLEAN]
    BY DEF SweepInv, TypeOK
  <2>2. Solution(current)
    BY <2>1, SweepSettles
  <2>3. Solution(new)
    BY <2>2
  <2>4. Outcome = new
    BY DEF Outcome
  <2> HIDE DEF new
  <2>5. /\ \A c \in Controls : new[c] = Determined(new, c)
        /\ \A c \in Controls : current[c] = Determined(current, c)
        /\ new = [c \in Controls |-> new[c]]
    BY <2>3, SweepSettles
  <2>6. \A c \in Controls : new[c] = current[c]
    BY <2>5, OneOutcome
  <2> QED BY <2>1, <2>4, <2>5, <2>6
<1> QED BY <1>1, SweepInvariant, PTL
=============================================================================
