--------------------------- MODULE MCDeviceControl ---------------------------
(* Devices on two processes: the first owns meshes 1 and 2, the second 3.    *)
EXTENDS DeviceControl

D(d) == [type |-> "device", id |-> d]
C(c) == [type |-> "control", id |-> c]

MCProcess == <<0, 0, 1>>

Device(m, latch) ==
  [mesh |-> m, initial |-> FALSE, latch |-> latch, tied |-> FALSE,
   noUpdate |-> NoInput]
Gate(kind, inputs, latch) ==
  [kind |-> kind, inputs |-> inputs, latch |-> latch, initial |-> FALSE,
   upper |-> FALSE, n |-> 1, delay |-> 0]
Part(m, in) ==
  [mesh |-> m, input |-> in, hole |-> FALSE, parent |-> NoInput,
   consumable |-> FALSE]

(* A latched device and one that follows its value until the first has       *)
(* tripped, each on its process, and a latched device tied to a particle of  *)
(* the first process.                                                        *)
MCDevc == <<Device(2, TRUE), [Device(3, FALSE) EXCEPT !.noUpdate = D(1)],
            [Device(1, TRUE) EXCEPT !.tied = TRUE, !.initial = TRUE]>>

(* A latched gate declared before its input, a gate over devices of both     *)
(* processes, and a timer that is latched.                                   *)
MCCtrl == <<Gate("AND_GATE", <<D(2), C(2)>>, TRUE),
            Gate("OR_GATE", <<D(2)>>, FALSE),
            Gate("OR_GATE", <<D(1), D(2)>>, FALSE),
            [Gate("TIME_DELAY", <<D(1)>>, TRUE) EXCEPT !.delay = 1]>>

(* An obstruction across both processes with a hole in each part, one that   *)
(* burns, and one that the device on the particle removes.                   *)
Hole(m, in, parent) == [Part(m, in) EXCEPT !.hole = TRUE, !.parent = parent]
MCObst == <<Part(1, D(2)), Part(3, D(2)), Hole(1, C(3), D(2)),
            Hole(3, D(1), D(2)), [Part(3, C(2)) EXCEPT !.consumable = TRUE],
            Part(2, D(3))>>
MCVent == <<[mesh |-> 1, input |-> D(2)], [mesh |-> 3, input |-> C(1)],
            [mesh |-> 2, input |-> C(4)]>>

(* The particle is in the mesh of the second process.                        *)
TiedDevc == <<[Device(3, TRUE) EXCEPT !.tied = TRUE], Device(1, TRUE)>>

NoParts == << >>
NoCtrl  == << >>
=============================================================================
