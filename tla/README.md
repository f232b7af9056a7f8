# Models of FDS-SMV

This directory holds a TLA+ development of the parts of FDS-SMV whose
correctness depends on the order of steps: how the processes of a parallel FDS
run stay together and stop, how devices and controls decide and what they
switch, and how the C tools of Smokeview share memory and files between
threads.  It is written from the source at this commit.  Line numbers refer to
files below `src/`.

To check a run: `tlc -workers 2 -config <cfg> <module>` with the pairs listed in
`PROJECT.json`.  To check the proofs: `tlapm` on each of `TimeStepProofs.tla`,
`ControlNetworkProofs.tla`, `Recursion.tla`, `DeviceControlProofs.tla`,
`DmallocProofs.tla`, `SmokezipProofs.tla` and `VolSmokeProofs.tla`.

## 1. The system

FDS-SMV is two programs and their tools.

* **FDS** (`FDS_Source`, Fortran 90 with MPI) solves the flow of a fire.  One
  process runs one or more meshes.  Every process executes the same
  `MAIN_LOOP` and meets the others in collective calls and mesh exchanges.
* **Smokeview** and its tools (`SMV/source`, C) display and post-process what
  FDS wrote.  `smokezip` compresses FDS files with several threads, `background`
  starts jobs when the machine has room, and all of them allocate through
  `shared/dmalloc.c`.
* **Scripts and continuous integration** (`Utilities`): `Firebot`, `qfds.sh` and
  helpers.  **Manuals, verification and validation cases** are data.

### Inventory

| Component | State it keeps | Operations | Hard behaviour | What makes it correct | Modelled by |
|---|---|---|---|---|---|
| FDS time-stepping driver (`main.f90`) | T, DT, ICYC, STOP_STATUS, DIAGNOSTICS, CHANGE_TIME_STEP_INDEX, DT_NEW, RADIATION_COMPLETED, CORE_CLOCK per process; the stop file | predictor, CHANGE_TIME_STEP_LOOP, corrector, radiation, dumps, STOP_CHECK, END_FDS | processes decide locally what everybody must decide alike; a stop file appears at any time; several stop codes at once | all processes make the same calls in the same order, agree on T and DT, leave usable files, and end | `TimeStep` |
| FDS control network (`ctrl.f90`) | per control: CURRENT_STATE, PRIOR_STATE, T_CHANGE, UPDATED, MESH; CTRL_STOP_STATUS, CORE_CLOCK | UPDATE_CONTROLS, the recursive EVALUATE_CONTROL for each function type | inputs declared after the controls that use them; latches; delays; values of an earlier sweep read in this one | after a sweep each control has the value of its function of its inputs, whatever the order of declaration | `ControlNetwork` |
| FDS devices (`dump.f90`, UPDATE_DEVICES; `main.f90`, DUMP_GLOBAL_OUTPUTS) | CURRENT_STATE, PRIOR_STATE, T_CHANGE, MESH per device and process | setpoint crossing, latch, NO_UPDATE, exchange | states of other processes are spread once per step, by exclusive or | the same state on every process, each change once | `DeviceControl` |
| FDS obstructions and vents (`init.f90`, OPEN_AND_CLOSE) | HIDDEN, T_IGN, BOUNDARY_TYPE | create, remove, open, close | acts only in the step after a change, on every process that has a part | obstructions and vents are as devices and controls say | `DeviceControl` |
| FDS mesh exchange (`main.f90`, MESH_EXCHANGE, POST_RECEIVES) | request lists, send and receive buffers, OMESH copies | pack, start, wait, unpack for exchange codes 1 to 7 | persistent requests, a time limit on the wait, particles that change process | every buffer sent is received once and for the code it was sent for | - |
| FDS particle handover (`part.f90`, `main.f90`) | orphans, particle storage | leave mesh, count, send, adopt | the count goes with one code, the data with another | no particle is lost or doubled | - |
| FDS pressure zones (`divg.f90`, `main.f90` EXCHANGE_DIVERGENCE_INFO) | CONNECTED_ZONES | reduction, closure | closure over several passes | connectivity is an equivalence | - |
| FDS restart and output files (`dump.f90`) | file units, clocks | DUMP_MESH_OUTPUTS, DUMP_GLOBAL_OUTPUTS, DUMP_RESTART | a stop between two files | the files of all meshes are of one time | `TimeStep` (when) |
| FDS HVAC (`hvac.f90`), evacuation (`evac.f90`), physics (`wall.f90`, `mass.f90`, `velo.f90`, `pres.f90`, `divg.f90`, `fire.f90`, `radi.f90`, `turb.f90`, `geom.f90`, ...) | fields of reals | numerical kernels | floating point | conservation, stability | - |
| FDS input reader (`read.f90`) | the case | namelists to structures | none | the case is what the file says | `ControlNetwork` (WellFormed) |
| Allocator of the C tools (`shared/dmalloc.c`) | a doubly linked list of blocks under one mutex | NewMemory, ResizeMemory, FreeMemory, FreeAllMemory | failure of `malloc`; blocks that move; a sweep that frees what it stands on; threads | the list holds exactly the live blocks; a call is one step on a heap | `Dmalloc`, `Heap` |
| smokezip (`smokezip`) | claim flags per file, bounds per label, the compressed files | main, compress_all, first phases with helper threads, convert_*, -c, -f, -bounds, -auto | several threads claim files; the first one computes what the others wait for; a kill and the next run | every file is compressed once, with bounds of all files of its label; nothing half written passes for complete | `Smokezip`, `WorkPool` |
| Volume smoke loading (`smokeview/IOvolsmoke.c`, `menus.c`, `update.c`) | read_vol_mesh, smokedataptrs, smokedataptr, dataready, is_compressed, loaded | load one or all meshes in a thread, unload from menus, choose the frame to draw | no mutex; one global is argument, lock and cancel request; scratch array per mesh; files that cannot be opened; the thread sets what is drawn | what can be shown has its own data, what is drawn exists, loads are whole and end | `VolSmoke` |
| Smokeview threads (`smokeview/threader.c`) | thread flags, LOCK_COMPRESS | Compress_mt, Smooth_mt, Update_Bounds | a second request while a thread runs | one thread of a kind | - |
| background (`background/main.c`) | host list, CPU and memory load | wait for room, start the job | load is read before the start and used after it | the job starts when there is room | - |
| Run-length coding (`shared/compress.c`) | none | rle, irle | buffer limits, marker bytes | decoding inverts encoding | - |
| Smokeview display, dialogs, readers (`smokeview`) | scene | OpenGL, GLUI | none across processes | display | - |
| smokediff, wind2fds, pcat, makepo, mergepo, set_path, runbatch | none that lasts | batch conversions | none | conversion | - |
| Firebot and job scripts (`Utilities`) | lock files, git work trees, queues | shell scripts | two bots, stale locks | one bot at a time | - |
| Vendored libraries (`SMV/source/gd-*`, `glut`, `glui_v2_1_beta`, `jpeg-*`, `png*`, `zlib*`, `pthreads*`) | - | - | - | not this program | - |

## 2. Plan

Done, in this order: `TimeStep` with `TimeStepProofs`; `ControlFunctions` and
`ControlNetwork` with `ControlNetworkProofs`; `Dmalloc` with the abstract `Heap`
and `DmallocProofs`; `Smokezip` with the abstract `WorkPool` and
`SmokezipProofs`; `VolSmoke` with `VolSmokeProofs`; `DeviceControl`, which puts the
controls of several processes together with their devices, the exchange of
DUMP_GLOBAL_OUTPUTS and OPEN_AND_CLOSE; the timers of `ControlNetworkProofs`, the
bound on the length of a stopped run in `TimeStepProofs`, and `DeviceControlProofs`
with the lemmas about recursive functions in `Recursion`.

Left, the most useful first:

1. `MeshExchange` below the calls of `TimeStep`: requests, buffers, particles.
2. `background`: several instances that read the load before and start after.

## 3. TimeStep: the cycle of the FDS processes

**State.** One variable per Fortran variable, as a function of the process:
`icyc`, `t`, `dt`, `ctsi` (CHANGE_TIME_STEP_INDEX), `dtNew` (DT_NEW),
`diagnostics`, `stopStatus`, the counters of the radiation solver (`radCall`,
`angle`, `radDone`, `radExchange`), and the files written (`core`, `pl3d` hold the
time of the last one).  `stopFile` is the file CHID.stop, `userSince` is a history
variable.  `pc` says which call of MAIN_LOOP the process is in.

**Actions.**  The work of one process between two collective calls is one
action: `Top` (main.f90:442-470), `Predict` (555-564), `Correct` (641-668),
`Outputs` (724-738).  It reads and writes variables of that process only, so
splitting it would show no more interleavings.  A collective call is one joint
action, enabled when all processes are in it: `MeshExchange1`, `StopCheck0`,
`ChangeTimeStep` (576-594), `MeshExchange3`, `MeshExchange6`, `MeshExchange2`,
`GlobalOutputs`, `Diagnostics`, `StopCheck1`, `EndFds`.  Processes that are in
different calls wait for ever, which TLC reports as a deadlock and the property
`CollectiveOrder` names.  `CreateStopFile` is the user.

**Abstractions.**  Time is an integer in units of the smallest step; a step below
`DtStable` stands for DT < DT_INITIAL*LIMITING_DT_RATIO.  CHECK_STABILITY chooses
any of its three outcomes.  KILL and RESTART controls, unrealizable mass fractions
and the evacuation stop are free choices of one process, because the code decides
them per process.  One mesh per process.  Of the Plot3D files only that of an instability
is written: those of PL3D_CLOCK (dump.f90:170) would only add files of earlier steps,
and no property speaks of them.

## 4. The control network, devices and what they switch

### ControlNetwork

`ControlFunctions` has what each FUNCTION_TYPE makes of its inputs (ctrl.f90:59-247).
`ControlNetwork` is UPDATE_CONTROLS and the recursive EVALUATE_CONTROL on one
process.  The recursion is the variable `stack`; a frame holds the control, NC and
the number of TRUE inputs seen.  `CallFromLoop` and `CallFromInput` are the two
places that call (ctrl.f90:33 and :68), `ReadInput` one pass of the DO loop over
the inputs, `Return` the code from line 616 to 626, `SkipUpdated` the CYCLE of
line 31, `BeginSweep` CONTROL_LOOP_1 together with what happens between two sweeps:
the driver advances T and devices change in any way.  `Stop` is main.f90:733.

The network is a variable that never changes and starts as any member of
`Networks`, so that one run covers many input files.  A device has a state, the
time of its last change, and a SMOOTHED_VALUE that is below, between or above the
setpoints.  The INITIAL_STATE of devices is .FALSE.; a device that is TRUE at the
start has changed at T_BEGIN.  `before` and `changed` are history variables.

`WellFormed` is what READ_CTRL and PROC_CTRL enforce, with one thing they do not:
PROC_CTRL lets a DEADBAND have a control as its input (read.f90:10693 refuses it
for CUSTOM only), and EVALUATE_CONTROL would then read the device of that number.
`Acyclic` is not enforced either: PROC_CTRL only refuses a control that names
itself (read.f90:10672), and a cycle of two controls recurses without end.  Both
are assumptions here (`NetworksAssumption`).  That a sweep ends is therefore no
property: it follows from the ranks of a network without cycles, and a run that
cannot meet a cycle would show nothing.

### DeviceControl

**State.**  Every process has a copy of all devices and all controls: `dev` and `ctl`
are functions of the process.  `particle` is the mesh that the particle of a
device with an INIT_ID is in.  `hidden`, `burnt` and `vent` are what OPEN_AND_CLOSE
leaves: HIDDEN of each part of an obstruction, the obstructions that have burnt
away, and the state and T_IGN of each vent.  They belong to the process of their
mesh, so one copy is enough.

**Actions.**  A process goes through `UpdateDevices` (UPDATE_DEVICES for each of its
meshes, main.f90:716), `UpdateControls` (ctrl.f90:13), the joint
`DumpGlobalOutputs` (main.f90:2910), which combines the states of a device with
MPI_LXOR over the processes that think the device is in one of their meshes
(`Contributors`), and, in the next step, `OpenAndClose` (init.f90:2507) once per
process.  `Corrector` is the rest of the step: obstructions burn, particles drift
or are lost.  The step before the first is the one at T_BEGIN, when OPEN_AND_CLOSE
sets all parts and vents and not only those that changed.

**Abstractions.**  A device measures one of three outcomes against its SETPOINT: not
reached, between (the state stays) or passed.  A control is evaluated in one
step, by the operators of `ControlFunctions`; that the recursion computes just
that is `SweepComputesNetwork` of `ControlNetworkProofs`.  Controls are AND and OR gates and TIME_DELAYs.
The loops over meshes and devices (`UpdateGlobalOutputs`, `DeviceLoop`) and the
recursion over the network (`NewControls`) are recursive functions.  The assumption
on the constants asks for a network without cycles, as in ControlNetwork, and
for a run of at least one time step, which MAIN_LOOP always makes (main.f90:774).
A device with an INIT_ID starts on mesh 1, as READ_DEVC has it when its point lies in
no mesh (read.f90:10215); with an XYZ inside a mesh it would start there
(read.f90:10178), which is not modelled.

## 5. The C tools

### Dmalloc

One thread at a time is inside `LOCK_MEM`.  Each call is a request outside the lock
(`CallNew`, `CallFree`, `CallResize`, `CallFreeAll`), `LockMem`, its steps, and
`UnlockMem`.  `next`, `prev` and `memory_id` are the fields of MMdata; `MMfirst` and
`MMlast` the static blocks.  `malloc` and `realloc` are the C library's: they return
any free address, or fail.  `held` is what the callers have: pointers a thread may
free or resize, that may pass from one thread to another (`HandOver`).  `order` is a
history variable that says which of two entries is first; with it the invariant
`ListOK` can say that the list is one chain, without counting.  Only the user
interface uses memory ids: geometry and isosurfaces are loaded in no other thread.
`HandOver` and the choice of what to call are the callers', not the allocator's.
Two things are assumed of them.  Who frees a group keeps no pointer into it, as
readiso_geom and read_geom0 do (IOiso.c:177-180, IOgeometry.c:1225); nothing in
dmalloc.c sees to that.  And the id is not 0, for which FreeAllMemory frees every
block there is (dmalloc.c:211): ids come from ++nmemory_ids, except those of
GEOMDIAG geometry (section 7).

`Heap` is what MALLOC.h promises: a function from addresses to memory ids that
every call changes in one step.  The refinement `LiveBlocks` drops the blocks of a
group as soon as FreeAllMemory begins its walk, because their owner can no longer
count on them, and takes a block in when it is linked.

### Smokezip

Threads convert the files of a case, which are numbered in the order of
compress_all.  A thread is at one file (`at`) and at one place of the code (`pc`).
The first phase of a kind (`EnterPhase` to `SetDoit`, CNVboundary.c:462-507 and
CNVslice.c:746-826) is run by the first thread while the others wait for its
mutex.  With -bounds it starts helper threads (`HelperLocks` to `HelperReads`) and
joins them (`MergeBounds`).  A file is claimed by `ClaimLocks`, `ClaimTests`,
`ClaimMarks`, with the mutex held from the first to the last, and then opened,
written and closed.  `disk` is what the file system has of each output: how much
was written and the word of the header where Smokeview looks for the completion
code.  `Kill` may come at any point of a run; `Start` begins a run with any of the
command lines in `Opts`, on the disk as it is.  Missing sources and outputs that
cannot be opened are constants.

`WorkPool` is a bag of files, each waiting, busy or done; a run ends when all
are done.  `Progress` reads the state of a file off the claim flags and the places
of the threads.  The type invariant is proved and not run.

### VolSmoke

The variable `target` is read_vol_mesh: ReadNone, ReadAll, Unload or a mesh.  The
user interface sets it and starts a loader (`LoadVolSmoke3DMenu`, `StartLoader`),
or unloads (`UnLoadVolSmoke3DMenu` to `UnloadEnds`), one frame at a time, or chooses
what to draw (`UpdateFrameNumber`, update.c:49-109).  A loader takes the number of
frames from the first wanted mesh (`Scans`) and goes through frames and meshes: it
tests `target` (`PassesBy`), reads the smoke file (`ReadsSmoke`) and stores its data,
opens and reads the fire file (`ReadsFire`) and stores its data (`Stores`, once for
each quantity), marks the frame (`MarksReady`) and, in a second loop over the meshes,
counts the mesh as loaded (`MarksLoaded`).

A smoke file that cannot be opened ends the frame before anything is stored
(IOvolsmoke.c:1806); a fire file that cannot be opened only leaves out the fire data,
and the frame is marked all the same (:1881, :1929).  `MayLose` has the files that may
fail, each time anew.  A compressed load reads into the scratch array of the mesh
(`full`), any other into an array of its own (`buffer`); what is stored is decided by
is_compressed (`form`) as it is then.

`entry` is smokedataptrs and firedataptrs, `ready` is dataready, and `drawn` is
smokedataptr and firedataptr, which are written in three places: by the loader when
it stores a frame (:1839, :1901), which in a compressed load leaves there a
compressed block; by the loader after the first frame (:2043-2052), and by
Update_Framenumber (update.c:81-104).  A pointer is modelled by what it names.
Update_Framenumber uncompresses a NULL when the form is compressed and the entry is
missing (update.c:77 and :96), which ends the program; there the model has no step.

`patient` says that the user has unloaded only when no load was going on.  Nothing in
the code keeps him from doing otherwise: "Load data when this is complete."
(menus.c:3260) is said to one who loads, and the Unload menus do not look.  The
invariants and LoadsAlone speak of patient sessions; loads in the other form are
among these.  Section 7 says what happens in others, and what the invariants leave
out.  `LoadingEnds` has no such condition.  `due` is the number of frames that have
been asked for.  LoadsAlone and the type invariant are proved and not run.

## 6. Runs and proofs

| Run | Instance | What it shows |
|---|---|---|
| `time_step_fire` | 2 fire processes, DT 1..3, T_END 7, 2 angles in 2 steps, restart every 3, KILL, realizability stop | processes never part ways; agree on ICYC, T, DT; an instability is fatal and leaves Plot3D files; a user stop leaves restart files of one time |
| `time_step_live` | 2 fire processes, T_END 16, under fairness | every run ends; a stop request is served within one sweep of the angles |
| `time_step_evac` | 2 fire processes and the evacuation process, stop file for cycle 3, local stops 8 and 9, a RESTART control | the processes stay in the same calls although one has no radiation state |
| `time_step_stop_race` | stop file between two INQUIREs | violation of CollectiveOrder |
| `control_gates` | all acyclic networks of 3 AND/ONLY gates over 2 devices from 4 choices of inputs each, latched or not; 2 steps after the first sweep | a sweep is consistent for every order of declaration, reports each change once, respects LATCH |
| `control_timers` | TIME_DELAYs with DELAY 1 and 2 of a device and of ALL/ANY gates declared before or after; 6 steps | one flip per change of the input, never early, never missed |
| `control_thermostat` | DEADBAND of both bounds with KILL, RESTART and CUSTOM; 3 steps | stop and restart requests follow the devices of the same sweep; hysteresis |
| `device_control` | 3 meshes on 2 processes; 3 devices (latched, frozen by another, latched on a particle), 4 controls, 6 parts of obstructions, 3 vents; 4 steps | obstructions and holes follow their devices and controls; a vent is opened once per change; copies of controls lag one step and no more; a latch holds on every process |
| `device_control_tied` | a latched device on a particle in mesh 3 of the second process | violation of DeviceLatchedOnce |
| `dmalloc` | 2 threads, 3 addresses, 2 groups | the list is whole, pointers live, each call one step on `Heap`, calls return |
| `smokezip` | 2 threads, 2 helpers, 8 files of all kinds, 2 runs, 3 command lines, kills | claims exclusive, bounds complete, completion codes right, old files kept, the list of isosurfaces whole, implements `WorkPool`, ends |
| `vol_smoke` | 3 meshes of 1, 2 and 1 frames; the fire file of mesh 2 and the smoke file of mesh 3 may be lost; 2 loads, compressed or not, any unloads and draws | what can be shown has its data, what is drawn exists, loads are whole, unloads leave nothing, the lock is freed |

**Why the bounds are enough.**  Two processes are enough for a disagreement between
processes, since no code asks for a third opinion; with the evacuation process
there are three because it and the fire processes play different parts.  DT of
three values gives a step that can grow, one that can shrink and an unstable one.
Two angles in periods of two steps give every combination of RADIATION_COMPLETED
and EXCHANGE_RADIATION; the runs start at every position of the sweep.  T_END is
long enough for a periodic restart file and a stop at every phase of the sweep;
in `time_step_live` it is longer than one sweep whatever DT is, so that a request
that is not served in time would be seen.  ICYC starts at 9 in `time_step_fire`
because DIAGNOSTICS is decided by ICYC there.  Three controls give a control
declared before, after and between its inputs; two sweeps after the first show
a latch and a state that goes back.  Six time steps are longer than two delays.
In `device_control` one process has two meshes and the other one, so that a device
is updated for a mesh that is not the first of its process, and an obstruction
lies on both; four steps are a change, the step that acts on it, a change back
and the step after.  Three blocks give the list an inside; two groups and single
blocks give the sweep something to free, to keep and to free again.  In `smokezip`
two slice files of one label have bounds in common and a boundary file has those
of the .ini file; file 3 has no source, smoke file 5 no writable output, and -auto
leaves smoke file 6 out; two particle files share the list of isosurfaces; two
runs give a run that finds what a killed one left.  In `vol_smoke` two
loads are what it takes for a second loader beside the first, and for a load in the
other form after one.  Loads of all meshes read one frame of mesh 2, because mesh 1
has only one, and a load of mesh 2 reads both: so a mesh longer than the leading one,
and one that leads, are both checked.  A file may fail to open for one frame and not
for another.

The view of `MCVolSmoke` leaves out what no later step and no property depends on.
In an impatient session the invariants claim nothing, and LoadingEnds depends on
`target`, `loaded`, the places of loaders and user interface and what they are at;
guards that look at frames or at the form only stop Update_Framenumber, which changes
nothing else that is left.  In a patient session only the contents of a scratch
array that no loader is about to store are left out, besides the two counts that follow
from the rest (`loads` from `pc`, `patient` itself).

**Fairness.**  `TimeStep!Fairness` says that a process that can run does and that a
collective call every process has made returns: MPI processes are not suspended
for ever.  Nothing is assumed of the user.  `Dmalloc!FairSpec`: a thread inside the lock
goes on, because nothing in there waits; whether a thread gets the lock is not
claimed.  `Smokezip!FairSpec`: as long as some thread can go on, one does; each has
finitely many steps, so no fairness between threads is needed.
`VolSmoke!FairSpec`: a thread that runs and a menu callback that has begun go on;
the user need not do anything.  Deadlock is checked in every run except
`time_step_stop_race`, where processes waiting for each other is the finding, and
`smokezip`, which is over after its last run; there RunEnds shows that it
does not stop earlier.

### Proofs

`TimeStepProofs` holds for every set of processes and every bound.  The first two
theorems also hold with or without evacuation processes, a stop file at any moment
and RESTART controls; the others name what they assume.  Section 7 lists what
the code does where it is not so.

* `TypeCorrect`: `Spec => []TypeOK`.
* `Agreement`: `Spec => []ClocksAgree`.  ClocksAgree is not inductive: DT of the
  next cycle is computed by every process from its own copies of
  CHANGE_TIME_STEP_INDEX and DT_NEW, which differ within the loop and are only
  partly gathered.  The inductive invariant `InStep` says that T is everywhere the
  same (`SameTime`), that processes agree on ICYC and DT up to the part of the cycle
  they are in (`SameCycle`), and that after the loop they either hold the same
  index, and the same DT_NEW when it will be used (`WillAgree`), or hold a stop
  code that STOP_CHECK(1) ends the run for (`WillEnd`): the exit from the loop on
  an instability leaves the arrays ungathered.
* `CallsAlwaysMatch`: `Spec => []CollectiveOrder` under `SameAnswers`: the stop file
  does not appear between the INQUIREs of one cycle, and either there is no
  evacuation process or the stop file holds a cycle number, so that STOP_CHECK does
  not look at RADIATION_COMPLETED.  The invariant `SameCalls` says that all processes
  head for the same call (`HeadsFor`), have or will have the same DIAGNOSTICS
  (`SameDiagnostics`) and the same radiation counters (`SameRadiation`), each taken
  as it is after the part of the cycle that the process still has before it.
* `InstabilityAlwaysFatal`, `InstabilityAlwaysDumped` and
  `UserStopAlwaysLeavesRestart`: `Spec => []` InstabilityIsFatal, InstabilityIsDumped
  and UserStopLeavesRestart, without evacuation processes and the last one for an
  empty stop file.  The invariant `Stops` says that processes hold the merged stop
  code but for those that have failed since (`Codes`), that INSTABILITY_STOP and a
  step that is too short come together (`Unstable`), and what is on disk from
  DUMP_MESH_OUTPUTS on (`Left`).
* `RestartFilesAlwaysMatch`: `Spec => []RestartFilesMatch` without evacuation
  processes and RESTART controls, and with a stop file that all see alike.
  `SameFiles` compares the times of the files and of the restart clock as they will
  be after DUMP_MESH_OUTPUTS of this cycle (`NextCore`, `NextClock`), between
  processes that have not failed; one that has failed ends the run.
* `StopAlwaysInTime`: `Spec => []StopLatency`, with no assumption at all.  How long a
  run goes on is not seen from the number of cycles since the stop: the invariant
  `Waiting` adds to them the calls of the radiation solver that are left in the
  sweep (`CallsLeft`, from ANGLE_INC_COUNTER and RAD_CALL_COUNTER), and says that
  both together are no more than a full sweep (`InTime`).  `SweepCallsStep` shows
  that every call leaves one less, or completes the sweep.

`ControlNetworkProofs` holds for any number of controls and devices, any values
and any set of networks that satisfies `NetworksAssumption`.

* `TypeCorrect`: `Spec => []TypeOK`.
* `SweepIsConsistent`: `Spec => []Consistent`.
* `EdgesAreReported`: `Spec => []EdgesReported`.
* `LatchesHold`: `Spec => LatchedOnce`.
* `RequestsAlwaysCurrent`: `Spec => []RequestsCurrent`.
* `ThermostatsHaveHysteresis`: `Spec => Hysteresis`.
* `TimersExpire`: `Spec => []DelayExpires`, and `TimersFlipOnce`: `Spec => DelayOnce`,
  under `ProperTimers`: no TIME_DELAY has DELAY=0 or an ONLY or AT_LEAST function as
  its input.  Section 7 says what the code does with these two.  The invariant
  `Timing` relates T_CHANGE to the history of changes (`Dated`), and says that changes
  of this sweep are of controls that have been evaluated (`ChangesPast`), that a timer
  does not change in the same sweep as its input (`NeverTogether`), and that one that
  has been evaluated is not overdue (`Expired`).

* `SweepComputesNetwork`: after a sweep the states are `Outcome`, one recursion over the
  network in which neither the order of declaration nor UPDATED nor the stack occurs.
  A sweep settles every control (`SweepSettles`), and in a network without cycles
  there is only one way to do so (`OneOutcome`, by rank).  Timers are taken as they
  are, since they depend on times.

All but the first rest on the inductive invariant `SweepInv`.  A control that is not UPDATED
still has the state of the last sweep (`Untouched`); one that is UPDATED and not
held by its latch has its value, and so have all its inputs (`Values`), which is
what keeps the value right while other controls change; a frame has counted
the inputs it has passed, all of them UPDATED (`Framing`); no control on the stack
is UPDATED (`Open`); and the ranks of a network without cycles descend along the
stack (`Descent`), so that no control is on it twice and RETURN for one does not
disturb a frame of another.  The count of a frame is tied to the set of TRUE
inputs by the cardinality lemmas of FiniteSetTheorems.  For the requests,
`Requests` adds that at any moment of a sweep a request stands if and only if a
control that has returned asks for it; `AskingKept` shows that no later step of the
sweep changes whether it does.

`DmallocProofs` holds for any threads, addresses and memory ids that satisfy
`DmallocAssumption`.

* `TypeAlwaysOK`, `LockAlwaysExcludes`, `ListAlwaysOK`, `PointersAlwaysLive`,
  `SweepMissesNone`: `Spec => []` TypeOK, LockExcludes, ListOK, HeldIsLive, SweepOK.
* `ImplementsHeap`: `Spec => HeapSpec`.

The inductive invariant `IInv` is the conjunction of these five with `LocalsOK` (a
thread that links a block still has the right successor in its local, because it
has kept the lock) and `GroupsOK` (only the user interface sweeps, and it holds no
pointer into the group it sweeps).  The list is handled by lemmas about lists as
values, one for each thing the calls do to it: `InsertOrdered` and
`InsertChained`, `RemoveOrdered` and `RemoveChained`, and those for an entry that
moves.  They need no induction over the list, because the order is part of the
state.  For the refinement every step is shown to leave LiveBlocks alone except
NewLink (Alloc), FreeUnlink (Free), ResizeMoves (Move) and FreeAllStart
(FreeGroup); that the end of a sweep shows nothing is where SweepOK is needed.

`SmokezipProofs` holds for any threads, helpers, files, labels, command lines and
number of runs, with a kill anywhere, under `SmokezipAssumption`, `KindsTogether`
(the files of a kind follow each other, as compress_all visits them) and
`SomeThreads` (at least one thread and one helper, main.c:300).

* `TypeAlwaysOK`, `ClaimsAlwaysExclusive`, `BoundsAlwaysComplete`,
  `IsoListAlwaysComplete`, `CodeAlwaysMeansClosed`, `OldFilesAlwaysKept`:
  `Spec => []` TypeOK, ClaimsExclusive, BoundsComplete, IsoListComplete and
  CodeMeansClosed, and `Spec =>` OldFilesKept.
* `ImplementsPool`: `Spec => PoolSpec`.

The inductive invariant `Inv` has five parts.  `Base`: types, which places of the
code a thread can be at with a file of that kind, and that main is outside while
threads run.  `Claims`: who holds which mutex (`Holding`), and that a thread
converts only files it has marked.  `Phases`: the first phase of a kind is over
for whoever has come to a file behind it; it is here that the files of a kind
must follow each other.  `Scanning`: each helper goes on behind the files that it or
another helper has marked, so that after the join all have been read.  `Values`:
what the bounds of a label are worth at each step from .ini to the copies in the
files.  `Passed`, which needs no more than these, says that a thread leaves no file
behind unclaimed; with it the join of all threads is the end of the abstract run.
The claim flag, and not the mutex alone, is what the proof of ClaimsExclusive
needs: the mutex of a kind is free while files of it are converted.  Each step is
summarised once (`Shape`, `Progressing`), and the parts are proved from the
summaries.

`VolSmokeProofs` holds for any meshes, frames, files that may be lost and loads.

* `TypeAlwaysOK`, `LoadsAreAlone`, `ShownAlwaysRight`, `DrawnAlwaysLive`,
  `UnloadedAlwaysEmpty`, `LoadedAlwaysWhole`: `Spec => []` TypeOK, LoadsAlone,
  ShownIsRight, DrawnIsLive, UnloadedIsEmpty and LoadedIsWhole.

`Base` gives the types, which places of the loader and of the user interface go
with which locals, and what each local is worth there.  The other parts are about
patient sessions.  `Turns` says who is at work and what read_vol_mesh then means: at
most one loader, which read_vol_mesh names, and no unload beside it.  `Data` says what
the frames hold: those marked ready, and those a loader has stored and not yet
marked, have their own data, and frames behind an unload, or of meshes that are not
loaded, have none.  `Filling` says that a loader has marked every frame it has passed
whose smoke file it could open, that the frames it goes on to include all that are
due, and that loaded meshes have theirs unless a loader or an unload is at them.
`Forms` follows a load in the other form frame by frame: what the loader has passed
has the new form, what it has not passed may have the old one, and that is why the
property asks for the frames that every load reads.  `Drawing` says that what is drawn
is live unless an unload has left it and the load after it has not come to the
mesh; behind the first frame of a load it is live even if no file could be opened.

`Recursion` has the facts about recursive functions that these proofs need:
induction from 0 to n (`UpTo`) and over ranks (`ByRank`), and that a definition
whose value for an argument only depends on values of lower rank has a solution
(`FixedPoint`, and `Iteration` for a loop).  The induction theorems of the library
take an operator as a parameter, which the provers cannot instantiate; here
predicates are sets, bodies are functions, and everything is derived from the
well-foundedness of `<` on the natural numbers.

`DeviceControlProofs` holds for any meshes on any processes, any devices, acyclic
networks of controls, obstructions and vents, and a run of any length, under
`TiedOnFirst`: a device on a particle belongs to the process of mesh 1.  Where that
is not so two processes contribute to the exchange, which is what
`device_control_tied` shows.

* `TypeCorrect`: `Spec => []TypeOK`.
* `LatchedDevicesTripOnce`: `Spec => DeviceLatchedOnce`.
* `PartsAlwaysFollow`, `VentsAlwaysActOnce`, `ControlsAlwaysFollow`: `Spec => []`
  PartsFollow, VentsActOnce and ControlsFollow.

First, `GlobalOutputsAre` says that UPDATE_DEVICES of all meshes of a process updates
a device once if the process has it and leaves the others alone, and `NewControlsAre`
that UPDATE_CONTROLS leaves each control as its function of the controls it leaves.
The invariant `DevicesInv` then says that every copy of a device names a mesh of the
owner (`Placed`), so that the exclusive or and the sum of the exchange are over one
process (`ExchangeIs`), that the copies are equal from the exchange to the next
update (`Exchanged`), and that the copy of a latched device is not ahead of that of
the owner (`Lags`): a copy that has tripped may be overwritten only by one that has.
TypeOK needs it too, since two contributors would add up the times of change.

`PartsInv` and `VentsInv` rest on one notion, an input that is `Fresh`: it has changed
in this step, or was not updated and keeps its edge.  Outside of OPEN_AND_CLOSE a part
or vent is as it should be unless an input is fresh, and what is fresh when a
process opens and closes is seen as an edge (`ActingSees`).  For a hole this takes
the parent as well (`Idle`).  For vents the invariant ties the time of the change to
T_IGN, and leaves out devices on particles, which may keep their edge for ever
(`Regular`, section 7).  `GatesInv` says where the gates of a process stand on it
(`LeadInv`) and on another (`FollowInv`): between two steps the next evaluation on
the other process, from the devices it has now, will give what the first has.
The states of one step before are those of a network (`Last`), and `UpdateFollows`
shows, by rank, that the evaluation on the other process gives these.

**Model-checked only.**  Termination, CallsReturn, RunEnds and LoadingEnds,
which are liveness under fairness; and that a deadlock does not occur.

## 7. Where code and documentation disagree

Two runs show such a disagreement; `PROJECT.json` quotes the lines.

* `time_step_stop_race`: the stop file is looked for by every process on its own,
  and the answer decides who takes part in EXCHANGE_DIAGNOSTICS (main.f90:453, :750).
* `device_control_tied`: a latched device on a particle in a mesh of another process
  than the first changes state again and again, because two processes
  contribute to the exclusive or (main.f90:2920).

The others have no run of their own.

**Driver.**

* STOP_CHECK says "Make sure that all MPI processes have the same STOP_STATUS"
  (main.f90:1176) and ends the run by RADIATION_COMPLETED, which the evacuation
  process never changes (main.f90:1187): with an empty stop file it ends alone
  while the fire processes go on with the sweep of the angles.
* A user stop leaves no final Plot3D file (dump.f90:170; FDS_User_Guide.tex:1324
  says it does).  With a cycle number in the stop file the run may end without a
  restart file, when the sweep of the angles is incomplete (main.f90:1187,
  dump.f90:184).
* A USER_STOP pending on the evacuation process outranks INSTABILITY_STOP in the
  MPI_MAX of STOP_CHECK, so CHANGE_TIME_STEP_LOOP is not left (main.f90:571, :1179).
* "No gathering required as CONTROL is updated on all meshes" (main.f90:3004):
  every process has its own devices of this step and the others' of the last one.
  A RESTART control therefore writes the restart files of different processes one
  step apart (main.f90:732).

**Controls.**

* TIME_DELAY with DELAY=0 flips twice for one change of its input (ctrl.f90:185; the
  guide, line 6575, says that the function changes state when the timer expires).
* TIME_DELAY of an ONLY or AT_LEAST function misses the change back, whose T_CHANGE is
  set to -1.E6 (ctrl.f90:55).
* The stop request of a KILL that is TRUE at the start is overwritten by the next
  sweep before the driver looks at it (main.f90:387, ctrl.f90:23; the guide, line
  6513, says it terminates the run).  KILL leaves no restart files (dump.f90:184;
  FDS_User_Guide.tex:6614 says it does).

**Controls on several processes.**  `ControlsFollow` is about gates whose devices are
all on one process; outside of that, copies part for good:

* A latched AND of devices on two processes, one TRUE up to step n and the other
  from n+1 on, trips on the process of the second only.
* A latched gate over a device that is initially TRUE and FALSE from T_BEGIN on trips
  on the other processes only, which see the initial state first.
* A TIME_DELAY whose input changes back in the step its timer expires flips on the
  other processes and not on the one of the device.
* A device whose particle is lost in the step after a change is not updated any more
  and keeps PRIOR_STATE different from CURRENT_STATE: its vent is activated anew
  in every step (dump.f90:4635, init.f90:2719).

**Tools.**

* smokezip says that a compressed boundary file gets "a zero now, then a one just
  before file is closed" (CNVboundary.c:223); the one goes to offset 8, onto the
  file version, and the completion word stays 0 (CNVboundary.c:397).  The same for
  volume slices, whose header has the words in the other order.  Smokeview reads
  the word of slice files only.
* "-c - cleans or removes all compressed files" (main.c:546): compress_volslices
  returns with -c before it removes anything (CNVslice.c:728), so that the .svv
  files stay.
* Smokeview refuses a second load of volume smoke until the first "is complete"
  (menus.c:3260).  An unload while a loader runs sets read_vol_mesh to VOL_UNLOAD
  and then to VOL_READNONE (menus.c:3198, :3229): the next load is let in while
  the first loader still runs, and both read for the target of the second into
  the same scratch array.
* From the start of a load to its first frame the mesh counts as loaded
  (IOvolsmoke.c:2125) while smokedataptr is what an unload has freed
  (IOvolsmoke.c:1965) or, in the first load, what malloc left.  DrawnIsLive says that
  it is no longer so once there is a frame to show.
* In a compressed load smokedataptr names a compressed block after each frame that is
  read (IOvolsmoke.c:1839), and is drawn as floats until the next
  Update_Framenumber.
* A load in the other form sets is_compressed at its first frame (IOvolsmoke.c:1763)
  while the frames behind it still have the old form, and Update_Framenumber takes
  them for the new one.  Frames beyond the number of the first mesh keep the old form
  for good.  No message of the code asks the user to unload before.
* A frame whose fire file cannot be opened is marked ready (IOvolsmoke.c:1929); in a
  compressed load Update_Framenumber then uncompresses a NULL (update.c:94-98).
* A frame that is loaded again replaces the pointer to its data without freeing them
  (IOvolsmoke.c:1834).  UnloadedIsEmpty is about the entries and says nothing of this
  leak.
* The memory_id of a GEOMDIAG geometry is never set (readsmv.c:3541,
  IOgeometry.c:2768), and read_geom0 frees the group of that number
  (IOgeometry.c:1225), which for 0 are all blocks.

## 8. Not modelled

* **FDS.**  The contents of mesh exchanges, the buffers of particles, the pressure
  iterations and zones, and the setup before MAIN_LOOP; mathematical control
  functions, PID and CF%MESH; in `DeviceControl` what a device measures and its
  statistics, dry pipes, evacuation devices, KILL, RESTART, DEADBAND and CUSTOM
  controls and restarted runs, and CREATE_OR_REMOVE_OBST, which rebuilds the walls
  around an obstruction; HVAC, evacuation agents and all numerical kernels, which
  compute reals; input reading except for controls.
* **Allocator.**  The debug build (pp_MEMDEBUG), whose guards abort the program.
* **smokezip.**  The contents of frames, the demo bounds, -2, -3 and -b, and the
  compression of particle files, which release builds leave out.
* **Smokeview.**  Loads and unloads of volume smoke by scripts, the single-threaded
  mode and pre-compressed files (load_volcompressed); drawing.  The other threads
  are not modelled: LOCK_COMPRESS makes the user interface wait in some menus for the
  thread that runs smokezip (menus.c:3843; SMV_User_Guide.tex:516 and :4219 say
  that one can go on); the smoothing thread starts again while
  `smoothing_blocks` is 0, and leaves it 1 when there is nothing to smooth
  (threader.c:131, drawGeometry.c:3895), and it uses the global STREAM_SB;
  the thread that computes boundary bounds is joined before they are used
  (threader.c:148).  The display, dialogs and readers have no protocol.
* **background** and the scripts act on the operating system; the batch tools and
  the run-length coder are sequential; vendored libraries and data are not this
  program.

`PROJECT.json` lists each component with its reason.
