------------------------------ MODULE Smokezip ------------------------------
(***************************************************************************)
(* smokezip, the threaded compressor of FDS output (SMV/source/smokezip).  *)
(* main creates mt_nthreads threads; each of them runs compress_all: the   *)
(* boundary files, the slice files, the volume slices, the 3D smoke files  *)
(* and the particle files, in this order, claiming one file at a time      *)
(* under the mutex of its kind.  The first thread to reach the boundary or *)
(* the slice files first computes the bounds that all files of one label   *)
(* share, with helper threads that read every file, and keeps the others   *)
(* waiting at the mutex.  The program may be killed at any point and run   *)
(* again; what it has written stays on the disk.                           *)
(*                                                                         *)
(* The files of all kinds are numbered 1..N in the order of compress_all.  *)
(* A label is represented by its first file (the one with dup = 0).        *)
(***************************************************************************)
EXTENDS Integers, FiniteSets

CONSTANTS
    Threads,    \* the threads of mt_compress_all
    Helpers,    \* the threads of mt_update_slice_hist and mt_update_patch_hist
    Nobody,     \* a mutex that is not held
    N,          \* the number of files
    Kind,       \* the kind of each file
    Lead,       \* the first file of the same kind and label
    Readable,   \* the files whose source exists
    Writable,   \* the files whose compressed file can be written
    Zip,        \* the files that -auto does not exclude
    Ini,        \* the first files of labels with bounds in the .ini file
    Opts,       \* the command line options tried, of Options
    MaxRuns     \* the number of times the program is started

Files == 1 .. N
Options == [clean : BOOLEAN, force : BOOLEAN, bounds : BOOLEAN]
Kinds == {"patch", "slice", "volslice", "smoke", "part"}

\* The kinds with a first phase under the mutex, and those with bounds.
Phased  == {"patch", "slice", "part"}
Bounded == {"patch", "slice"}

ASSUME SmokezipAssumption ==
    /\ N \in Nat
    /\ Kind \in [Files -> Kinds]
    /\ Lead \in [Files -> Files]
    /\ \A i \in Files : Kind[Lead[i]] = Kind[i] /\ Lead[Lead[i]] = Lead[i]
    /\ Ini \subseteq Files
    /\ Opts \subseteq Options
    /\ Nobody \notin Threads \cup Helpers
    /\ Threads \cap Helpers = {}

\* The files of one kind follow each other; mt_nthreads is at least 1.
ASSUME KindsTogether ==
    \A i, j, m \in Files : i < j /\ j < m /\ Kind[i] = Kind[m] => Kind[j] = Kind[i]

ASSUME SomeThreads == Threads # {} /\ Helpers # {}

Of(k)   == {i \in Files : Kind[i] = k}
Same(i) == {j \in Files : Lead[j] = Lead[i]}

VARIABLES
    disk,       \* the compressed files
    smvtiso,    \* the particle files listed in GLOBsmvisofile
    run,        \* how often the program was started
    opt,        \* -c, -f and -bounds
    main,       \* where main is
    pc,         \* where each thread is
    at,         \* the file each thread looks at
    lock,       \* the holder of each mutex
    first,      \* the kinds whose GLOBfirst_ flag is 1
    firstIso,   \* GLOBfirst_part2iso_smvopen
    setval,     \* setvalmin and setvalmax are 1
    val,        \* the files whose data valmin and valmax are taken from
    doit,
    inuse,      \* inuse, involuse and inuse_part2iso
    inget,      \* inuse_getbounds
    hist,       \* the files whose histogram is complete
    hpc,        \* where each helper is
    hat         \* the file each helper looks at

fileVars   == <<disk, smvtiso>>
boundVars  == <<setval, val, doit>>
helperVars == <<inget, hist, hpc, hat>>
startVars  == <<run, opt>>
vars == <<disk, smvtiso, run, opt, main, pc, at, lock, first, firstIso, setval,
          val, doit, inuse, inget, hist, hpc, hat>>

Locks == Kinds \cup {"patchbound", "slicebound"}
BoundLock(k) == IF k = "patch" THEN "patchbound" ELSE "slicebound"

\* A compressed file: nothing, some or all frames written ("cut": the
\* conversion gave up for want of memory), and the word its header keeps for
\* the completion code.
NoFile == [written |-> "none", completion |-> 0]
Zipped == [written : {"none", "part", "whole", "cut"}, completion : {0, 1}]

Busy == {"open", "write", "close"}
Claiming == {"test", "mark"}
Phase == {"first", "copy", "spawn", "wait", "doit"}

TypeOK ==
    /\ disk \in [Files -> Zipped]
    /\ smvtiso \subseteq Files
    /\ run \in Nat
    /\ opt \in Options
    /\ main \in {"off", "create", "join", "end"}
    /\ pc \in [Threads -> {"new", "enter", "loop", "over"} \cup Phase
                           \cup Claiming \cup Busy]
    /\ at \in [Threads -> 1 .. N + 1]
    /\ lock \in [Locks -> Threads \cup Helpers \cup {Nobody}]
    /\ first \subseteq Phased
    /\ firstIso \in BOOLEAN
    /\ setval \in [Files -> BOOLEAN]
    /\ val \in [Files -> SUBSET Files]
    /\ doit \in [Files -> BOOLEAN]
    /\ inuse \in [Files -> BOOLEAN]
    /\ inget \subseteq Files
    /\ hist \subseteq Files
    /\ hpc \in [Helpers -> {"off", "loop", "read", "over"} \cup Claiming]
    /\ hat \in [Helpers -> 1 .. N + 1]

Init ==
    /\ disk = [i \in Files |-> NoFile]
    /\ smvtiso = {}
    /\ run = 0
    /\ opt = [clean |-> FALSE, force |-> FALSE, bounds |-> FALSE]
    /\ main = "off"
    /\ pc = [t \in Threads |-> "over"]
    /\ at = [t \in Threads |-> 1]
    /\ lock = [l \in Locks |-> Nobody]
    /\ first = Phased
    /\ firstIso = TRUE
    /\ setval = [i \in Files |-> i \in Ini]
    /\ val = [i \in Files |-> {}]
    /\ doit = [i \in Files |-> FALSE]
    /\ inuse = [i \in Files |-> FALSE]
    /\ inget = {}
    /\ hist = {}
    /\ hpc = [h \in Helpers |-> "off"]
    /\ hat = [h \in Helpers |-> 1]

--------------------------------------------------------------------------------
(* main and mt_compress_all *)

\* All that is not on the disk starts from its initial value.
Reset(places) ==
    /\ pc' = places
    /\ at' = [t \in Threads |-> 1]
    /\ lock' = [l \in Locks |-> Nobody]
    /\ first' = Phased
    /\ firstIso' = TRUE
    /\ setval' = [i \in Files |-> i \in Ini]
    /\ val' = [i \in Files |-> {}]
    /\ doit' = [i \in Files |-> FALSE]
    /\ inuse' = [i \in Files |-> FALSE]
    /\ inget' = {}
    /\ hist' = {}
    /\ hpc' = [h \in Helpers |-> "off"]
    /\ hat' = [h \in Helpers |-> 1]

\* With -c there is a single thread.
Start ==
    /\ main \in {"off", "end"} /\ run < MaxRuns
    /\ run' = run + 1
    /\ opt' \in Opts
    /\ main' = "create"
    /\ \E team \in SUBSET Threads :
          /\ IF opt'.clean THEN Cardinality(team) = 1 ELSE team = Threads
          /\ Reset([t \in Threads |-> IF t \in team THEN "new" ELSE "over"])
    /\ UNCHANGED fileVars

\* Where a thread is when it arrives at file i: compress_patches and the
\* others begin with their kind's first file.
Arrive(i) ==
    IF i > N THEN "over"
    ELSE IF i = 1 \/ Kind[i - 1] # Kind[i] THEN "enter" ELSE "loop"

GoTo(t, i) ==
    /\ at' = [at EXCEPT ![t] = i]
    /\ pc' = [pc EXCEPT ![t] = Arrive(i)]

GoOn(t) == GoTo(t, at[t] + 1)

\* The rest of the kind is left out.
GoPast(t) ==
    \E i \in at[t] + 1 .. N + 1 :
        /\ \A j \in at[t] .. i - 1 : Kind[j] = Kind[at[t]]
        /\ i \in Files => Kind[i] # Kind[at[t]]
        /\ GoTo(t, i)

CreateThread(t) ==
    /\ main = "create" /\ pc[t] = "new"
    /\ GoTo(t, 1)
    /\ main' = IF \E u \in Threads \ {t} : pc[u] = "new" THEN "create" ELSE "join"
    /\ UNCHANGED <<fileVars, boundVars, helperVars, startVars, lock, first, firstIso, inuse>>

\* Mutant: main joins none of its threads.
JoinThreads_NotAll ==
    /\ main = "join"
    /\ main' = "end"
    /\ UNCHANGED <<fileVars, boundVars, helperVars, startVars, pc, at, lock, first,
                   firstIso, inuse>>

JoinThreads ==
    /\ main = "join"
    /\ \A t \in Threads : pc[t] = "over"
    /\ main' = "end"
    /\ UNCHANGED <<fileVars, boundVars, helperVars, startVars, pc, at, lock, first,
                   firstIso, inuse>>

\* The user, or the machine, stops the program; what a kill of the last run
\* leaves shows in no later run, and is not explored.
Kill ==
    /\ main \in {"create", "join"} /\ run < MaxRuns
    /\ main' = "off"
    /\ Reset([t \in Threads |-> "over"])
    /\ UNCHANGED <<fileVars, startVars>>

--------------------------------------------------------------------------------
(* The first phase of compress_patches, compress_slices, convert_parts2iso *)

Acquire(w, l) == lock[l] = Nobody /\ lock' = [lock EXCEPT ![l] = w]
Release(l)    == lock' = [lock EXCEPT ![l] = Nobody]

EnterPhase(t) ==
    /\ pc[t] = "enter" /\ Kind[at[t]] \in Phased
    /\ Acquire(t, Kind[at[t]])
    /\ pc' = [pc EXCEPT ![t] = "first"]
    /\ UNCHANGED <<fileVars, boundVars, helperVars, startVars, main, at, first, firstIso, inuse>>

EnterVolslices(t) ==
    /\ pc[t] = "enter" /\ Kind[at[t]] = "volslice"
    /\ IF opt.clean THEN GoPast(t)
       ELSE pc' = [pc EXCEPT ![t] = "loop"] /\ UNCHANGED at
    /\ UNCHANGED <<fileVars, boundVars, helperVars, startVars, main, lock, first, firstIso, inuse>>

EnterSmoke3ds(t) ==
    /\ pc[t] = "enter" /\ Kind[at[t]] = "smoke"
    /\ pc' = [pc EXCEPT ![t] = "loop"]
    /\ UNCHANGED <<fileVars, boundVars, helperVars, startVars, main, at, lock, first,
                   firstIso, inuse>>

\* The flag is up: the thread is the first here.  With -c it removes the
\* outputs, and is done with the kind.
First(t) ==
    LET k == Kind[at[t]] IN
    /\ pc[t] = "first" /\ k \in first
    /\ first' = first \ {k}
    /\ ~opt.clean
    /\ IF k = "part" THEN Release(k) ELSE UNCHANGED lock
    /\ pc' = [pc EXCEPT ![t] = IF k = "part" THEN "loop"
                               ELSE IF k = "patch" THEN "copy"
                               ELSE IF opt.bounds THEN "spawn" ELSE "doit"]
    /\ UNCHANGED <<fileVars, boundVars, helperVars, startVars, main, at, firstIso, inuse>>

\* clean_boundary, and convert_slice with GLOBcleanfiles.
FirstCleans(t) ==
    LET k == Kind[at[t]] IN
    /\ pc[t] = "first" /\ k \in first
    /\ first' = first \ {k}
    /\ opt.clean
    /\ IF k = "part"
       THEN smvtiso' = {} /\ UNCHANGED disk
       ELSE /\ disk' = [i \in Files |-> IF i \in Of(k) \cap Readable THEN NoFile ELSE disk[i]]
            /\ UNCHANGED smvtiso
    /\ Release(k)
    /\ GoPast(t)
    /\ UNCHANGED <<boundVars, helperVars, startVars, main, firstIso, inuse>>

\* Mutant: the early return keeps the mutex.
NotFirst_KeepsLock(t) ==
    LET k == Kind[at[t]] IN
    /\ pc[t] = "first" /\ k \notin first
    /\ UNCHANGED lock
    /\ IF opt.clean THEN GoPast(t)
       ELSE pc' = [pc EXCEPT ![t] = "loop"] /\ UNCHANGED at
    /\ UNCHANGED <<fileVars, boundVars, helperVars, startVars, main, first, firstIso, inuse>>

\* The flag is down: another thread has done it.
NotFirst(t) ==
    LET k == Kind[at[t]] IN
    /\ pc[t] = "first" /\ k \notin first
    /\ Release(k)
    /\ IF opt.clean THEN GoPast(t)
       ELSE pc' = [pc EXCEPT ![t] = "loop"] /\ UNCHANGED at
    /\ UNCHANGED <<fileVars, boundVars, helperVars, startVars, main, first, firstIso, inuse>>

\* Each file takes the bounds of its label's first file.
TakeLeads(k) ==
    /\ setval' = [i \in Files |-> IF i \in Of(k) \cap Zip THEN setval[Lead[i]] ELSE setval[i]]
    /\ val' = [i \in Files |-> IF i \in Of(k) \cap Zip THEN val[Lead[i]] ELSE val[i]]

CopyPatchBounds(t) ==
    /\ pc[t] = "copy"
    /\ TakeLeads("patch")
    /\ pc' = [pc EXCEPT ![t] = IF opt.bounds THEN "spawn" ELSE "doit"]
    /\ UNCHANGED <<fileVars, helperVars, startVars, main, at, lock, first, firstIso, doit, inuse>>

\* Get_Boundary_Bounds, Get_Slice_Bounds: the helpers start at the kind's
\* first file, which is where the thread is.
SpawnHelpers(t) ==
    /\ pc[t] = "spawn"
    /\ inget' = inget \ Of(Kind[at[t]])
    /\ hpc' = [h \in Helpers |-> "loop"]
    /\ hat' = [h \in Helpers |-> at[t]]
    /\ pc' = [pc EXCEPT ![t] = "wait"]
    /\ UNCHANGED <<fileVars, boundVars, startVars, main, at, lock, first, firstIso, inuse, hist>>

HelperGoesOn(h) ==
    LET i == hat[h] + 1 IN
    /\ hat' = [hat EXCEPT ![h] = i]
    /\ hpc' = [hpc EXCEPT ![h] =
                 IF i > N THEN "over" ELSE IF Kind[i] # Kind[hat[h]] THEN "over" ELSE "loop"]

HelperKeeps == <<fileVars, boundVars, startVars, main, pc, at, first, firstIso, inuse>>

HelperLocks(h) ==
    /\ hpc[h] = "loop"
    /\ Acquire(h, BoundLock(Kind[hat[h]]))
    /\ hpc' = [hpc EXCEPT ![h] = "test"]
    /\ UNCHANGED <<HelperKeeps, inget, hist, hat>>

HelperTests(h) ==
    /\ hpc[h] = "test"
    /\ IF hat[h] \in inget
       THEN Release(BoundLock(Kind[hat[h]])) /\ HelperGoesOn(h)
       ELSE hpc' = [hpc EXCEPT ![h] = "mark"] /\ UNCHANGED <<lock, hat>>
    /\ UNCHANGED <<HelperKeeps, inget, hist>>

HelperMarks(h) ==
    /\ hpc[h] = "mark"
    /\ inget' = inget \cup {hat[h]}
    /\ Release(BoundLock(Kind[hat[h]]))
    /\ hpc' = [hpc EXCEPT ![h] = "read"]
    /\ UNCHANGED <<HelperKeeps, hist, hat>>

\* The file's frames go into its histogram, which is the file's own.
HelperReads(h) ==
    /\ hpc[h] = "read"
    /\ hist' = hist \cup {hat[h]}
    /\ HelperGoesOn(h)
    /\ UNCHANGED <<HelperKeeps, lock, inget>>

\* Mutant: the helpers are not joined.
MergeBounds_NoJoin(t) ==
    LET k == Kind[at[t]] IN
    /\ pc[t] = "wait"
    /\ setval' = [i \in Files |-> i \in Of(k) \/ setval[i]]
    /\ val' = [i \in Files |-> IF i \in Of(k) THEN Same(i) \cap hist ELSE val[i]]
    /\ hpc' = [h \in Helpers |-> "off"]
    /\ hat' = [h \in Helpers |-> 1]
    /\ pc' = [pc EXCEPT ![t] = "doit"]
    /\ UNCHANGED <<fileVars, startVars, main, at, lock, first, firstIso, doit, inuse, inget, hist>>

\* The helpers are joined, and the histograms of each label merged.
MergeBounds(t) ==
    LET k == Kind[at[t]] IN
    /\ pc[t] = "wait"
    /\ \A h \in Helpers : hpc[h] = "over"
    /\ setval' = [i \in Files |-> i \in Of(k) \/ setval[i]]
    /\ val' = [i \in Files |-> IF i \in Of(k) THEN Same(i) \cap hist ELSE val[i]]
    /\ hpc' = [h \in Helpers |-> "off"]
    /\ hat' = [h \in Helpers |-> 1]
    /\ pc' = [pc EXCEPT ![t] = "doit"]
    /\ UNCHANGED <<fileVars, startVars, main, at, lock, first, firstIso, doit, inuse, inget, hist>>

SetDoit(t) ==
    LET k == Kind[at[t]] IN
    /\ pc[t] = "doit"
    /\ IF k = "slice" THEN TakeLeads(k) ELSE UNCHANGED <<setval, val>>
    /\ doit' = [i \in Files |-> IF i \in Of(k) /\ (k = "slice" => i \in Zip)
                               THEN setval'[i] ELSE doit[i]]
    /\ Release(k)
    /\ pc' = [pc EXCEPT ![t] = "loop"]
    /\ UNCHANGED <<fileVars, helperVars, startVars, main, at, first, firstIso, inuse>>

--------------------------------------------------------------------------------
(* The files, one after another *)

\* Files that -auto excludes and, of the boundary files, those without bounds.
PassedBy(i) ==
    \/ Kind[i] \in {"patch", "slice", "smoke"} /\ i \notin Zip
    \/ Kind[i] = "patch" /\ ~doit[i]

PassBy(t) ==
    /\ pc[t] = "loop" /\ PassedBy(at[t])
    /\ GoOn(t)
    /\ UNCHANGED <<fileVars, boundVars, helperVars, startVars, main, lock, first, firstIso, inuse>>

\* Mutant: the mutex is not waited for.
ClaimLocks_NoMutex(t) ==
    /\ pc[t] = "loop" /\ ~PassedBy(at[t])
    /\ lock' = [lock EXCEPT ![Kind[at[t]]] = t]
    /\ pc' = [pc EXCEPT ![t] = "test"]
    /\ UNCHANGED <<fileVars, boundVars, helperVars, startVars, main, at, first, firstIso, inuse>>

ClaimLocks(t) ==
    /\ pc[t] = "loop" /\ ~PassedBy(at[t])
    /\ Acquire(t, Kind[at[t]])
    /\ pc' = [pc EXCEPT ![t] = "test"]
    /\ UNCHANGED <<fileVars, boundVars, helperVars, startVars, main, at, first, firstIso, inuse>>

ClaimTests(t) ==
    /\ pc[t] = "test"
    /\ IF inuse[at[t]]
       THEN Release(Kind[at[t]]) /\ GoOn(t)
       ELSE pc' = [pc EXCEPT ![t] = "mark"] /\ UNCHANGED <<at, lock>>
    /\ UNCHANGED <<fileVars, boundVars, helperVars, startVars, main, first, firstIso, inuse>>

\* A slice file without bounds is claimed, and not converted.
ClaimMarks(t) ==
    LET i == at[t] IN
    /\ pc[t] = "mark"
    /\ inuse' = [inuse EXCEPT ![i] = TRUE]
    /\ Release(Kind[i])
    /\ IF Kind[i] = "slice" /\ ~doit[i] THEN GoOn(t)
       ELSE pc' = [pc EXCEPT ![t] = "open"] /\ UNCHANGED at
    /\ UNCHANGED <<fileVars, boundVars, helperVars, startVars, main, first, firstIso>>

--------------------------------------------------------------------------------
(* convert_boundary, convert_slice, convert_volslice, convert_3dsmoke, part2iso *)

ConvertKeeps == <<boundVars, helperVars, startVars, main, lock, first, inuse>>

\* No source, or a compressed file that may not be overwritten.
Refuses(t) ==
    LET i == at[t] IN
    /\ pc[t] = "open" /\ Kind[i] # "part"
    /\ \/ i \notin Readable
       \/ ~opt.clean /\ ~opt.force /\ disk[i].written # "none"
    /\ GoOn(t)
    /\ UNCHANGED <<ConvertKeeps, fileVars, firstIso>>

CleansSmoke(t) ==
    LET i == at[t] IN
    /\ pc[t] = "open" /\ Kind[i] = "smoke" /\ opt.clean
    /\ i \in Readable
    /\ disk' = [disk EXCEPT ![i] = NoFile]
    /\ GoOn(t)
    /\ UNCHANGED <<ConvertKeeps, smvtiso, firstIso>>

\* Mutant: an old output is not looked for.
Opens_Overwrites(t) ==
    LET i == at[t] IN
    /\ pc[t] = "open" /\ Kind[i] # "part" /\ ~opt.clean
    /\ i \in Readable \cap Writable
    /\ disk' = [disk EXCEPT ![i] = [written |-> "part", completion |-> 0]]
    /\ pc' = [pc EXCEPT ![t] = "write"]
    /\ UNCHANGED <<ConvertKeeps, smvtiso, at, firstIso>>

\* Mutant: the header says at once that the file is complete.
Opens_CodeFirst(t) ==
    LET i == at[t] IN
    /\ pc[t] = "open" /\ Kind[i] # "part" /\ ~opt.clean
    /\ i \in Readable \cap Writable
    /\ opt.force \/ disk[i].written = "none"
    /\ disk' = [disk EXCEPT ![i] = [written |-> "part", completion |-> 1]]
    /\ pc' = [pc EXCEPT ![t] = "write"]
    /\ UNCHANGED <<ConvertKeeps, smvtiso, at, firstIso>>

\* The output is truncated and its header written, with completion code 0.
Opens(t) ==
    LET i == at[t] IN
    /\ pc[t] = "open" /\ Kind[i] # "part" /\ ~opt.clean
    /\ i \in Readable \cap Writable
    /\ opt.force \/ disk[i].written = "none"
    /\ disk' = [disk EXCEPT ![i] = [written |-> "part", completion |-> 0]]
    /\ pc' = [pc EXCEPT ![t] = "write"]
    /\ UNCHANGED <<ConvertKeeps, smvtiso, at, firstIso>>

\* Mutant: every file opens the list with "w".
ListsIso_Truncates(t) ==
    LET i == at[t] IN
    /\ pc[t] = "open" /\ Kind[i] = "part"
    /\ lock["part"] = Nobody
    /\ firstIso' = FALSE
    /\ smvtiso' = {i}
    /\ pc' = [pc EXCEPT ![t] = "write"]
    /\ UNCHANGED <<ConvertKeeps, disk, at>>

\* The output, or the file of sizes beside it, cannot be opened for writing;
\* in the latter case the output is left empty.
OpensNot(t) ==
    LET i == at[t] IN
    /\ pc[t] = "open" /\ Kind[i] # "part" /\ ~opt.clean
    /\ i \in Readable \ Writable
    /\ opt.force \/ disk[i].written = "none"
    /\ disk' \in {disk, [disk EXCEPT ![i] = [written |-> "part", completion |-> 0]]}
    /\ GoOn(t)
    /\ UNCHANGED <<ConvertKeeps, smvtiso, firstIso>>

\* part2iso lists the file's isosurfaces, under its mutex.
ListsIso(t) ==
    LET i == at[t] IN
    /\ pc[t] = "open" /\ Kind[i] = "part"
    /\ lock["part"] = Nobody
    /\ firstIso' = FALSE
    /\ smvtiso' = IF firstIso THEN {i} ELSE smvtiso \cup {i}
    /\ pc' = [pc EXCEPT ![t] = "write"]
    /\ UNCHANGED <<ConvertKeeps, disk, at>>

Writes(t) ==
    LET i == at[t] IN
    /\ pc[t] = "write"
    /\ \E w \in {"whole"} \cup (IF Kind[i] \in Bounded THEN {"cut"} ELSE {}) :
          disk' = IF Kind[i] = "part" THEN disk ELSE [disk EXCEPT ![i].written = w]
    /\ pc' = [pc EXCEPT ![t] = "close"]
    /\ UNCHANGED <<ConvertKeeps, smvtiso, at, firstIso>>

\* The completion code of a slice file.  convert_boundary writes its 1 to
\* offset 8, onto the file version; convert_volslice, whose header has the
\* version before the code, to offset 4, onto the version; a 3D smoke file
\* has no such code.
CompletionOffset(k) == IF k = "volslice" THEN 8 ELSE 4
ClosingOffset(k)    == IF k = "patch" THEN 8 ELSE 4

Closes(t) ==
    LET i == at[t] IN
    /\ pc[t] = "close"
    /\ disk' = IF /\ Kind[i] \in {"patch", "slice", "volslice"}
                  /\ ClosingOffset(Kind[i]) = CompletionOffset(Kind[i])
               THEN [disk EXCEPT ![i].completion = 1] ELSE disk
    /\ GoOn(t)
    /\ UNCHANGED <<ConvertKeeps, smvtiso, firstIso>>

--------------------------------------------------------------------------------
ThreadStep(t) ==
    \/ EnterPhase(t) \/ EnterVolslices(t) \/ EnterSmoke3ds(t)
    \/ First(t) \/ FirstCleans(t) \/ NotFirst(t)
    \/ CopyPatchBounds(t) \/ SpawnHelpers(t) \/ MergeBounds(t) \/ SetDoit(t)
    \/ PassBy(t) \/ ClaimLocks(t) \/ ClaimTests(t) \/ ClaimMarks(t)
    \/ Refuses(t) \/ CleansSmoke(t) \/ Opens(t) \/ OpensNot(t)
    \/ ListsIso(t) \/ Writes(t) \/ Closes(t)

HelperStep(h) == HelperLocks(h) \/ HelperTests(h) \/ HelperMarks(h) \/ HelperReads(h)

MainStep == JoinThreads \/ \E t \in Threads : CreateThread(t)

Work ==
    \/ MainStep
    \/ \E t \in Threads : ThreadStep(t)
    \/ \E h \in Helpers : HelperStep(h)

Next == Start \/ Kill \/ Work

Spec == Init /\ [][Next]_vars

\* As long as some thread can go on, one does.  No more is needed: every
\* thread has finitely many steps.
FairSpec == Spec /\ WF_vars(Work)

--------------------------------------------------------------------------------
\* Where a thread converts.
IsBusy(t) == pc[t] \in Busy

\* No two threads ever convert the same file: a file is claimed by testing
\* and setting inuse under one mutex.
ClaimsExclusive ==
    \A t, u \in Threads : IsBusy(t) /\ IsBusy(u) /\ t # u => at[t] # at[u]

\* With -bounds, a boundary or slice file is converted only with bounds taken
\* from the data of all files of its label, so that all of them are scaled
\* alike; and never without bounds.
BoundsComplete ==
    \A t \in Threads : LET i == at[t] IN
        IsBusy(t) /\ Kind[i] \in Bounded =>
            /\ setval[i]
            /\ opt.bounds => val[i] = Same(i)

\* A slice file that a kill left behind half written is never taken for a
\* complete one (Smokeview reads a slice file only if its code is 1).
CodeMeansClosed ==
    \A i \in Files : disk[i].completion = 1 => disk[i].written \in {"whole", "cut"}

\* Without -f and -c, a run changes no compressed file an earlier run left.
\* The output is opened in the same run, which shows in the converter's place.
OldFilesKept ==
    [][\A i \in Files :
          /\ disk[i].written # "none" /\ disk'[i] # disk[i]
          => \/ opt.force \/ opt.clean
             \/ \E t \in Threads : at[t] = i /\ pc[t] \in {"write", "close"}]_vars

\* When smokezip ends, its list of particle isosurfaces names every particle
\* file: the thread that truncates the list is the first to write to it.
IsoListComplete ==
    main = "end" /\ ~opt.clean => smvtiso = Of("part")

\* The files some thread must convert.
Wanted ==
    {i \in Files :
        IF opt.clean THEN Kind[i] = "smoke" /\ i \in Zip
        ELSE /\ Kind[i] \in {"patch", "slice", "smoke"} => i \in Zip
             /\ Kind[i] \in Bounded => opt.bounds \/ Lead[i] \in Ini}

Progress(i) ==
    IF \E t \in Threads : IsBusy(t) /\ at[t] = i THEN "busy"
    ELSE IF inuse[i] THEN "done" ELSE "waiting"

\* The files of a run and how far they are; whether the program does not run.
Pool == IF main = "off" THEN [i \in {} |-> "waiting"] ELSE [i \in Wanted |-> Progress(i)]
Over == main \in {"off", "end"}

W == INSTANCE WorkPool WITH pool <- Pool, over <- Over

\* Seen from outside, smokezip converts each file in one thread, and ends when
\* all are converted.
PoolSpec == W!PoolSpec

\* A run ends: no thread waits for a mutex that is never released, and main
\* joins them all.
RunEnds == main = "create" ~> main \in {"off", "end"}
=============================================================================
