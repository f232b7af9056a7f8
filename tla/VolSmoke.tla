------------------------------ MODULE VolSmoke ------------------------------
(***************************************************************************)
(* Loading of volume-rendered smoke in Smokeview (SMV/source/smokeview:    *)
(* IOvolsmoke.c, menus.c, update.c, threader.c).  A load runs in a thread  *)
(* of its own that reads every frame of every wanted mesh while the user   *)
(* interface goes on drawing and serving menus.  The thread has no         *)
(* argument: which mesh it reads is told by the global read_vol_mesh,      *)
(* which the thread tests before each mesh and the menus write; there is   *)
(* no mutex (LOCK_VOLLOAD is declared and never taken).                    *)
(*                                                                         *)
(* A mesh has a smoke and a fire file.  smokedataptrs and firedataptrs are *)
(* its frames; smokedataptr and firedataptr are what is drawn, and are set *)
(* by the loader as well as by the interface.  Frames are numbered from 1. *)
(* The box "load compressed" is off (load_volcompressed = 0), no script is *)
(* running (runscript = 0), and a file holds at least one frame.           *)
(***************************************************************************)
EXTENDS Integers, FiniteSets

CONSTANTS
    LastMesh,   \* the number of meshes, in the order of meshinfo
    NTimes,     \* the number of frames of each mesh
    MayLose,    \* the files <<quantity, mesh>> that may fail to open
    MaxLoads    \* the number of loads the user asks for

Meshes     == 1 .. LastMesh
Quantities == {"smoke", "fire"}

ASSUME VolSmokeAssumption ==
    /\ LastMesh \in Nat \ {0}
    /\ NTimes \in [Meshes -> Nat \ {0}]
    /\ MayLose \subseteq Quantities \X Meshes
    /\ MaxLoads \in Nat

Loaders   == 1 .. MaxLoads
Frames(m) == 1 .. NTimes[m]

\* The values of read_vol_mesh that are not meshes.
ReadAll  == -1
Unload   == -2
ReadNone == -3

VARIABLES
    target,     \* read_vol_mesh
    zip,        \* compress_volsmoke
    form,       \* is_compressed of each mesh
    full,       \* the frame in smokedata_full and firedata_full of each mesh
    entry,      \* smokedataptrs and firedataptrs of each mesh
    drawn,      \* smokedataptr and firedataptr of each mesh
    ready,      \* the frames of each mesh with dataready = 1
    loaded,     \* the meshes with loaded = 1 and display = 1
    loads,      \* the number of loader threads created
    pc,         \* where each loader is
    at,         \* the frame and the mesh a loader is at, and its nframes
    buffer,     \* where a loader's smokeframe_data and fireframe_data point
    ui,         \* what the user interface is doing
    \* Two variables that are not in the code:
    patient,    \* the user has unloaded only when no load was going on
    due         \* the number of frames of each mesh that he has asked for

frameVars  == <<form, full, entry, drawn, ready>>
loaderVars == <<loads, pc, at, buffer>>
userVars   == <<ui, patient, due>>
vars == <<target, zip, form, full, entry, drawn, ready, loaded, loads, pc, at,
          buffer, ui, patient, due>>

\* What a pointer names: an address malloc has left, nothing, a frame as read,
\* a compressed frame, the scratch array of the mesh (smokedata_full), or the
\* array a frame is uncompressed into for drawing (smokedata_view).
Pointers == [kind : {"wild", "null", "raw", "zip", "full", "view"}, frame : Nat]

Wild == [kind |-> "wild", frame |-> 0]
Null == [kind |-> "null", frame |-> 0]
View == [kind |-> "view", frame |-> 0]

Outside == [frame |-> 0, mesh |-> 0, nframes |-> 0]

Idle == [doing |-> "idle", mesh |-> 0, frame |-> 0, until |-> 0]

TypeOK ==
    /\ target \in Meshes \cup {ReadAll, Unload, ReadNone}
    /\ zip \in BOOLEAN
    /\ form \in [Meshes -> BOOLEAN]
    /\ full \in [Quantities -> [Meshes -> Nat]]
    /\ \A m \in Meshes :
         /\ \A q \in Quantities : entry[q][m] \in [Frames(m) -> Pointers]
         /\ ready[m] \subseteq Frames(m)
    /\ drawn \in [Quantities -> [Meshes -> Pointers]]
    /\ loaded \subseteq Meshes
    /\ loads \in 0 .. MaxLoads
    /\ pc \in [Loaders -> {"off", "scan", "pass1", "smoke", "open", "fire", "mark",
                           "pass2", "end", "over"}]
    /\ at \in [Loaders -> [frame : Nat, mesh : 0 .. LastMesh, nframes : Nat]]
    /\ buffer \in [Loaders -> {"none", "own", "full"}]
    /\ ui \in [doing : {"idle", "load", "test", "free", "clear"},
               mesh : Nat, frame : Nat, until : Nat]
    /\ patient \in BOOLEAN
    /\ due \in [Meshes -> Nat]

\* init_volrender, which leaves smokedataptr and firedataptr as malloc has left
\* them.
Init ==
    /\ target = ReadNone
    /\ zip = FALSE
    /\ form = [m \in Meshes |-> FALSE]
    /\ full = [q \in Quantities |-> [m \in Meshes |-> 0]]
    /\ entry = [q \in Quantities |-> [m \in Meshes |-> [f \in Frames(m) |-> Null]]]
    /\ drawn = [q \in Quantities |-> [m \in Meshes |-> Wild]]
    /\ ready = [m \in Meshes |-> {}]
    /\ loaded = {}
    /\ loads = 0
    /\ pc = [l \in Loaders |-> "off"]
    /\ at = [l \in Loaders |-> Outside]
    /\ buffer = [l \in Loaders |-> "none"]
    /\ ui = Idle
    /\ patient = TRUE
    /\ due = [m \in Meshes |-> 0]

\* The test of read_vol_mesh made before each use of mesh m.
Wanted(m) == target \in {ReadAll, m}

--------------------------------------------------------------------------------
(* The user interface *)

\* Mutant: only an unload keeps a load from starting.
MayLoad_WhileLoading == target # Unload

\* LoadVolSmoke3DMenu with one mesh or LOAD_ALL: refused, with a warning,
\* unless nothing is being loaded or unloaded.
MayLoad == target = ReadNone

\* The box "compress data while loading" has the value z.
LoadVolSmoke3DMenu(t, z) ==
    /\ ui = Idle
    /\ loads < MaxLoads
    /\ MayLoad
    /\ target' = t
    /\ zip' = z
    /\ ui' = [Idle EXCEPT !.doing = "load"]
    /\ UNCHANGED <<frameVars, loaded, loaderVars, patient, due>>

\* The first wanted mesh, whose number of frames a loader reads of each.
LeadFrames == NTimes[IF target = ReadAll THEN 1 ELSE target]

\* The frames of mesh m that are read if mesh m is wanted.
Asked(m) == IF NTimes[m] < LeadFrames THEN NTimes[m] ELSE LeadFrames

\* read_volsmoke_allframes_allmeshes: the wanted meshes count as loaded from
\* here on; then the thread is created.
StartLoader ==
    /\ ui.doing = "load"
    /\ loaded' = loaded \cup {m \in Meshes : Wanted(m)}
    /\ due' = [m \in Meshes |-> IF Wanted(m) /\ due[m] < Asked(m) THEN Asked(m)
                                                             ELSE due[m]]
    /\ loads' = loads + 1
    /\ pc' = [pc EXCEPT ![loads + 1] = "scan"]
    /\ at' = [at EXCEPT ![loads + 1].mesh = 1]
    /\ ui' = Idle
    /\ UNCHANGED <<target, zip, frameVars, buffer, patient>>

\* UnLoadVolSmoke3DMenu, from the Unload menu (which lists the loaded meshes),
\* the dialog and the menu Unload all: nothing asks whether a load is going on.
UnLoadVolSmoke3DMenu(first, last) ==
    /\ ui = Idle
    /\ target' = Unload
    /\ ui' = [doing |-> "test", mesh |-> first, frame |-> 0, until |-> last]
    /\ patient' = (patient /\ target = ReadNone)
    /\ UNCHANGED <<zip, frameVars, loaded, loaderVars, due>>

UnloadMenus ==
    \/ UnLoadVolSmoke3DMenu(1, LastMesh)
    \/ \E m \in loaded : UnLoadVolSmoke3DMenu(m, m)

\* How far the unload has come.
UIGoes(doing, m, f) == [doing |-> doing, mesh |-> m, frame |-> f, until |-> ui.until]

\* The loop of UnLoadVolSmoke3DMenu: the next mesh, or the end.
UnloadTests ==
    /\ ui.doing = "test"
    /\ \/ /\ ui.mesh <= ui.until
          /\ ui' = IF ui.mesh \in loaded
                   THEN UIGoes("free", ui.mesh, 1)
                   ELSE UIGoes("test", ui.mesh + 1, 0)
          /\ target' = target
       \/ /\ ui.mesh > ui.until
          /\ ui' = Idle
          /\ target' = ReadNone
    /\ UNCHANGED <<zip, frameVars, loaded, loaderVars, patient, due>>

\* unload_volsmoke_allframes: FREEMEMORY of the data of one frame; smokedataptr
\* and firedataptr may go on naming them ...
UnloadFrees ==
    /\ ui.doing = "free"
    /\ ui.frame <= NTimes[ui.mesh]
    /\ entry' = [q \in Quantities |-> [entry[q] EXCEPT ![ui.mesh][ui.frame] = Null]]
    /\ ui' = UIGoes("clear", ui.mesh, ui.frame)
    /\ UNCHANGED <<target, zip, form, full, drawn, ready, loaded, loaderVars,
                   patient, due>>

\* Mutant: dataready keeps its value.
UnloadClears_NotReady ==
    /\ ui.doing = "clear"
    /\ ui' = UIGoes("free", ui.mesh, ui.frame + 1)
    /\ UNCHANGED <<target, zip, frameVars, loaded, loaderVars, patient, due>>

\* ... its dataready ...
UnloadClears ==
    /\ ui.doing = "clear"
    /\ ready' = [ready EXCEPT ![ui.mesh] = @ \ {ui.frame}]
    /\ ui' = UIGoes("free", ui.mesh, ui.frame + 1)
    /\ UNCHANGED <<target, zip, form, full, entry, drawn, loaded, loaderVars,
                   patient, due>>

\* ... and, after the last frame, loaded and display.
UnloadEnds ==
    /\ ui.doing = "free"
    /\ ui.frame > NTimes[ui.mesh]
    /\ loaded' = loaded \ {ui.mesh}
    /\ due' = [due EXCEPT ![ui.mesh] = 0]
    /\ ui' = UIGoes("test", ui.mesh + 1, 0)
    /\ UNCHANGED <<target, zip, frameVars, loaderVars, patient>>

\* The last frame of mesh m with dataready = 1 that is not later than frame t,
\* as a set with one element or none.
Shown(m, t) == {f \in ready[m] : f <= t /\ \A g \in ready[m] : g <= t => g <= f}

\* Update_Framenumber, called by Idle_CB when the time is another or all is to be
\* drawn again; the time is that of frame t.  A compressed frame is uncompressed
\* for drawing: one without data ends the program (update.c:77 and 96 read a
\* header at NULL), so that there is no step.
UpdateFrameNumber(t) ==
    /\ ui = Idle
    /\ \A m \in loaded, q \in Quantities :
         form[m] => \A f \in Shown(m, t) : entry[q][m][f] # Null
    /\ drawn' = [q \in Quantities |-> [m \in Meshes |->
                  IF m \notin loaded \/ Shown(m, t) = {} THEN drawn[q][m]
                  ELSE IF form[m] THEN View
                  ELSE entry[q][m][CHOOSE f \in Shown(m, t) : TRUE]]]
    /\ UNCHANGED <<target, zip, form, full, entry, ready, loaded, loaderVars, userVars>>

--------------------------------------------------------------------------------
(* A loader thread: read_volsmoke_allframes_allmeshes2 *)

\* Loader l goes to one of its places; in the two loops over the meshes to the
\* next mesh, and from the last one to what follows the loop.
Goes(l, place, where) == pc' = [pc EXCEPT ![l] = place] /\ at' = [at EXCEPT ![l] = where]

AfterPass1(l) ==
    LET a == at[l]
    IN IF a.mesh < LastMesh THEN Goes(l, "pass1", [a EXCEPT !.mesh = @ + 1])
                            ELSE Goes(l, "pass2", [a EXCEPT !.mesh = 1])

AfterPass2(l) ==
    LET a == at[l]
    IN IF a.mesh < LastMesh THEN Goes(l, "pass2", [a EXCEPT !.mesh = @ + 1])
       ELSE IF a.frame < a.nframes
       THEN Goes(l, "pass1", [frame |-> a.frame + 1, mesh |-> 1, nframes |-> a.nframes])
       ELSE Goes(l, "end", Outside)

\* Mutant: nframes is that of the first mesh, wanted or not.
Scans_AnyMesh(l) ==
    /\ pc[l] = "scan"
    /\ Goes(l, "pass1", [frame |-> 1, mesh |-> 1, nframes |-> NTimes[1]])
    /\ UNCHANGED <<target, zip, frameVars, loaded, loads, buffer, userVars>>

\* nframes is that of the first wanted mesh.
Scans(l) ==
    LET m == at[l].mesh
    IN /\ pc[l] = "scan"
       /\ IF Wanted(m)
          THEN Goes(l, "pass1", [frame |-> 1, mesh |-> 1, nframes |-> NTimes[m]])
          ELSE IF m < LastMesh
          THEN Goes(l, "scan", [at[l] EXCEPT !.mesh = @ + 1])
          ELSE Goes(l, "end", Outside)
       /\ UNCHANGED <<target, zip, frameVars, loaded, loads, buffer, userVars>>

\* The frame of a quantity is read into the loader's array, which is one of its
\* own or, for compression, the scratch array of the mesh.
ReadInto(array, q, m, f) ==
    full' = IF array = "full" THEN [full EXCEPT ![q][m] = f] ELSE full

\* read_volsmoke_frame: the form of the mesh is set, whatever the form of the
\* frames it has already, and the frame of the smoke file is read.  If the file
\* cannot be opened, nothing more is done for this frame.
ReadsSmoke(l) ==
    LET m == at[l].mesh
        f == at[l].frame
        array == IF zip THEN "full" ELSE "own"
    IN /\ pc[l] = "pass1"
       /\ Wanted(m)
       /\ f <= NTimes[m]
       /\ form' = [form EXCEPT ![m] = zip]
       /\ \/ /\ <<"smoke", m>> \in MayLose
             /\ AfterPass1(l)
             /\ UNCHANGED <<full, buffer>>
          \/ /\ ReadInto(array, "smoke", m, f)
             /\ buffer' = [buffer EXCEPT ![l] = array]
             /\ Goes(l, "smoke", at[l])
       /\ UNCHANGED <<target, zip, entry, drawn, ready, loaded, loads, userVars>>

PassesBy(l) ==
    /\ pc[l] = "pass1"
    /\ ~Wanted(at[l].mesh) \/ at[l].frame > NTimes[at[l].mesh]
    /\ AfterPass1(l)
    /\ UNCHANGED <<target, zip, frameVars, loaded, loads, buffer, userVars>>

\* What the loader's array holds by now, compressed if is_compressed is 1.
Block(l, q) ==
    LET m == at[l].mesh
    IN [kind  |-> IF form[m] THEN "zip" ELSE IF buffer[l] = "full" THEN "full" ELSE "raw",
        frame |-> IF buffer[l] = "full" THEN full[q][m] ELSE at[l].frame]

\* is_compressed is looked at again: compressed or as it is, the frame goes to
\* its entry, and is what is drawn from now on, as it is or compressed.  What
\* the entry named before is not freed.
Stores(l, q) ==
    LET m == at[l].mesh
    IN /\ pc[l] = q
       /\ entry' = [entry EXCEPT ![q][m][at[l].frame] = Block(l, q)]
       /\ drawn' = [drawn EXCEPT ![q][m] = Block(l, q)]
       /\ Goes(l, IF q = "smoke" THEN "open" ELSE "mark", at[l])
       /\ UNCHANGED <<target, zip, form, full, ready, loaded, loads, buffer, userVars>>

\* The same for the fire file; without it the frame goes without fire data.
ReadsFire(l) ==
    /\ pc[l] = "open"
    /\ \/ /\ <<"fire", at[l].mesh>> \in MayLose
          /\ Goes(l, "mark", at[l])
          /\ full' = full
       \/ /\ ReadInto(buffer[l], "fire", at[l].mesh, at[l].frame)
          /\ Goes(l, "fire", at[l])
    /\ UNCHANGED <<target, zip, form, entry, drawn, ready, loaded, loads, buffer, userVars>>

\* dataready[framenum] = 1, with fire data or without.
MarksReady(l) ==
    /\ pc[l] = "mark"
    /\ ready' = [ready EXCEPT ![at[l].mesh] = @ \cup {at[l].frame}]
    /\ buffer' = [buffer EXCEPT ![l] = "none"]
    /\ AfterPass1(l)
    /\ UNCHANGED <<target, zip, form, full, entry, drawn, loaded, loads, userVars>>

\* Mutant: what is drawn is left to the next Update_Framenumber.
MarksLoaded_KeepsDrawn(l) ==
    LET m == at[l].mesh
    IN /\ pc[l] = "pass2"
       /\ loaded' = IF Wanted(m) THEN loaded \cup {m} ELSE loaded
       /\ AfterPass2(l)
       /\ UNCHANGED <<target, zip, frameVars, loads, buffer, userVars>>

\* The second loop of read_volsmoke_frame_allmeshes; after the first frame it
\* sets what is drawn.
MarksLoaded(l) ==
    LET m == at[l].mesh
    IN /\ pc[l] = "pass2"
       /\ loaded' = IF Wanted(m) THEN loaded \cup {m} ELSE loaded
       /\ drawn' = IF Wanted(m) /\ at[l].frame = 1
                   THEN [q \in Quantities |->
                           [drawn[q] EXCEPT ![m] = IF form[m] THEN View ELSE entry[q][m][1]]]
                   ELSE drawn
       /\ AfterPass2(l)
       /\ UNCHANGED <<target, zip, form, full, entry, ready, loads, buffer, userVars>>

\* Mutant: read_vol_mesh is left as it is.
LoaderEnds_KeepsTarget(l) ==
    /\ pc[l] = "end"
    /\ Goes(l, "over", Outside)
    /\ UNCHANGED <<target, zip, frameVars, loaded, loads, buffer, userVars>>

LoaderEnds(l) ==
    /\ pc[l] = "end"
    /\ target' = ReadNone
    /\ Goes(l, "over", Outside)
    /\ UNCHANGED <<zip, frameVars, loaded, loads, buffer, userVars>>

--------------------------------------------------------------------------------
Loader(l) ==
    \/ Scans(l) \/ ReadsSmoke(l) \/ PassesBy(l) \/ ReadsFire(l)
    \/ \E q \in Quantities : Stores(l, q)
    \/ MarksReady(l) \/ MarksLoaded(l) \/ LoaderEnds(l)

\* What the user interface finishes once it has begun.
Working == StartLoader \/ UnloadTests \/ UnloadFrees \/ UnloadClears \/ UnloadEnds

Next ==
    \/ \E t \in Meshes \cup {ReadAll}, z \in BOOLEAN : LoadVolSmoke3DMenu(t, z)
    \/ UnloadMenus
    \/ Working
    \/ \E t \in UNION {Frames(m) : m \in Meshes} : UpdateFrameNumber(t)
    \/ \E l \in Loaders : Loader(l)

Spec == Init /\ [][Next]_vars

\* A thread that runs goes on, and so does a menu callback; the user need not
\* ask for anything.
FairSpec == Spec /\ WF_vars(Working) /\ \A l \in Loaders : WF_vars(Loader(l))

--------------------------------------------------------------------------------
(* Properties *)

Running == {l \in Loaders : pc[l] \notin {"off", "over"}}
AtRest  == ui = Idle /\ target = ReadNone

\* The data of a quantity of frame f are those of frame f, as read or compressed.
Whole(q, m, f) == entry[q][m][f] \in [kind : {"raw", "zip"}, frame : {f}]

\* UpdateFrameNumber trusts dataready: between two callbacks of a patient session,
\* also while a loader runs, a frame that can be shown has its own smoke data, and
\* its own fire data unless the fire file could not be opened.
FramesHaveData ==
    \A m \in loaded : \A f \in ready[m], q \in Quantities :
        \/ Whole(q, m, f)
        \/ q = "fire" /\ <<q, m>> \in MayLose /\ entry[q][m][f] = Null

\* UpdateFrameNumber takes the data for compressed when is_compressed is 1, which a
\* load in the other form changes before it has replaced the data: when the load
\* is over, every frame that each load of the mesh reads has the form of the mesh,
\* unless its file, or the smoke file before it, could not be opened.
FormsAgree ==
    \A m \in loaded, q \in Quantities :
        {"smoke", q} \X {m} \subseteq (Quantities \X Meshes) \ MayLose =>
            \A f \in ready[m] :
                f <= NTimes[1] => entry[q][m][f].kind = IF form[m] THEN "zip" ELSE "raw"

\* What Smokeview can show in a patient session is right.
ShownIsRight ==
    patient /\ ui = Idle => FramesHaveData /\ (target = ReadNone => FormsAgree)

\* smokedataptr and firedataptr name data that still exist.
Live(q, m) ==
    LET p == drawn[q][m]
    IN \/ p \in {View, Null}
       \/ p.kind \in {"raw", "zip"} /\ p.frame \in Frames(m) /\ entry[q][m][p.frame] # Null

\* An unload leaves smokedataptr and firedataptr on the data it has freed, and the
\* next load counts the mesh as loaded before it has read anything: in a patient
\* session the drawing code has live data again when the mesh has a frame to show,
\* and at the latest, also without the files, when the load is over.
DrawnIsLive ==
    patient /\ ui = Idle =>
        \A m \in loaded, q \in Quantities :
            (target = ReadNone \/ (ready[m] # {} /\ <<q, m>> \notin MayLose)) => Live(q, m)

\* A loader reads as many frames as the first wanted mesh has: once a load is over
\* in a patient session, every loaded mesh whose smoke file can be opened has all
\* the frames asked for and no more, a mesh longer than the first one included.
LoadedIsWhole ==
    patient /\ AtRest =>
        \A m \in loaded : <<"smoke", m>> \notin MayLose => ready[m] = 1 .. due[m]

\* unload_volsmoke_allframes clears what it frees: in a patient session at rest a
\* mesh that is not loaded has no data and no frame to show.
UnloadedIsEmpty ==
    patient /\ AtRest =>
        \A m \in Meshes \ loaded :
            ready[m] = {} /\ \A q \in Quantities, f \in Frames(m) : entry[q][m][f] = Null

\* "3D smoke is currently being loaded ... Load data when this is complete."
\* (menus.c:3259): in a patient session whoever may load finds no loader at
\* work, from the menu that lets him in to the thread that frees read_vol_mesh.
LoadsAlone == patient => Cardinality(Running) <= 1

\* read_vol_mesh is always freed again, whatever the user does, so that smoke
\* can be loaded; in particular no unload and no second loader leaves it set.
LoadingEnds == (target # ReadNone) ~> (target = ReadNone)
================================================================================
