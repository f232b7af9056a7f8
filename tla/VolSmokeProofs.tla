--------------------------- MODULE VolSmokeProofs ---------------------------
(***************************************************************************)
(* Theorems about VolSmoke for any meshes, numbers of frames, files that   *)
(* may be lost and loads.                                                  *)
(***************************************************************************)
EXTENDS VolSmoke, TLAPS, FiniteSetTheorems

USE VolSmokeAssumption

-----------------------------------------------------------------------------
(* What holds in every session.                                            *)

\* The arrays have one element for each quantity and mesh.
Shapes ==
    /\ entry = [q \in Quantities |-> [m \in Meshes |-> entry[q][m]]]
    /\ ready = [m \in Meshes |-> ready[m]]

\* A loader is at a mesh there is, and stores a frame there is.
Reading == {"pass1", "smoke", "open", "fire", "mark", "pass2"}

LoaderOK ==
    \A l \in Loaders :
        /\ pc[l] \in {"scan"} \cup Reading => at[l].mesh \in Meshes
        /\ pc[l] \in Reading => at[l].frame >= 1
        /\ pc[l] \in {"smoke", "open", "fire", "mark"} => at[l].frame <= NTimes[at[l].mesh]

\* So is the interface when it unloads; a loader is left to start a load.
UIOK ==
    /\ ui.doing = "load" => loads < MaxLoads
    /\ ui.doing \in {"free", "clear"} => ui.mesh \in Meshes /\ ui.frame >= 1
    /\ ui.doing = "clear" => ui.frame <= NTimes[ui.mesh]

\* The types of records and of the places of loaders.
At     == [frame : Nat, mesh : 0 .. LastMesh, nframes : Nat]
Doings == [doing : {"idle", "load", "test", "free", "clear"},
           mesh : Nat, frame : Nat, until : Nat]
Places == {"off", "scan", "end", "over"} \cup Reading

Base == TypeOK /\ Shapes /\ LoaderOK /\ UIOK

LEMMA BaseInit == Init => Base
  <1> SUFFICES ASSUME Init PROVE Base
    OBVIOUS
  <1>a. Null \in Pointers /\ Wild \in Pointers
    BY DEF Null, Wild, Pointers
  <1>b. \A m \in Meshes, q \in Quantities : entry[q][m] \in [Frames(m) -> Pointers]
    BY <1>a DEF Init
  <1>c. drawn \in [Quantities -> [Meshes -> Pointers]]
    BY <1>a DEF Init
  <1>d. full \in [Quantities -> [Meshes -> Nat]] /\ due \in [Meshes -> Nat]
    BY DEF Init
  <1>e. Outside \in At /\ Idle \in Doings
    BY DEF Outside, Idle, At, Doings
  <1>f. at \in [Loaders -> At] /\ ui \in Doings
    BY <1>e DEF Init
  <1>g. /\ target \in Meshes \cup {ReadAll, Unload, ReadNone} /\ zip \in BOOLEAN
        /\ form \in [Meshes -> BOOLEAN] /\ patient \in BOOLEAN
        /\ \A m \in Meshes : ready[m] \subseteq Frames(m)
        /\ loaded \subseteq Meshes
    BY Zenon DEF Init
  <1>i. loads \in 0 .. MaxLoads
    BY DEF Init
  <1>h. pc \in [Loaders -> Places] /\ buffer \in [Loaders -> {"none", "own", "full"}]
    BY DEF Init, Places
  <1>1. TypeOK
    BY <1>b, <1>c, <1>d, <1>f, <1>g, <1>h, <1>i, Zenon DEF TypeOK, At, Doings, Places, Reading
  <1>2. Shapes /\ LoaderOK /\ UIOK
    BY DEF Init, Shapes, LoaderOK, UIOK, Idle, Reading
  <1> QED
    BY <1>1, <1>2 DEF Base

\* The types of the variables, by name.
LEMMA Shape ==
  ASSUME Base
  PROVE  /\ \A m \in Meshes : ready[m] \subseteq Frames(m)
         /\ loaded \subseteq Meshes
         /\ \A q \in Quantities, m \in Meshes : entry[q][m] \in [Frames(m) -> Pointers]
         /\ form \in [Meshes -> BOOLEAN] /\ zip \in BOOLEAN
         /\ full \in [Quantities -> [Meshes -> Nat]]
         /\ drawn \in [Quantities -> [Meshes -> Pointers]]
         /\ pc \in [Loaders -> Places] /\ at \in [Loaders -> At]
         /\ buffer \in [Loaders -> {"none", "own", "full"}]
         /\ ui \in Doings /\ due \in [Meshes -> Nat] /\ loads \in 0 .. MaxLoads
  BY DEF Base, TypeOK, Doings, At, Places, Reading

\* One frame of one array is set to p.
SetsEntry(q, m, f, p) == entry' = [entry EXCEPT ![q][m][f] = p]

\* Nothing else is.
LEMMA OneEntry ==
  ASSUME Base, NEW q \in Quantities, NEW m \in Meshes, NEW f \in Frames(m),
         NEW p \in Pointers, SetsEntry(q, m, f, p)
  PROVE  /\ Shapes' \/ ready' # ready
         /\ \A r \in Quantities, k \in Meshes : entry'[r][k] \in [Frames(k) -> Pointers]
         /\ \A r \in Quantities, k \in Meshes : \A g \in Frames(k) :
               entry'[r][k][g] = IF r = q /\ k = m /\ g = f THEN p ELSE entry[r][k][g]
  <1> DEFINE eq == [entry[q] EXCEPT ![m][f] = p]
             em == [entry[q][m] EXCEPT ![f] = p]
  <1>1. entry = [r \in Quantities |-> [k \in Meshes |-> entry[r][k]]]
    BY DEF Base, Shapes
  <1>2. entry' = [entry EXCEPT ![q] = eq]
    BY DEF SetsEntry
  <1>3. entry[q] = [k \in Meshes |-> entry[q][k]]
    BY <1>1
  <1>4. eq = [entry[q] EXCEPT ![m] = em]
    OBVIOUS
  <1>5. em \in [Frames(m) -> Pointers] /\ em[f] = p /\ \A g \in Frames(m) : g # f => em[g] = entry[q][m][g]
    BY Shape
  <1>6. eq[m] = em /\ \A k \in Meshes : k # m => eq[k] = entry[q][k]
    BY <1>3, <1>4
  <1>6a. eq = [k \in Meshes |-> eq[k]]
    BY <1>3, <1>4
  <1> HIDE DEF eq, em
  <1>7. entry'[q] = eq /\ \A r \in Quantities : r # q => entry'[r] = entry[r]
    BY <1>1, <1>2
  <1>8. entry' = [r \in Quantities |-> [k \in Meshes |-> entry'[r][k]]]
    <2>1. \A r \in Quantities : entry'[r] = [k \in Meshes |-> entry'[r][k]]
      <3>1. ASSUME NEW r \in Quantities, r # q PROVE entry'[r] = [k \in Meshes |-> entry'[r][k]]
        <4>1. entry[r] = [k \in Meshes |-> entry[r][k]]
          BY <1>1
        <4> QED
          BY <1>7, <3>1, <4>1, Zenon
      <3> QED
        BY <1>6a, <1>7, <3>1, Zenon
    <2>2. entry' = [r \in Quantities |-> entry'[r]]
      BY <1>1, <1>2
    <2>3. [r \in Quantities |-> entry'[r]] = [r \in Quantities |-> [k \in Meshes |-> entry'[r][k]]]
      BY <2>1, Zenon
    <2> QED
      BY <2>2, <2>3
  <1>9. entry'[q][m][f] = p
    BY <1>5, <1>6, <1>7, Zenon
  <1> QED
    BY <1>5, <1>6, <1>7, <1>8, <1>9, Shape DEF Shapes, Base

\* The types of the variables after a step, from the ones it changes.
Types ==
    /\ target \in Meshes \cup {ReadAll, Unload, ReadNone}
    /\ zip \in BOOLEAN /\ patient \in BOOLEAN
    /\ form \in [Meshes -> BOOLEAN]
    /\ full \in [Quantities -> [Meshes -> Nat]]
    /\ \A q \in Quantities, m \in Meshes : entry[q][m] \in [Frames(m) -> Pointers]
    /\ \A m \in Meshes : ready[m] \subseteq Frames(m)
    /\ drawn \in [Quantities -> [Meshes -> Pointers]]
    /\ loaded \subseteq Meshes
    /\ loads \in 0 .. MaxLoads
    /\ pc \in [Loaders -> Places] /\ at \in [Loaders -> At]
    /\ buffer \in [Loaders -> {"none", "own", "full"}]
    /\ ui \in Doings
    /\ due \in [Meshes -> Nat]

LEMMA TypesAreTypeOK == Types <=> TypeOK
  BY Zenon DEF Types, TypeOK, At, Doings, Places, Reading

\* One frame of one mesh is freed.
LEMMA Freed ==
  ASSUME Base, UnloadFrees
  PROVE  /\ ui.mesh \in Meshes /\ ui.frame \in Frames(ui.mesh)
         /\ entry' = [q \in Quantities |-> [m \in Meshes |-> entry'[q][m]]]
         /\ \A q \in Quantities, m \in Meshes : entry'[q][m] \in [Frames(m) -> Pointers]
         /\ \A q \in Quantities : entry'[q][ui.mesh][ui.frame] = Null
         /\ \A q \in Quantities, m \in Meshes : \A f \in Frames(m) :
               entry'[q][m][f] = entry[q][m][f] \/ (m = ui.mesh /\ f = ui.frame)
  <1> DEFINE m == ui.mesh
             f == ui.frame
             e(q) == [entry[q][m] EXCEPT ![f] = Null]
  <1>1. m \in Meshes /\ f \in Frames(m)
    BY Shape DEF UnloadFrees, Base, UIOK, Frames, Doings
  <1>2. \A q \in Quantities : entry[q] = [k \in Meshes |-> entry[q][k]]
    BY DEF Base, Shapes
  <1>3. \A q \in Quantities : entry'[q] = [entry[q] EXCEPT ![m] = e(q)]
    BY DEF UnloadFrees
  <1>4. \A q \in Quantities : /\ e(q) \in [Frames(m) -> Pointers]
                              /\ e(q)[f] = Null
                              /\ \A g \in Frames(m) : g # f => e(q)[g] = entry[q][m][g]
    BY <1>1, Shape DEF Null, Pointers
  <1> HIDE DEF e
  <1>5. \A q \in Quantities : /\ entry'[q] = [k \in Meshes |-> entry'[q][k]]
                              /\ entry'[q][m] = e(q)
                              /\ \A k \in Meshes : k # m => entry'[q][k] = entry[q][k]
    BY <1>1, <1>2, <1>3
  <1>6. entry' = [q \in Quantities |-> entry'[q]]
    BY DEF UnloadFrees
  <1>7. [q \in Quantities |-> entry'[q]] = [q \in Quantities |-> [k \in Meshes |-> entry'[q][k]]]
    BY <1>5, Zenon
  <1>8. \A q \in Quantities, k \in Meshes : \A g \in Frames(k) :
           entry'[q][k][g] = entry[q][k][g] \/ (k = m /\ g = f)
    <2> SUFFICES ASSUME NEW q \in Quantities, NEW k \in Meshes, NEW g \in Frames(k),
                        ~(k = m /\ g = f)
                 PROVE  entry'[q][k][g] = entry[q][k][g]
      OBVIOUS
    <2>1. CASE k # m
      BY <1>5, <2>1
    <2>2. CASE k = m
      <3>1. entry'[q][m] = e(q) /\ e(q)[g] = entry[q][m][g]
        BY <1>4, <1>5, <2>2
      <3> QED
        BY <2>2, <3>1
    <2> QED
      BY <2>1, <2>2
  <1>9. \A q \in Quantities, k \in Meshes : entry'[q][k] \in [Frames(k) -> Pointers]
    <2> SUFFICES ASSUME NEW q \in Quantities, NEW k \in Meshes
                 PROVE  entry'[q][k] \in [Frames(k) -> Pointers]
      OBVIOUS
    <2>1. CASE k # m
      BY <1>5, <2>1, Shape
    <2>2. CASE k = m
      <3>1. entry'[q][m] = e(q) /\ e(q) \in [Frames(m) -> Pointers]
        BY <1>4, <1>5, <2>2
      <3> QED
        BY <2>2, <3>1
    <2> QED
      BY <2>1, <2>2
  <1> QED
    BY <1>1, <1>4, <1>5, <1>6, <1>7, <1>8, <1>9

\* What Update_Framenumber makes a mesh show.
LEMMA Redrawn ==
  ASSUME Base, NEW t, UpdateFrameNumber(t), NEW q \in Quantities, NEW m \in Meshes
  PROVE  /\ drawn'[q][m] \in Pointers
         /\ \/ drawn'[q][m] \in {drawn[q][m], View}
            \/ \E f \in ready[m] : drawn'[q][m] = entry[q][m][f]
  <1>1. drawn'[q][m] = IF m \notin loaded \/ Shown(m, t) = {} THEN drawn[q][m]
                       ELSE IF form[m] THEN View
                       ELSE entry[q][m][CHOOSE f \in Shown(m, t) : TRUE]
    BY DEF UpdateFrameNumber
  <1>2. Shown(m, t) # {} => (CHOOSE f \in Shown(m, t) : TRUE) \in ready[m]
    BY DEF Shown
  <1>3. View \in Pointers
    BY DEF View, Pointers
  <1>4. drawn[q][m] \in Pointers /\ \A f \in ready[m] : entry[q][m][f] \in Pointers
    BY Shape
  <1> QED
    BY <1>1, <1>2, <1>3, <1>4

\* What the interface does keeps the base.
LEMMA MenusKeepBase ==
  ASSUME Base,
         \/ \E t \in Meshes \cup {ReadAll}, z \in BOOLEAN : LoadVolSmoke3DMenu(t, z)
         \/ UnloadMenus
         \/ Working
         \/ \E t : UpdateFrameNumber(t)
  PROVE  Base'
  <1>0. Types
    BY TypesAreTypeOK DEF Base
  <1>q. Types' => TypeOK'
    BY Zenon DEF Types, TypeOK, At, Doings, Places, Reading
  <1> SUFFICES Types' /\ Shapes' /\ LoaderOK' /\ UIOK'
    BY <1>q DEF Base
  <1> USE <1>0 DEF Base
  <1>1. ASSUME NEW t \in Meshes \cup {ReadAll}, NEW z \in BOOLEAN, LoadVolSmoke3DMenu(t, z)
        PROVE  Types' /\ Shapes' /\ LoaderOK' /\ UIOK'
    <2>1. ui' \in Doings /\ ui'.doing = "load"
      BY <1>1 DEF LoadVolSmoke3DMenu, Idle, Doings
    <2>2. Types'
      BY <1>1, <2>1 DEF LoadVolSmoke3DMenu, Types, frameVars, loaderVars
    <2>3. Shapes' /\ LoaderOK'
      BY <1>1 DEF LoadVolSmoke3DMenu, frameVars, loaderVars, Shapes, LoaderOK
    <2>4. UIOK'
      BY <1>1, <2>1 DEF LoadVolSmoke3DMenu, loaderVars, UIOK, Types
    <2> QED
      BY <2>2, <2>3, <2>4
  <1>2. ASSUME StartLoader PROVE Types' /\ Shapes' /\ LoaderOK' /\ UIOK'
    <2>1. loads + 1 \in Loaders /\ loads + 1 \in 0 .. MaxLoads /\ 1 \in 0 .. LastMesh
      BY <1>2 DEF StartLoader, UIOK, Types, Loaders
    <2>2. at' \in [Loaders -> At]
      BY <1>2, <2>1 DEF StartLoader, Types, At
    <2>3. pc' \in [Loaders -> Places]
      BY <1>2, <2>1 DEF StartLoader, Types, Places
    <2>4. due' \in [Meshes -> Nat]
      <3>1. \A m \in Meshes : Wanted(m) => Asked(m) \in Nat
        BY DEF Asked, LeadFrames, Wanted, Meshes
      <3> QED
        BY <1>2, <3>1 DEF StartLoader, Types
    <2>5. ui' \in Doings /\ ui'.doing = "idle"
      BY <1>2 DEF StartLoader, Idle, Doings
    <2>6. Types'
      BY <1>2, <2>1, <2>2, <2>3, <2>4, <2>5 DEF StartLoader, Types, frameVars
    <2>7. Shapes' /\ UIOK'
      BY <1>2, <2>5 DEF StartLoader, Shapes, UIOK, frameVars
    <2>8. LoaderOK'
      BY <1>2, <2>1 DEF StartLoader, Types, At, LoaderOK, Meshes, Reading, frameVars
    <2> QED
      BY <2>6, <2>7, <2>8
  <1>3. ASSUME NEW first \in Meshes, NEW last \in Meshes, UnLoadVolSmoke3DMenu(first, last)
        PROVE  Types' /\ Shapes' /\ LoaderOK' /\ UIOK'
    <2>1. ui' \in Doings /\ ui'.doing = "test"
      BY <1>3 DEF UnLoadVolSmoke3DMenu, Doings, Meshes
    <2>2. Types'
      BY <1>3, <2>1 DEF UnLoadVolSmoke3DMenu, Types, frameVars, loaderVars
    <2>3. Shapes' /\ LoaderOK' /\ UIOK'
      BY <1>3, <2>1 DEF UnLoadVolSmoke3DMenu, frameVars, loaderVars, Shapes, LoaderOK, UIOK
    <2> QED
      BY <2>2, <2>3
  <1>4. ASSUME UnloadTests PROVE Types' /\ Shapes' /\ LoaderOK' /\ UIOK'
    <2>1. ui \in Doings
      BY DEF Types
    <2>2. ui' \in Doings
      BY <1>4, <2>1 DEF UnloadTests, UIGoes, Doings, Idle
    <2>3. target' \in {target, ReadNone}
      BY <1>4 DEF UnloadTests
    <2>4. Types'
      BY <1>4, <2>2, <2>3 DEF UnloadTests, Types, frameVars, loaderVars
    <2>5. UIOK'
      BY <1>4, <2>1 DEF UnloadTests, UIGoes, UIOK, Idle, Types, Doings, loaderVars
    <2>6. Shapes' /\ LoaderOK'
      BY <1>4 DEF UnloadTests, frameVars, loaderVars, Shapes, LoaderOK
    <2> QED
      BY <2>4, <2>5, <2>6
  <1>5. ASSUME UnloadFrees PROVE Types' /\ Shapes' /\ LoaderOK' /\ UIOK'
    <2>1. ui' \in Doings /\ ui'.doing = "clear" /\ ui'.mesh = ui.mesh /\ ui'.frame = ui.frame
      BY <1>5 DEF UnloadFrees, UIGoes, Types, Doings
    <2>2. Types'
      BY <1>5, <2>1, Freed DEF UnloadFrees, Types, loaderVars
    <2>3. Shapes' /\ LoaderOK'
      BY <1>5, Freed DEF UnloadFrees, Shapes, LoaderOK, loaderVars
    <2>4. UIOK'
      BY <1>5, <2>1, Freed DEF UnloadFrees, UIOK, Frames, Types, Doings
    <2> QED
      BY <2>2, <2>3, <2>4
  <1>6. ASSUME UnloadClears PROVE Types' /\ Shapes' /\ LoaderOK' /\ UIOK'
    <2>1. ui \in Doings
      BY DEF Types
    <2>2. ui' \in Doings /\ ui'.doing = "free" /\ ui'.mesh = ui.mesh /\ ui'.frame = ui.frame + 1
      BY <1>6, <2>1 DEF UnloadClears, UIGoes, Doings
    <2>3. Shapes' /\ \A m \in Meshes : ready'[m] \subseteq ready[m]
      BY <1>6 DEF UnloadClears, Shapes
    <2>4. Types'
      BY <1>6, <2>2, <2>3 DEF UnloadClears, Types, loaderVars
    <2>5. LoaderOK' /\ UIOK'
      BY <1>6, <2>1, <2>2 DEF UnloadClears, loaderVars, LoaderOK, UIOK, Doings
    <2> QED
      BY <2>3, <2>4, <2>5
  <1>7. ASSUME UnloadEnds PROVE Types' /\ Shapes' /\ LoaderOK' /\ UIOK'
    <2>1. ui \in Doings
      BY DEF Types
    <2>2. ui' \in Doings /\ ui'.doing = "test"
      BY <1>7, <2>1 DEF UnloadEnds, UIGoes, Doings
    <2>3. due' \in [Meshes -> Nat]
      BY <1>7 DEF UnloadEnds, Types
    <2>4. Types'
      BY <1>7, <2>2, <2>3 DEF UnloadEnds, Types, frameVars, loaderVars
    <2>5. Shapes' /\ LoaderOK' /\ UIOK'
      BY <1>7, <2>2 DEF UnloadEnds, frameVars, loaderVars, Shapes, LoaderOK, UIOK
    <2> QED
      BY <2>4, <2>5
  <1>8. ASSUME NEW t, UpdateFrameNumber(t) PROVE Types' /\ Shapes' /\ LoaderOK' /\ UIOK'
    <2>1. drawn' = [q \in Quantities |-> [m \in Meshes |-> drawn'[q][m]]]
      BY <1>8 DEF UpdateFrameNumber
    <2>2. drawn' \in [Quantities -> [Meshes -> Pointers]]
      BY <1>8, <2>1, Redrawn
    <2>3. Types'
      BY <1>8, <2>2 DEF UpdateFrameNumber, Types, loaderVars, userVars
    <2>4. Shapes' /\ LoaderOK' /\ UIOK'
      BY <1>8 DEF UpdateFrameNumber, loaderVars, userVars, Shapes, LoaderOK, UIOK
    <2> QED
      BY <2>3, <2>4
  <1>9. 1 \in Meshes /\ LastMesh \in Meshes /\ loaded \subseteq Meshes
    BY DEF Meshes, Types
  <1> QED
    BY <1>1, <1>2, <1>3, <1>4, <1>5, <1>6, <1>7, <1>8, <1>9 DEF UnloadMenus, Working

-----------------------------------------------------------------------------
(* Where a loader goes.                                                    *)

\* One loader goes to a place it may be at, and the others stay.
LEMMA Moved ==
  ASSUME Base, NEW l \in Loaders, NEW p \in Places, NEW a \in At, Goes(l, p, a),
         p \in {"scan"} \cup Reading => a.mesh \in Meshes,
         p \in Reading => a.frame >= 1,
         p \in {"smoke", "open", "fire", "mark"} => a.frame <= NTimes[a.mesh]
  PROVE  /\ pc' \in [Loaders -> Places] /\ at' \in [Loaders -> At] /\ LoaderOK'
         /\ pc'[l] = p /\ at'[l] = a
         /\ \A k \in Loaders : k # l => pc'[k] = pc[k] /\ at'[k] = at[k]
  <1>1. pc \in [Loaders -> Places] /\ at \in [Loaders -> At]
    BY Shape
  <1>2. /\ pc' \in [Loaders -> Places] /\ at' \in [Loaders -> At]
        /\ pc'[l] = p /\ at'[l] = a
        /\ \A k \in Loaders : k # l => pc'[k] = pc[k] /\ at'[k] = at[k]
    BY <1>1 DEF Goes
  <1>3. LoaderOK'
    BY <1>2 DEF Base, LoaderOK
  <1> QED
    BY <1>2, <1>3

\* A loader has done with a mesh in the first loop.
LEMMA FirstPass ==
  ASSUME Base, NEW l \in Loaders, pc[l] \in Reading, AfterPass1(l)
  PROVE  /\ pc' \in [Loaders -> Places] /\ at' \in [Loaders -> At] /\ LoaderOK'
         /\ at'[l].frame = at[l].frame /\ at'[l].nframes = at[l].nframes
         /\ \/ pc'[l] = "pass1" /\ at[l].mesh < LastMesh /\ at'[l].mesh = at[l].mesh + 1
            \/ pc'[l] = "pass2" /\ at[l].mesh = LastMesh /\ at'[l].mesh = 1
         /\ \A k \in Loaders : k # l => pc'[k] = pc[k] /\ at'[k] = at[k]
  <1>1. /\ at[l] \in At /\ at[l].mesh \in Meshes /\ at[l].frame >= 1
        /\ at[l].frame \in Nat /\ at[l].nframes \in Nat
    BY Shape DEF Base, LoaderOK, At
  <1>2. CASE at[l].mesh < LastMesh
    <2> DEFINE w == [at[l] EXCEPT !.mesh = @ + 1]
    <2>1. /\ w \in At /\ w.mesh = at[l].mesh + 1 /\ w.mesh \in Meshes
          /\ w.frame = at[l].frame /\ w.nframes = at[l].nframes
      BY <1>1, <1>2 DEF At, Meshes
    <2>2. Goes(l, "pass1", w)
      BY <1>2 DEF AfterPass1
    <2> HIDE DEF w
    <2> QED
      BY <1>1, <1>2, <2>1, <2>2, Moved DEF Places, Reading
  <1>3. CASE ~(at[l].mesh < LastMesh)
    <2> DEFINE w == [at[l] EXCEPT !.mesh = 1]
    <2>1. /\ w \in At /\ w.mesh = 1 /\ w.mesh \in Meshes /\ at[l].mesh = LastMesh
          /\ w.frame = at[l].frame /\ w.nframes = at[l].nframes
      BY <1>1, <1>3 DEF At, Meshes
    <2>2. Goes(l, "pass2", w)
      BY <1>3 DEF AfterPass1
    <2> HIDE DEF w
    <2> QED
      BY <1>1, <2>1, <2>2, Moved DEF Places, Reading
  <1> QED
    BY <1>2, <1>3

\* A loader has done with a mesh in the second loop.
LEMMA SecondPass ==
  ASSUME Base, NEW l \in Loaders, pc[l] \in Reading, AfterPass2(l)
  PROVE  /\ pc' \in [Loaders -> Places] /\ at' \in [Loaders -> At] /\ LoaderOK'
         /\ \/ /\ pc'[l] = "pass2" /\ at[l].mesh < LastMesh /\ at'[l].mesh = at[l].mesh + 1
               /\ at'[l].frame = at[l].frame /\ at'[l].nframes = at[l].nframes
            \/ /\ pc'[l] = "pass1" /\ at[l].mesh = LastMesh /\ at'[l].mesh = 1
               /\ at[l].frame < at[l].nframes
               /\ at'[l].frame = at[l].frame + 1 /\ at'[l].nframes = at[l].nframes
            \/ /\ pc'[l] = "end" /\ at[l].mesh = LastMesh /\ at[l].frame >= at[l].nframes
         /\ \A k \in Loaders : k # l => pc'[k] = pc[k] /\ at'[k] = at[k]
  <1>1. /\ at[l] \in At /\ at[l].mesh \in Meshes /\ at[l].frame >= 1
        /\ at[l].frame \in Nat /\ at[l].nframes \in Nat
    BY Shape DEF Base, LoaderOK, At
  <1>2. CASE at[l].mesh < LastMesh
    <2> DEFINE w == [at[l] EXCEPT !.mesh = @ + 1]
    <2>1. /\ w \in At /\ w.mesh = at[l].mesh + 1 /\ w.mesh \in Meshes
          /\ w.frame = at[l].frame /\ w.nframes = at[l].nframes
      BY <1>1, <1>2 DEF At, Meshes
    <2>2. Goes(l, "pass2", w)
      BY <1>2 DEF AfterPass2
    <2> HIDE DEF w
    <2> QED
      BY <1>1, <1>2, <2>1, <2>2, Moved DEF Places, Reading
  <1>3. CASE ~(at[l].mesh < LastMesh) /\ at[l].frame < at[l].nframes
    <2> DEFINE w == [frame |-> at[l].frame + 1, mesh |-> 1, nframes |-> at[l].nframes]
    <2>1. /\ w \in At /\ w.mesh = 1 /\ w.mesh \in Meshes /\ at[l].mesh = LastMesh
          /\ w.frame = at[l].frame + 1 /\ w.nframes = at[l].nframes
      BY <1>1, <1>3 DEF At, Meshes
    <2>2. Goes(l, "pass1", w)
      BY <1>3 DEF AfterPass2
    <2> HIDE DEF w
    <2> QED
      BY <1>1, <1>3, <2>1, <2>2, Moved DEF Places, Reading
  <1>4. CASE ~(at[l].mesh < LastMesh) /\ ~(at[l].frame < at[l].nframes)
    <2>1. Goes(l, "end", Outside)
      BY <1>4 DEF AfterPass2
    <2>2. Outside \in At /\ at[l].mesh = LastMesh
      BY <1>1, <1>4 DEF Outside, At, Meshes
    <2> QED
      BY <1>1, <1>4, <2>1, <2>2, Moved DEF Places, Reading
  <1> QED
    BY <1>2, <1>3, <1>4

\* A loader looks for the first wanted mesh.
LEMMA Scanned ==
  ASSUME Base, NEW l \in Loaders, Scans(l)
  PROVE  /\ pc' \in [Loaders -> Places] /\ at' \in [Loaders -> At] /\ LoaderOK'
         /\ \/ /\ Wanted(at[l].mesh) /\ pc'[l] = "pass1" /\ at'[l].mesh = 1
               /\ at'[l].frame = 1 /\ at'[l].nframes = NTimes[at[l].mesh]
            \/ /\ ~Wanted(at[l].mesh) /\ pc'[l] = "scan" /\ at[l].mesh < LastMesh
               /\ at'[l].mesh = at[l].mesh + 1
            \/ ~Wanted(at[l].mesh) /\ pc'[l] = "end" /\ at[l].mesh = LastMesh
         /\ \A k \in Loaders : k # l => pc'[k] = pc[k] /\ at'[k] = at[k]
  <1>1. at[l] \in At /\ at[l].mesh \in Meshes
    BY Shape DEF Scans, Base, LoaderOK
  <1>2. CASE Wanted(at[l].mesh)
    <2> DEFINE w == [frame |-> 1, mesh |-> 1, nframes |-> NTimes[at[l].mesh]]
    <2>1. /\ w \in At /\ w.mesh = 1 /\ w.mesh \in Meshes /\ w.frame = 1
          /\ w.nframes = NTimes[at[l].mesh]
      BY <1>1 DEF At, Meshes
    <2>2. Goes(l, "pass1", w)
      BY <1>2 DEF Scans
    <2> HIDE DEF w
    <2> QED
      BY <1>2, <2>1, <2>2, Moved DEF Places, Reading
  <1>3. CASE ~Wanted(at[l].mesh) /\ at[l].mesh < LastMesh
    <2> DEFINE w == [at[l] EXCEPT !.mesh = @ + 1]
    <2>0. at[l].mesh + 1 \in 0 .. LastMesh /\ at[l].mesh + 1 \in Meshes
      BY <1>1, <1>3 DEF Meshes
    <2>1. w \in At /\ w.mesh = at[l].mesh + 1 /\ w.mesh \in Meshes
      BY <1>1, <2>0 DEF At
    <2>2. Goes(l, "scan", w)
      BY <1>3 DEF Scans
    <2> HIDE DEF w
    <2> QED
      BY <1>3, <2>1, <2>2, Moved DEF Places, Reading
  <1>4. CASE ~Wanted(at[l].mesh) /\ ~(at[l].mesh < LastMesh)
    <2>1. Goes(l, "end", Outside) /\ Outside \in At /\ at[l].mesh = LastMesh
      BY <1>1, <1>4 DEF Scans, Outside, At, Meshes
    <2> QED
      BY <1>4, <2>1, Moved DEF Places, Reading
  <1> QED
    BY <1>2, <1>3, <1>4

\* A loader goes on to another place of the same frame and mesh.
LEMMA GoesOn ==
  ASSUME Base, NEW l \in Loaders, pc[l] \in {"pass1", "smoke", "open", "fire"},
         at[l].frame <= NTimes[at[l].mesh],
         NEW p \in {"smoke", "open", "fire", "mark"}, Goes(l, p, at[l])
  PROVE  /\ pc' \in [Loaders -> Places] /\ at' \in [Loaders -> At] /\ LoaderOK'
         /\ pc'[l] = p /\ at' = at
         /\ \A k \in Loaders : k # l => pc'[k] = pc[k]
  <1>1. at[l] \in At /\ at[l].mesh \in Meshes /\ at[l].frame >= 1
    BY Shape DEF Base, LoaderOK, Reading
  <1>2. p \in Places
    BY DEF Places, Reading
  <1>3. at' = at
    BY Shape DEF Goes
  <1> QED
    BY <1>1, <1>2, <1>3, Moved

-----------------------------------------------------------------------------
(* What a loader does to the data.                                         *)

\* The place of a loader that has a frame in hand.
LEMMA Here ==
  ASSUME Base, NEW l \in Loaders, pc[l] \in {"smoke", "open", "fire", "mark"}
  PROVE  /\ at[l].mesh \in Meshes /\ at[l].frame \in Frames(at[l].mesh)
         /\ at[l].frame <= NTimes[at[l].mesh]
         /\ at[l] \in At
  <1>1. at[l] \in At /\ at[l].frame \in Nat
    BY Shape DEF At
  <1> QED
    BY <1>1 DEF Base, LoaderOK, Reading, Frames

\* A frame is stored, and drawn from now on.
LEMMA Stored ==
  ASSUME Base, NEW l \in Loaders, NEW q \in Quantities, Stores(l, q),
         NEW m, m = at[l].mesh, NEW f, f = at[l].frame, NEW b, b = Block(l, q)
  PROVE  /\ m \in Meshes /\ f \in Frames(m) /\ b \in Pointers
         /\ Shapes'
         /\ entry'[q][m][f] = b /\ drawn'[q][m] = b
         /\ \A r \in Quantities, k \in Meshes : entry'[r][k] \in [Frames(k) -> Pointers]
         /\ \A r \in Quantities, k \in Meshes : \A g \in Frames(k) :
               entry'[r][k][g] = entry[r][k][g] \/ (r = q /\ k = m /\ g = f)
         /\ drawn' \in [Quantities -> [Meshes -> Pointers]]
         /\ \A r \in Quantities, k \in Meshes :
               drawn'[r][k] = drawn[r][k] \/ (r = q /\ k = m)
  <1>1. m \in Meshes /\ f \in Frames(m) /\ f \in Nat
    BY Here DEF Stores, Quantities, Frames, At
  <1>2. full[q][m] \in Nat
    BY <1>1, Shape
  <1>3. b \in Pointers
    BY <1>1, <1>2 DEF Block, Pointers
  <1>4. entry' = [entry EXCEPT ![q][m][f] = b] /\ drawn' = [drawn EXCEPT ![q][m] = b]
    BY DEF Stores
  <1>5. ready' = ready
    BY DEF Stores
  <1>6. /\ Shapes' /\ entry'[q][m][f] = b
        /\ \A r \in Quantities, k \in Meshes : entry'[r][k] \in [Frames(k) -> Pointers]
        /\ \A r \in Quantities, k \in Meshes : \A g \in Frames(k) :
               entry'[r][k][g] = entry[r][k][g] \/ (r = q /\ k = m /\ g = f)
    <2>1. m \in Meshes /\ f \in Frames(m) /\ SetsEntry(q, m, f, b)
      BY <1>1, <1>4 DEF SetsEntry
    <2>2. Shapes' \/ ready' # ready
      BY <2>1, <1>3, OneEntry, Zenon
    <2>4. \A r \in Quantities, k \in Meshes : entry'[r][k] \in [Frames(k) -> Pointers]
      BY <2>1, <1>3, OneEntry, Zenon
    <2>5. \A r \in Quantities, k \in Meshes : \A g \in Frames(k) :
               entry'[r][k][g] = IF r = q /\ k = m /\ g = f THEN b ELSE entry[r][k][g]
      BY <2>1, <1>3, OneEntry
    <2>3. entry'[q][m][f] = b
      BY <1>1, <2>5
    <2>6. \A r \in Quantities, k \in Meshes : \A g \in Frames(k) :
               entry'[r][k][g] = entry[r][k][g] \/ (r = q /\ k = m /\ g = f)
      BY <2>5
    <2> QED
      BY <1>5, <2>2, <2>3, <2>4, <2>6, Zenon
  <1>7. drawn \in [Quantities -> [Meshes -> Pointers]]
    BY Shape
  <1>8. /\ drawn'[q][m] = b /\ drawn' \in [Quantities -> [Meshes -> Pointers]]
        /\ \A r \in Quantities, k \in Meshes :
               drawn'[r][k] = drawn[r][k] \/ (r = q /\ k = m)
    BY <1>1, <1>3, <1>4, <1>7
  <1> QED
    BY <1>1, <1>3, <1>6, <1>8

\* A file is read: only the scratch array of the mesh may change.
LEMMA ScratchKept ==
  ASSUME Base, NEW array, NEW q \in Quantities, NEW m \in Meshes, NEW f \in Nat,
         ReadInto(array, q, m, f)
  PROVE  /\ full' \in [Quantities -> [Meshes -> Nat]]
         /\ \A r \in Quantities, k \in Meshes : full'[r][k] = full[r][k] \/ (r = q /\ k = m)
  BY Shape DEF ReadInto

\* The scratch array holds the frame that was read into it.
LEMMA ScratchFilled ==
  ASSUME Base, NEW q \in Quantities, NEW m \in Meshes, NEW f \in Nat,
         NEW array, array = "full", ReadInto(array, q, m, f)
  PROVE  full'[q][m] = f
  BY Shape DEF ReadInto

\* The second loop may set what is drawn.
LEMMA Marked ==
  ASSUME Base, NEW l \in Loaders, MarksLoaded(l), NEW m, m = at[l].mesh
  PROVE  /\ m \in Meshes
         /\ drawn' \in [Quantities -> [Meshes -> Pointers]]
         /\ \A q \in Quantities, k \in Meshes :
               drawn'[q][k] = IF k = m /\ Wanted(m) /\ at[l].frame = 1
                              THEN (IF form[m] THEN View ELSE entry[q][m][1])
                              ELSE drawn[q][k]
  <1>1. m \in Meshes
    BY DEF Base, LoaderOK, Reading, MarksLoaded
  <1>2. 1 \in Frames(m)
    BY <1>1 DEF Frames
  <1>3. \A q \in Quantities : entry[q][m][1] \in Pointers
    BY <1>1, <1>2, Shape
  <1>4. View \in Pointers
    BY DEF View, Pointers
  <1>5. drawn \in [Quantities -> [Meshes -> Pointers]]
    BY Shape
  <1>6. CASE Wanted(m) /\ at[l].frame = 1
    <2>1. drawn' = [q \in Quantities |->
                       [drawn[q] EXCEPT ![m] = IF form[m] THEN View ELSE entry[q][m][1]]]
      BY <1>6 DEF MarksLoaded
    <2>2. \A q \in Quantities : (IF form[m] THEN View ELSE entry[q][m][1]) \in Pointers
      BY <1>3, <1>4
    <2>3. \A q \in Quantities : drawn[q] \in [Meshes -> Pointers]
      BY <1>5
    <2> HIDE DEF Pointers
    <2>4. \A q \in Quantities : /\ drawn'[q] \in [Meshes -> Pointers]
                                /\ drawn'[q][m] = IF form[m] THEN View ELSE entry[q][m][1]
                                /\ \A k \in Meshes : k # m => drawn'[q][k] = drawn[q][k]
      BY <1>1, <2>1, <2>2, <2>3
    <2>5. drawn' \in [Quantities -> [Meshes -> Pointers]]
      BY <2>1, <2>4
    <2> QED
      BY <1>1, <1>6, <2>4, <2>5
  <1>7. CASE ~(Wanted(m) /\ at[l].frame = 1)
    BY <1>1, <1>5, <1>7 DEF MarksLoaded
  <1> QED
    BY <1>6, <1>7

\* dataready of one frame is set.
LEMMA Readied ==
  ASSUME Base, NEW l \in Loaders, MarksReady(l), NEW m, m = at[l].mesh, NEW f, f = at[l].frame
  PROVE  /\ m \in Meshes /\ f \in Frames(m)
         /\ ready' = [k \in Meshes |-> ready'[k]]
         /\ ready'[m] = ready[m] \cup {f}
         /\ \A k \in Meshes : k # m => ready'[k] = ready[k]
  <1>1. m \in Meshes /\ f \in Frames(m)
    BY Here DEF MarksReady
  <1>2. ready = [k \in Meshes |-> ready[k]]
    BY DEF Base, Shapes
  <1> QED
    BY <1>1, <1>2 DEF MarksReady

-----------------------------------------------------------------------------
(* The base is an invariant.                                               *)

LEMMA LoaderKeepsBase ==
  ASSUME Base, NEW l \in Loaders, Loader(l)
  PROVE  Base'
  <1>0. Types
    BY TypesAreTypeOK DEF Base
  <1>q. Types' => TypeOK'
    BY Zenon DEF Types, TypeOK, At, Doings, Places, Reading
  <1> SUFFICES Types' /\ Shapes' /\ LoaderOK' /\ UIOK'
    BY <1>q DEF Base
  <1>s. Shapes /\ UIOK
    BY DEF Base
  <1>1. ASSUME Scans(l) PROVE Types' /\ Shapes' /\ LoaderOK' /\ UIOK'
    <2>1. pc' \in [Loaders -> Places] /\ at' \in [Loaders -> At] /\ LoaderOK'
      BY <1>1, Scanned
    <2> QED
      BY <1>0, <1>s, <1>1, <2>1 DEF Scans, Types, frameVars, userVars, Shapes, UIOK
  <1>2. ASSUME ReadsSmoke(l) PROVE Types' /\ Shapes' /\ LoaderOK' /\ UIOK'
    <2>1. /\ at[l].mesh \in Meshes /\ at[l].frame \in Nat /\ at[l].frame <= NTimes[at[l].mesh]
          /\ pc[l] = "pass1" /\ pc[l] \in Reading
      BY <1>2, Shape DEF ReadsSmoke, Base, LoaderOK, Reading, At
    <2>2. form' \in [Meshes -> BOOLEAN]
      BY <1>0, <1>2 DEF ReadsSmoke, Types
    <2>3. CASE AfterPass1(l) /\ full' = full /\ buffer' = buffer
      BY <1>0, <1>s, <1>2, <2>1, <2>2, <2>3, FirstPass DEF ReadsSmoke, Types, userVars, Shapes, UIOK
    <2>4. ASSUME NEW array \in {"full", "own"}, ReadInto(array, "smoke", at[l].mesh, at[l].frame),
                 buffer' = [buffer EXCEPT ![l] = array], Goes(l, "smoke", at[l])
          PROVE  Types' /\ Shapes' /\ LoaderOK' /\ UIOK'
      <3>1. full' \in [Quantities -> [Meshes -> Nat]]
        BY <2>1, <2>4, ScratchKept DEF Quantities
      <3>2. buffer' \in [Loaders -> {"none", "own", "full"}]
        BY <1>0, <2>4 DEF Types
      <3>3. pc' \in [Loaders -> Places] /\ at' \in [Loaders -> At] /\ LoaderOK'
        BY <2>1, <2>4, GoesOn
      <3> QED
        BY <1>0, <1>s, <1>2, <2>2, <3>1, <3>2, <3>3 DEF ReadsSmoke, Types, userVars, Shapes, UIOK
    <2> QED
      BY <1>2, <2>3, <2>4 DEF ReadsSmoke
  <1>3. ASSUME PassesBy(l) PROVE Types' /\ Shapes' /\ LoaderOK' /\ UIOK'
    BY <1>0, <1>s, <1>3, FirstPass DEF PassesBy, Types, frameVars, userVars, Shapes, UIOK, Reading
  <1>4. ASSUME ReadsFire(l) PROVE Types' /\ Shapes' /\ LoaderOK' /\ UIOK'
    <2>1. /\ pc[l] = "open" /\ at[l].mesh \in Meshes /\ at[l].frame \in Nat
          /\ at[l].frame <= NTimes[at[l].mesh]
      BY <1>4, Here, Shape DEF ReadsFire, At
    <2>2. full' \in [Quantities -> [Meshes -> Nat]]
      BY <1>0, <1>4, <2>1, ScratchKept DEF ReadsFire, Quantities, Types
    <2>3. PICK p \in {"fire", "mark"} : Goes(l, p, at[l])
      BY <1>4 DEF ReadsFire
    <2>4. pc' \in [Loaders -> Places] /\ at' \in [Loaders -> At] /\ LoaderOK'
      BY <2>1, <2>3, GoesOn
    <2> QED
      BY <1>0, <1>s, <1>4, <2>2, <2>4 DEF ReadsFire, Types, userVars, Shapes, UIOK
  <1>5. ASSUME NEW q \in Quantities, Stores(l, q) PROVE Types' /\ Shapes' /\ LoaderOK' /\ UIOK'
    <2>1. Goes(l, IF q = "smoke" THEN "open" ELSE "mark", at[l]) /\ pc[l] \in {"smoke", "fire"}
      BY <1>5 DEF Stores, Quantities
    <2>2. at[l].frame <= NTimes[at[l].mesh]
      BY <2>1, Here
    <2>3. pc' \in [Loaders -> Places] /\ at' \in [Loaders -> At] /\ LoaderOK'
      BY <2>1, <2>2, GoesOn
    <2>4. /\ Shapes' /\ drawn' \in [Quantities -> [Meshes -> Pointers]]
          /\ \A r \in Quantities, k \in Meshes : entry'[r][k] \in [Frames(k) -> Pointers]
      BY <1>5, Stored
    <2> QED
      BY <1>0, <1>s, <1>5, <2>3, <2>4 DEF Stores, Types, userVars, UIOK
  <1>6. ASSUME MarksReady(l) PROVE Types' /\ Shapes' /\ LoaderOK' /\ UIOK'
    <2>1. pc' \in [Loaders -> Places] /\ at' \in [Loaders -> At] /\ LoaderOK'
      BY <1>6, FirstPass DEF MarksReady, Reading
    <2>2. PICK m, f : m = at[l].mesh /\ f = at[l].frame
      OBVIOUS
    <2>3. /\ m \in Meshes /\ f \in Frames(m)
          /\ ready' = [k \in Meshes |-> ready'[k]]
          /\ ready'[m] = ready[m] \cup {f}
          /\ \A k \in Meshes : k # m => ready'[k] = ready[k]
      BY <1>6, <2>2, Readied
    <2>4. Shapes'
      <3>1. entry' = entry
        BY <1>6 DEF MarksReady
      <3> QED
        BY <1>s, <2>3, <3>1 DEF Shapes
    <2>5. \A k \in Meshes : ready'[k] \subseteq Frames(k)
      BY <2>3, Shape
    <2>6. buffer' \in [Loaders -> {"none", "own", "full"}]
      BY <1>0, <1>6 DEF MarksReady, Types
    <2> QED
      BY <1>0, <1>s, <1>6, <2>1, <2>4, <2>5, <2>6 DEF MarksReady, Types, userVars, UIOK
  <1>7. ASSUME MarksLoaded(l) PROVE Types' /\ Shapes' /\ LoaderOK' /\ UIOK'
    <2>1. pc' \in [Loaders -> Places] /\ at' \in [Loaders -> At] /\ LoaderOK'
      BY <1>7, SecondPass DEF MarksLoaded, Reading
    <2>2. drawn' \in [Quantities -> [Meshes -> Pointers]] /\ at[l].mesh \in Meshes
      BY <1>7, Marked
    <2>3. loaded' \subseteq Meshes
      BY <1>0, <1>7, <2>2 DEF MarksLoaded, Types
    <2> QED
      BY <1>0, <1>s, <1>7, <2>1, <2>2, <2>3 DEF MarksLoaded, Types, userVars, Shapes, UIOK
  <1>8. ASSUME LoaderEnds(l) PROVE Types' /\ Shapes' /\ LoaderOK' /\ UIOK'
    <2>1. Outside \in At
      BY DEF Outside, At
    <2>2. pc' \in [Loaders -> Places] /\ at' \in [Loaders -> At] /\ LoaderOK'
      BY <1>8, <2>1, Moved DEF LoaderEnds, Places, Reading
    <2> QED
      BY <1>0, <1>s, <1>8, <2>2 DEF LoaderEnds, Types, frameVars, userVars, Shapes, UIOK
  <1> QED
    BY <1>1, <1>2, <1>3, <1>4, <1>5, <1>6, <1>7, <1>8 DEF Loader

\* What the steps of the interface and of the loaders are.
LEMMA Steps ==
  ASSUME Next
  PROVE  \/ \E t \in Meshes \cup {ReadAll}, z \in BOOLEAN : LoadVolSmoke3DMenu(t, z)
         \/ UnloadMenus
         \/ StartLoader
         \/ UnloadTests \/ UnloadFrees \/ UnloadClears \/ UnloadEnds
         \/ \E t : UpdateFrameNumber(t)
         \/ \E l \in Loaders : Loader(l)
  BY DEF Next, Working

LEMMA BaseStep == Base /\ [Next]_vars => Base'
  <1> SUFFICES ASSUME Base, [Next]_vars PROVE Base'
    OBVIOUS
  <1>1. CASE Next
    BY <1>1, Steps, MenusKeepBase, LoaderKeepsBase DEF Working
  <1>2. CASE UNCHANGED vars
    BY <1>2 DEF vars, Base, TypeOK, Shapes, LoaderOK, UIOK, frameVars, loaderVars, userVars
  <1> QED
    BY <1>1, <1>2

\* The variables keep their types (the declarations of IOvolsmoke.c and structures.h).
THEOREM TypeAlwaysOK == Spec => []TypeOK
  <1>1. Init => Base
    BY BaseInit
  <1>2. Base /\ [Next]_vars => Base'
    BY BaseStep
  <1>3. Base => TypeOK
    BY DEF Base
  <1> QED
    BY <1>1, <1>2, <1>3, PTL DEF Spec

-----------------------------------------------------------------------------
(* Patient sessions: one loader at a time.                                 *)

Loading == target \in Meshes \cup {ReadAll}

\* Who has the turn in a patient session: read_vol_mesh is set from the menu
\* on until the loader frees it, or from the first to the last step of an unload.
Turns ==
    patient =>
        /\ \A l, k \in Running : l = k
        /\ ui.doing = "load" => Loading /\ Running = {}
        /\ ui.doing \in {"test", "free", "clear"} => target = Unload /\ Running = {}
        /\ Running # {} => Loading /\ ui = Idle
        /\ Running = {} /\ ui.doing = "idle" => target = ReadNone

\* The values of read_vol_mesh differ.
LEMMA Targets ==
    /\ ReadAll \notin Meshes /\ Unload \notin Meshes /\ ReadNone \notin Meshes
    /\ ReadAll # Unload /\ ReadAll # ReadNone /\ Unload # ReadNone
  BY DEF ReadAll, Unload, ReadNone, Meshes

\* A loader that takes a step runs; it goes on with the same target, or ends.
LEMMA LoaderSteps ==
  ASSUME Base, NEW l \in Loaders, Loader(l)
  PROVE  /\ l \in Running
         /\ ui' = ui /\ patient' = patient /\ due' = due /\ zip' = zip /\ loads' = loads
         /\ \A k \in Loaders : k # l => pc'[k] = pc[k]
         /\ \/ target' = target /\ pc'[l] \in {"scan", "end"} \cup Reading
            \/ LoaderEnds(l) /\ target' = ReadNone /\ pc'[l] = "over"
  <1> DEFINE Concl == /\ l \in Running
         /\ ui' = ui /\ patient' = patient /\ due' = due /\ zip' = zip /\ loads' = loads
         /\ \A k \in Loaders : k # l => pc'[k] = pc[k]
         /\ \/ target' = target /\ pc'[l] \in {"scan", "end"} \cup Reading
            \/ LoaderEnds(l) /\ target' = ReadNone /\ pc'[l] = "over"
  <1>0. pc \in [Loaders -> Places]
    BY Shape
  <1>1. CASE Scans(l)
    BY <1>1, Scanned DEF Scans, Running, userVars, frameVars, Reading
  <1>2. CASE ReadsSmoke(l)
    <2>1. CASE AfterPass1(l)
      BY <1>2, <2>1, FirstPass DEF ReadsSmoke, Running, userVars, Reading
    <2>2. CASE Goes(l, "smoke", at[l])
      BY <1>0, <1>2, <2>2 DEF Goes, ReadsSmoke, Running, userVars, Reading
    <2> QED
      BY <1>2, <2>1, <2>2 DEF ReadsSmoke
  <1>3. CASE PassesBy(l)
    BY <1>3, FirstPass DEF PassesBy, Running, userVars, Reading
  <1>4. CASE ReadsFire(l)
    BY <1>0, <1>4 DEF Goes, ReadsFire, Running, userVars, Reading
  <1>5. CASE \E q \in Quantities : Stores(l, q)
    BY <1>0, <1>5 DEF Goes, Stores, Running, userVars, Reading, Quantities
  <1>6. CASE MarksReady(l)
    BY <1>6, FirstPass DEF MarksReady, Running, userVars, Reading
  <1>7. CASE MarksLoaded(l)
    BY <1>7, SecondPass DEF MarksLoaded, Running, userVars, Reading
  <1>8. CASE LoaderEnds(l)
    BY <1>0, <1>8 DEF Goes, LoaderEnds, Running, userVars
  <1> QED
    BY <1>1, <1>2, <1>3, <1>4, <1>5, <1>6, <1>7, <1>8 DEF Loader

\* The same loaders run after a step that leaves pc alone.
LEMMA SameRunning == ASSUME pc' = pc PROVE Running' = Running
  BY DEF Running

LEMMA TurnsInit == Init => Turns
  BY DEF Init, Turns, Running, Idle

LEMMA TurnsStep ==
  ASSUME Base, Turns, [Next]_vars
  PROVE  Turns'
  <1> SUFFICES ASSUME patient' PROVE Turns'
    BY DEF Turns
  <1>1. ASSUME NEW t \in Meshes \cup {ReadAll}, NEW z \in BOOLEAN, LoadVolSmoke3DMenu(t, z)
        PROVE  Turns'
    <2>1. Running' = Running /\ Running = {}
      BY <1>1, SameRunning, Targets DEF LoadVolSmoke3DMenu, MayLoad, Turns, Loading, loaderVars
    <2>2. ui'.doing = "load" /\ target' = t
      BY <1>1 DEF LoadVolSmoke3DMenu, Idle
    <2> QED
      BY <2>1, <2>2 DEF Turns, Loading
  <1>2. ASSUME StartLoader PROVE Turns'
    <2>1. patient /\ Loading /\ Running = {}
      BY <1>2 DEF StartLoader, Turns
    <2>2. loads + 1 \in Loaders /\ pc \in [Loaders -> Places]
      BY <1>2, Shape DEF StartLoader, Base, UIOK, Loaders
    <2>3. Running' = {loads + 1}
      BY <1>2, <2>1, <2>2 DEF StartLoader, Running
    <2>4. Loading' /\ ui' = Idle
      BY <1>2, <2>1 DEF StartLoader, Loading
    <2> QED
      BY <2>3, <2>4 DEF Turns, Idle
  <1>3. ASSUME UnloadMenus PROVE Turns'
    <2>0. patient /\ target = ReadNone
      BY <1>3, Zenon DEF UnloadMenus, UnLoadVolSmoke3DMenu
    <2>1. ui = Idle /\ target' = Unload /\ ui'.doing = "test"
      <3>1. PICK first, last : UnLoadVolSmoke3DMenu(first, last)
        BY <1>3 DEF UnloadMenus
      <3> QED
        BY <3>1 DEF UnLoadVolSmoke3DMenu
    <2>2. Running' = Running /\ Running = {}
      BY <1>3, <2>0, <2>1, SameRunning, Targets
         DEF UnloadMenus, UnLoadVolSmoke3DMenu, Turns, Loading, loaderVars
    <2> QED
      BY <2>0, <2>1, <2>2 DEF Turns
  <1>4. ASSUME UnloadTests PROVE Turns'
    <2>1. patient /\ target = Unload /\ Running = {} /\ Running' = Running
      BY <1>4, SameRunning DEF UnloadTests, Turns, loaderVars
    <2>2. \/ target' = Unload /\ ui'.doing \in {"free", "test"}
          \/ target' = ReadNone /\ ui'.doing = "idle"
      BY <1>4, <2>1 DEF UnloadTests, UIGoes, Idle
    <2> QED
      BY <2>1, <2>2 DEF Turns
  <1>5. ASSUME UnloadFrees \/ UnloadClears \/ UnloadEnds PROVE Turns'
    <2>1. patient /\ target = Unload /\ Running = {} /\ Running' = Running
      BY <1>5, SameRunning DEF UnloadFrees, UnloadClears, UnloadEnds, Turns, loaderVars
    <2>2. target' = Unload /\ ui'.doing \in {"free", "test", "clear"}
      BY <1>5, <2>1 DEF UnloadFrees, UnloadClears, UnloadEnds, UIGoes
    <2> QED
      BY <2>1, <2>2 DEF Turns
  <1>6. ASSUME NEW t, UpdateFrameNumber(t) PROVE Turns'
    <2>1. Running' = Running /\ ui' = ui /\ target' = target /\ patient' = patient
      BY <1>6, SameRunning DEF UpdateFrameNumber, loaderVars, userVars
    <2> QED
      BY <2>1 DEF Turns, Loading
  <1>7. ASSUME NEW l \in Loaders, Loader(l) PROVE Turns'
    <2>1. /\ l \in Running
          /\ ui' = ui /\ patient' = patient
          /\ \A k \in Loaders : k # l => pc'[k] = pc[k]
          /\ \/ target' = target /\ pc'[l] \in {"scan", "end"} \cup Reading
             \/ target' = ReadNone /\ pc'[l] = "over"
      BY <1>7, LoaderSteps
    <2>2. patient /\ Running = {l} /\ Loading /\ ui = Idle
      BY <2>1 DEF Turns
    <2>3. CASE target' = target /\ pc'[l] \in {"scan", "end"} \cup Reading
      <3>1. Running' = {l}
        BY <2>1, <2>2, <2>3 DEF Running, Reading
      <3>2. Loading'
        BY <2>2, <2>3 DEF Loading
      <3> QED
        BY <2>1, <2>2, <3>1, <3>2 DEF Turns, Idle
    <2>4. CASE target' = ReadNone /\ pc'[l] = "over"
      <3>1. Running' = {}
        BY <2>1, <2>2, <2>4 DEF Running
      <3> QED
        BY <2>1, <2>2, <2>4, <3>1 DEF Turns, Idle
    <2> QED
      BY <2>1, <2>3, <2>4
  <1>8. ASSUME UNCHANGED vars PROVE Turns'
    BY <1>8 DEF vars, Turns, Loading, Running
  <1> QED
    BY <1>1, <1>2, <1>3, <1>4, <1>5, <1>6, <1>7, <1>8, Steps

\* In a patient session there is never more than one loader thread, from the menu
\* that lets the user in (menus.c:3254) to the thread that frees read_vol_mesh.
THEOREM LoadsAreAlone == Spec => []LoadsAlone
  <1>1. Init => Base /\ Turns
    BY BaseInit, TurnsInit
  <1>2. Base /\ Turns /\ [Next]_vars => (Base /\ Turns)'
    BY BaseStep, TurnsStep
  <1>3. Base /\ Turns => LoadsAlone
    <2> SUFFICES ASSUME Turns, patient PROVE Cardinality(Running) <= 1
      BY DEF LoadsAlone
    <2>1. CASE Running = {}
      BY <2>1, FS_EmptySet
    <2>2. CASE Running # {}
      <3>1. PICK l \in Running : Running = {l}
        BY <2>2 DEF Turns
      <3> QED
        BY <3>1, FS_Singleton
    <2> QED
      BY <2>1, <2>2
  <1> QED
    BY <1>1, <1>2, <1>3, PTL DEF Spec

-----------------------------------------------------------------------------
(* Patient sessions: frames have data.                                     *)

Kind(z) == IF z THEN "zip" ELSE "raw"

Safe(q, m) == <<q, m>> \notin MayLose

\* Frame f of the load that is going on.
Got(q, m, f) == entry[q][m][f] = [kind |-> Kind(zip), frame |-> f]

\* An entry has no data or its own.
EntriesOwn ==
    \A q \in Quantities, m \in Meshes : \A f \in Frames(m) :
        entry[q][m][f] = Null \/ Whole(q, m, f)

\* A frame with dataready has its data, but for lost fire data and for the frame
\* that an unload has freed last.
MarkedHaveData ==
    \A m \in Meshes : \A f \in ready[m], q \in Quantities :
        \/ q = "fire" /\ ~Safe(q, m)
        \/ entry[q][m][f] # Null
        \/ ui.doing = "clear" /\ ui.mesh = m /\ ui.frame = f

UnloadedHaveNone ==
    \A m \in Meshes \ loaded :
        /\ ready[m] = {} /\ due[m] = 0
        /\ \A q \in Quantities : \A f \in Frames(m) : entry[q][m][f] = Null

\* What an unload has passed is gone.
UnloadPasses ==
    /\ ui.doing \in {"free", "clear"} =>
          \A f \in Frames(ui.mesh) : f < ui.frame =>
              f \notin ready[ui.mesh] /\ \A q \in Quantities : entry[q][ui.mesh][f] = Null
    /\ ui.doing = "clear" => \A q \in Quantities : entry[q][ui.mesh][ui.frame] = Null

WantedAreLoaded == Running # {} => \A m \in Meshes : Wanted(m) => m \in loaded

\* What a loader has in hand is its frame, in the form it asked for.
HasInHand(l, m, f) ==
    /\ pc[l] \in {"smoke", "open", "fire", "mark"} => Wanted(m) /\ form[m] = zip
    /\ pc[l] \in {"smoke", "open", "fire"} => buffer[l] = (IF zip THEN "full" ELSE "own")
    /\ pc[l] \in Quantities /\ zip => full[pc[l]][m] = f
    /\ pc[l] \in {"open", "fire", "mark"} => Got("smoke", m, f)
    /\ pc[l] = "mark" /\ Safe("fire", m) => Got("fire", m, f)

InHand == \A l \in Running : HasInHand(l, at[l].mesh, at[l].frame)

Holds ==
    /\ EntriesOwn /\ MarkedHaveData /\ UnloadedHaveNone
    /\ UnloadPasses /\ WantedAreLoaded /\ InHand

Data == patient => Holds

LEMMA DataInit == Init => Data
  <1> SUFFICES ASSUME Init PROVE Holds
    BY DEF Data
  <1>1. EntriesOwn /\ MarkedHaveData /\ UnloadedHaveNone /\ UnloadPasses
    BY DEF Init, EntriesOwn, MarkedHaveData, UnloadedHaveNone, UnloadPasses, Idle
  <1>2. Running = {}
    BY DEF Init, Running
  <1> QED
    BY <1>1, <1>2 DEF Holds, WantedAreLoaded, InHand

\* Menus that change no data.
LEMMA MenusKeepData ==
  ASSUME Base, Turns, patient, Holds,
         \/ \E t \in Meshes \cup {ReadAll}, z \in BOOLEAN : LoadVolSmoke3DMenu(t, z)
         \/ UnloadMenus
         \/ UnloadTests
  PROVE  patient' => Holds'
  <1> SUFFICES ASSUME patient' PROVE Holds'
    OBVIOUS
  <1> DEFINE Same ==
               /\ entry' = entry /\ ready' = ready /\ loaded' = loaded /\ due' = due /\ pc' = pc
               /\ ui'.doing # "clear" /\ ui.doing # "clear"
               /\ ui'.doing = "free" => ui'.frame = 1
  <1>1. Same
    <2>1. ASSUME NEW t, NEW z, LoadVolSmoke3DMenu(t, z) PROVE Same
      BY <2>1 DEF LoadVolSmoke3DMenu, Idle, frameVars, loaderVars
    <2>2. ASSUME NEW first, NEW last, UnLoadVolSmoke3DMenu(first, last) PROVE Same
      BY <2>2 DEF UnLoadVolSmoke3DMenu, Idle, frameVars, loaderVars
    <2>3. ASSUME UnloadTests PROVE Same
      BY <2>3 DEF UnloadTests, UIGoes, Idle, frameVars, loaderVars
    <2> QED
      BY <2>1, <2>2, <2>3 DEF UnloadMenus
  <1>2. Running = {}
    <2>1. CASE UnloadTests
      BY <2>1 DEF UnloadTests, Turns
    <2>2. CASE ~UnloadTests
      <3>1. target = ReadNone
        BY <2>2, Zenon DEF LoadVolSmoke3DMenu, MayLoad, UnloadMenus, UnLoadVolSmoke3DMenu
      <3> QED
        BY <3>1, Targets DEF Turns, Loading
    <2> QED
      BY <2>1, <2>2
  <1>3. EntriesOwn' /\ UnloadedHaveNone'
    BY <1>1 DEF Holds, EntriesOwn, Whole, UnloadedHaveNone
  <1>4. MarkedHaveData'
    BY <1>1 DEF Holds, MarkedHaveData
  <1>5. UnloadPasses'
    BY <1>1 DEF UnloadPasses, Frames
  <1>6. WantedAreLoaded' /\ InHand'
    BY <1>1, <1>2, SameRunning DEF WantedAreLoaded, InHand
  <1> QED
    BY <1>3, <1>4, <1>5, <1>6 DEF Holds

\* A load that starts finds no data it could break.
LEMMA StartKeepsData ==
  ASSUME Base, Turns, patient, Holds, StartLoader
  PROVE  Holds'
  <1>1. Running = {}
    BY DEF StartLoader, Turns
  <1>2. /\ entry' = entry /\ ready' = ready /\ ui'.doing = "idle" /\ ui.doing = "load"
        /\ target' = target /\ loaded \subseteq loaded'
    BY DEF StartLoader, Idle, frameVars
  <1>3. EntriesOwn' /\ MarkedHaveData' /\ UnloadPasses'
    BY <1>2 DEF Holds, EntriesOwn, Whole, MarkedHaveData, UnloadPasses
  <1>4. \A m \in Meshes : Wanted(m) => m \in loaded'
    BY DEF StartLoader
  <1>5. \A m \in Meshes \ loaded' : due'[m] = due[m]
    BY <1>4 DEF StartLoader
  <1>6. UnloadedHaveNone'
    BY <1>2, <1>5 DEF Holds, UnloadedHaveNone
  <1>7. WantedAreLoaded'
    BY <1>2, <1>4 DEF WantedAreLoaded, Wanted
  <1>8. \A l \in Running' : pc'[l] = "scan"
    <2>1. pc \in [Loaders -> Places] /\ pc' = [pc EXCEPT ![loads + 1] = "scan"]
      BY Shape DEF StartLoader
    <2> QED
      BY <1>1, <2>1 DEF Running
  <1>9. InHand'
    BY <1>8 DEF InHand, HasInHand, Quantities
  <1> QED
    BY <1>3, <1>6, <1>7, <1>9 DEF Holds

\* An unload frees the data of a frame, clears dataready, and last forgets the mesh.
LEMMA UnloadKeepsData ==
  ASSUME Base, Turns, patient, Holds, UnloadFrees \/ UnloadClears \/ UnloadEnds
  PROVE  Holds'
  <1>1. Running = {} /\ Running' = {}
    BY SameRunning DEF UnloadFrees, UnloadClears, UnloadEnds, Turns, loaderVars
  <1>2. WantedAreLoaded' /\ InHand'
    BY <1>1 DEF WantedAreLoaded, InHand
  <1>3. ui \in Doings
    BY Shape
  <1>4. CASE UnloadFrees
    <2>1. /\ ui'.doing = "clear" /\ ui'.mesh = ui.mesh /\ ui'.frame = ui.frame /\ ui.doing = "free"
          /\ ready' = ready /\ loaded' = loaded /\ due' = due
      BY <1>3, <1>4 DEF UnloadFrees, UIGoes, Doings
    <2>2. /\ ui.mesh \in Meshes /\ ui.frame \in Frames(ui.mesh)
          /\ \A q \in Quantities : entry'[q][ui.mesh][ui.frame] = Null
          /\ \A q \in Quantities, m \in Meshes : \A f \in Frames(m) :
               entry'[q][m][f] = entry[q][m][f] \/ (m = ui.mesh /\ f = ui.frame)
      BY <1>4, Freed
    <2>3. EntriesOwn'
      BY <2>2 DEF Holds, EntriesOwn, Whole
    <2>4. MarkedHaveData'
      BY <2>1, <2>2, Shape DEF Holds, MarkedHaveData
    <2>5. UnloadedHaveNone'
      BY <2>1, <2>2 DEF Holds, UnloadedHaveNone
    <2>6. UnloadPasses'
      <3>1. \A f \in Frames(ui.mesh) : f < ui.frame =>
              f \notin ready[ui.mesh] /\ \A q \in Quantities : entry[q][ui.mesh][f] = Null
        BY <2>1 DEF Holds, UnloadPasses
      <3>2. \A f \in Frames(ui.mesh) : f < ui.frame =>
              f \notin ready[ui.mesh] /\ \A q \in Quantities : entry'[q][ui.mesh][f] = Null
        BY <2>2, <3>1
      <3> QED
        BY <2>1, <2>2, <3>2 DEF UnloadPasses
    <2> QED
      BY <1>2, <2>3, <2>4, <2>5, <2>6 DEF Holds
  <1>5. CASE UnloadClears
    <2>1. /\ ui'.doing = "free" /\ ui'.mesh = ui.mesh /\ ui'.frame = ui.frame + 1 /\ ui.doing = "clear"
          /\ entry' = entry /\ loaded' = loaded /\ due' = due
      BY <1>3, <1>5 DEF UnloadClears, UIGoes, Doings
    <2>2. /\ ui.mesh \in Meshes /\ ui.frame \in Nat
          /\ ready'[ui.mesh] = ready[ui.mesh] \ {ui.frame}
          /\ \A m \in Meshes : m # ui.mesh => ready'[m] = ready[m]
      BY <1>3, <1>5, <2>1 DEF UnloadClears, Base, Shapes, UIOK, Doings
    <2>3. EntriesOwn'
      BY <2>1 DEF Holds, EntriesOwn, Whole
    <2>4. MarkedHaveData'
      BY <2>1, <2>2 DEF Holds, MarkedHaveData
    <2>5. UnloadedHaveNone'
      BY <2>1, <2>2 DEF Holds, UnloadedHaveNone
    <2>6. UnloadPasses'
      <3>1. \A f \in Frames(ui.mesh) : f < ui.frame + 1 =>
              f \notin ready'[ui.mesh] /\ \A q \in Quantities : entry[q][ui.mesh][f] = Null
        BY <2>1, <2>2 DEF Holds, UnloadPasses, Frames
      <3> QED
        BY <2>1, <3>1 DEF UnloadPasses
    <2> QED
      BY <1>2, <2>3, <2>4, <2>5, <2>6 DEF Holds
  <1>6. CASE UnloadEnds
    <2>1. /\ ui'.doing = "test" /\ ui.doing = "free" /\ ui.frame > NTimes[ui.mesh]
          /\ entry' = entry /\ ready' = ready /\ loaded' = loaded \ {ui.mesh}
      BY <1>3, <1>6 DEF UnloadEnds, UIGoes, frameVars
    <2>2. ui.mesh \in Meshes /\ ui.frame \in Nat
      BY <1>3, <2>1 DEF Base, UIOK, Doings
    <2>3. due'[ui.mesh] = 0 /\ \A m \in Meshes : m # ui.mesh => due'[m] = due[m]
      BY <1>6, <2>2, Shape DEF UnloadEnds
    <2>4. EntriesOwn' /\ MarkedHaveData' /\ UnloadPasses'
      BY <2>1 DEF Holds, EntriesOwn, Whole, MarkedHaveData, UnloadPasses
    <2>5. \A f \in Frames(ui.mesh) :
              f \notin ready[ui.mesh] /\ \A q \in Quantities : entry[q][ui.mesh][f] = Null
      BY <2>1, <2>2 DEF Holds, UnloadPasses, Frames
    <2>6. ready[ui.mesh] = {}
      BY <2>2, <2>5, Shape
    <2>7. UnloadedHaveNone'
      BY <2>1, <2>3, <2>5, <2>6 DEF Holds, UnloadedHaveNone
    <2> QED
      BY <1>2, <2>4, <2>7 DEF Holds
  <1> QED
    BY <1>4, <1>5, <1>6

\* In a patient session a loader that takes a step is the only one.
LEMMA LoaderAlone ==
  ASSUME Base, Turns, patient, NEW l \in Loaders, Loader(l)
  PROVE  /\ Running = {l} /\ Loading /\ ui = Idle /\ ui' = Idle /\ Running' \subseteq {l}
         /\ zip' = zip /\ due' = due
         /\ \/ target' = target /\ Running' = {l}
            \/ LoaderEnds(l) /\ Running' = {}
  <1>1. /\ l \in Running
        /\ ui' = ui /\ zip' = zip /\ due' = due
        /\ \A k \in Loaders : k # l => pc'[k] = pc[k]
        /\ \/ target' = target /\ pc'[l] \in {"scan", "end"} \cup Reading
           \/ LoaderEnds(l) /\ target' = ReadNone /\ pc'[l] = "over"
    BY LoaderSteps
  <1>2. Running = {l} /\ Loading /\ ui = Idle
    BY <1>1 DEF Turns
  <1> QED
    BY <1>1, <1>2 DEF Running, Reading

\* What a loader stores is the frame in hand, compressed if that was asked for.
LEMMA BlockIs ==
  ASSUME Base, Turns, patient, Holds, NEW l \in Loaders, NEW q \in Quantities, Stores(l, q),
         NEW m, m = at[l].mesh, NEW f, f = at[l].frame
  PROVE  Block(l, q) = [kind |-> Kind(zip), frame |-> f] /\ Wanted(m) /\ form[m] = zip /\ m \in loaded
  <1>1. Running = {l}
    BY LoaderAlone DEF Loader
  <1>2. pc[l] = q /\ pc[l] \in {"smoke", "fire"}
    BY DEF Stores, Quantities
  <1>3. HasInHand(l, m, f)
    BY <1>1 DEF Holds, InHand
  <1>4. /\ Wanted(m) /\ form[m] = zip /\ buffer[l] = (IF zip THEN "full" ELSE "own")
        /\ zip => full[q][m] = f
    BY <1>2, <1>3 DEF HasInHand, Quantities
  <1>5. m \in Meshes
    BY <1>2, Here
  <1>6. m \in loaded
    BY <1>1, <1>4, <1>5 DEF Holds, WantedAreLoaded
  <1>7. zip \in BOOLEAN
    BY Shape
  <1>8. Block(l, q) = [kind |-> Kind(zip), frame |-> f]
    <2>1. CASE zip
      BY <1>4, <2>1 DEF Block, Kind
    <2>2. CASE ~zip
      BY <1>4, <2>2 DEF Block, Kind
    <2> QED
      BY <2>1, <2>2
  <1> QED
    BY <1>4, <1>6, <1>8

\* The marks of the second loop change nothing in a patient session.
LEMMA LoadedAlready ==
  ASSUME Base, Turns, patient, Holds, NEW l \in Loaders, MarksLoaded(l)
  PROVE  loaded' = loaded
  <1>1. Running = {l}
    BY LoaderAlone DEF Loader
  <1>2. at[l].mesh \in Meshes
    BY Marked
  <1>3. Wanted(at[l].mesh) => at[l].mesh \in loaded
    BY <1>1, <1>2 DEF Holds, WantedAreLoaded
  <1> QED
    BY <1>3 DEF MarksLoaded

\* A loader stores the frame in hand before it sets dataready.
LEMMA LoaderKeepsData ==
  ASSUME Base, Turns, patient, Holds, NEW l \in Loaders, Loader(l)
  PROVE  Holds'
  <1>0. /\ Running = {l} /\ ui = Idle /\ ui' = Idle /\ Running' \subseteq {l}
        /\ zip' = zip /\ due' = due
        /\ \/ target' = target /\ Running' = {l}
           \/ LoaderEnds(l) /\ Running' = {}
    BY LoaderAlone
  <1>u. UnloadPasses'
    BY <1>0 DEF UnloadPasses, Idle
  <1>i. ui'.doing = "idle" /\ ui.doing = "idle"
    BY <1>0 DEF Idle
  <1> SUFFICES EntriesOwn' /\ MarkedHaveData' /\ UnloadedHaveNone' /\ WantedAreLoaded' /\ InHand'
    BY <1>u DEF Holds
  <1>w. ASSUME loaded' = loaded PROVE WantedAreLoaded'
    BY <1>0, <1>w DEF Holds, WantedAreLoaded, Wanted
  <1>n. ASSUME Running' \subseteq {l}, pc'[l] \notin {"smoke", "open", "fire", "mark"} PROVE InHand'
    BY <1>n DEF InHand, HasInHand, Quantities
  <1>k. ASSUME entry' = entry, ready' = ready, loaded' = loaded
        PROVE  EntriesOwn' /\ MarkedHaveData' /\ UnloadedHaveNone'
    BY <1>0, <1>i, <1>k DEF Holds, EntriesOwn, Whole, MarkedHaveData, UnloadedHaveNone
  <1>h. HasInHand(l, at[l].mesh, at[l].frame)
    BY <1>0 DEF Holds, InHand
  <1>1. CASE Scans(l)
    BY <1>0, <1>1, <1>w, <1>n, <1>k, Scanned DEF Scans, frameVars
  <1>2. CASE ReadsSmoke(l)
    <2>0. EntriesOwn' /\ MarkedHaveData' /\ UnloadedHaveNone' /\ WantedAreLoaded'
      BY <1>2, <1>w, <1>k DEF ReadsSmoke
    <2>1. CASE AfterPass1(l)
      BY <1>0, <1>2, <1>n, <2>0, <2>1, FirstPass DEF ReadsSmoke, Reading
    <2>2. ASSUME NEW array, array = (IF zip THEN "full" ELSE "own"),
                 ReadInto(array, "smoke", at[l].mesh, at[l].frame),
                 buffer' = [buffer EXCEPT ![l] = array], Goes(l, "smoke", at[l])
          PROVE  InHand'
      <3>1. PICK m, f : m = at[l].mesh /\ f = at[l].frame
        OBVIOUS
      <3>2. /\ m \in Meshes /\ f \in Nat /\ Wanted(m) /\ form'[m] = zip /\ f <= NTimes[m]
            /\ pc[l] = "pass1"
        BY <1>2, <3>1, Shape DEF ReadsSmoke, Base, LoaderOK, Reading, At
      <3>3. pc'[l] = "smoke" /\ at' = at
        BY <2>2, <3>1, <3>2, GoesOn
      <3>4. buffer'[l] = array
        BY <2>2, Shape
      <3>5. zip => full'["smoke"][m] = f
        <4>1. ReadInto(array, "smoke", m, f) /\ "smoke" \in Quantities
          BY <2>2, <3>1 DEF Quantities
        <4>2. array = "full" => full'["smoke"][m] = f
          BY <3>2, <4>1, ScratchFilled
        <4> QED
          BY <2>2, <4>2
      <3>6. Wanted(m)'
        BY <1>2, <3>2 DEF ReadsSmoke, Wanted
      <3>7. HasInHand(l, m, f)'
        BY <1>0, <2>2, <3>2, <3>3, <3>4, <3>5, <3>6 DEF HasInHand
      <3> QED
        BY <1>0, <3>1, <3>3, <3>7 DEF InHand
    <2> QED
      BY <1>2, <2>0, <2>1, <2>2 DEF ReadsSmoke
  <1>3. CASE PassesBy(l)
    BY <1>0, <1>3, <1>w, <1>n, <1>k, FirstPass DEF PassesBy, frameVars, Reading
  <1>4. CASE ReadsFire(l)
    <2>0. EntriesOwn' /\ MarkedHaveData' /\ UnloadedHaveNone' /\ WantedAreLoaded'
      BY <1>4, <1>w, <1>k DEF ReadsFire
    <2>1. PICK m, f : m = at[l].mesh /\ f = at[l].frame
      OBVIOUS
    <2>2. /\ m \in Meshes /\ f \in Nat /\ f <= NTimes[m] /\ pc[l] = "open"
      BY <1>4, <2>1, Here, Shape DEF ReadsFire, At
    <2>3. /\ Wanted(m) /\ form[m] = zip /\ buffer[l] = (IF zip THEN "full" ELSE "own")
          /\ Got("smoke", m, f)
      BY <1>h, <2>1, <2>2 DEF HasInHand
    <2>4. Wanted(m)' /\ form'[m] = zip' /\ buffer'[l] = (IF zip' THEN "full" ELSE "own")
          /\ Got("smoke", m, f)'
      BY <1>0, <1>4, <2>3 DEF ReadsFire, Wanted, Got
    <2>5. CASE Goes(l, "mark", at[l]) /\ <<"fire", m>> \in MayLose
      <3>1. pc'[l] = "mark" /\ at' = at
        BY <2>1, <2>2, <2>5, GoesOn
      <3>2. HasInHand(l, m, f)'
        BY <2>4, <2>5, <3>1 DEF HasInHand, Safe, Quantities
      <3> QED
        BY <1>0, <2>0, <2>1, <3>1, <3>2 DEF InHand
    <2>6. CASE Goes(l, "fire", at[l]) /\ ReadInto(buffer[l], "fire", m, f)
      <3>1. pc'[l] = "fire" /\ at' = at
        BY <2>1, <2>2, <2>6, GoesOn
      <3>2. zip => full'["fire"][m] = f
        <4>1. "fire" \in Quantities
          BY DEF Quantities
        <4>2. buffer[l] = "full" => full'["fire"][m] = f
          BY <2>2, <2>6, <4>1, ScratchFilled
        <4> QED
          BY <2>3, <4>2
      <3>3. HasInHand(l, m, f)'
        BY <1>0, <2>4, <3>1, <3>2 DEF HasInHand
      <3> QED
        BY <1>0, <2>0, <2>1, <3>1, <3>3 DEF InHand
    <2> QED
      BY <1>4, <2>1, <2>5, <2>6 DEF ReadsFire
  <1>5. CASE \E q \in Quantities : Stores(l, q)
    <2>1. PICK q \in Quantities : Stores(l, q)
      BY <1>5
    <2>2. PICK m, f, b : m = at[l].mesh /\ f = at[l].frame /\ b = Block(l, q)
      OBVIOUS
    <2>3. b = [kind |-> Kind(zip), frame |-> f] /\ Wanted(m) /\ form[m] = zip /\ m \in loaded
      BY <2>1, <2>2, BlockIs
    <2>4. /\ m \in Meshes /\ f \in Frames(m)
          /\ entry'[q][m][f] = b
          /\ \A r \in Quantities, k \in Meshes : \A g \in Frames(k) :
               entry'[r][k][g] = entry[r][k][g] \/ (r = q /\ k = m /\ g = f)
      BY <2>1, <2>2, Stored
    <2>5. ready' = ready /\ loaded' = loaded /\ target' = target /\ buffer' = buffer /\ form' = form
      BY <2>1 DEF Stores
    <2>6. Whole(q, m, f)' /\ b # Null
      BY <2>3, <2>4 DEF Whole, Kind, Null
    <2>7. EntriesOwn'
      <3> SUFFICES ASSUME NEW r \in Quantities, NEW k \in Meshes, NEW g \in Frames(k)
                   PROVE  entry'[r][k][g] = Null \/ Whole(r, k, g)'
        BY DEF EntriesOwn, Null
      <3>1. CASE r = q /\ k = m /\ g = f
        BY <2>6, <3>1
      <3>2. CASE entry'[r][k][g] = entry[r][k][g]
        BY <3>2 DEF Holds, EntriesOwn, Whole
      <3> QED
        BY <2>4, <3>1, <3>2
    <2>8. MarkedHaveData'
      <3> SUFFICES ASSUME NEW k \in Meshes, NEW g \in ready[k], NEW r \in Quantities,
                          ~(r = "fire" /\ ~Safe(r, k))
                   PROVE  entry'[r][k][g] # Null
        BY <2>5 DEF MarkedHaveData, Safe, Null
      <3>1. g \in Frames(k)
        BY Shape
      <3>2. entry[r][k][g] # Null
        BY <1>i DEF Holds, MarkedHaveData
      <3> QED
        BY <2>4, <2>6, <3>1, <3>2
    <2>9. UnloadedHaveNone'
      BY <1>0, <2>3, <2>4, <2>5 DEF Holds, UnloadedHaveNone
    <2>10. pc[l] = q /\ (pc[l] = "smoke" \/ pc[l] = "fire")
      BY <2>1 DEF Stores, Quantities
    <2>11. Wanted(m)' /\ form'[m] = zip' /\ buffer'[l] = buffer[l] /\ Got(q, m, f)'
      BY <1>0, <2>3, <2>4, <2>5 DEF Wanted, Got
    <2>12. pc'[l] = (IF q = "smoke" THEN "open" ELSE "mark") /\ at' = at
      BY <2>1, <2>10, Here, GoesOn DEF Stores
    <2>13. HasInHand(l, m, f)'
      <3>1. CASE q = "smoke"
        BY <1>0, <1>h, <2>2, <2>10, <2>11, <2>12, <3>1 DEF HasInHand, Quantities
      <3>2. CASE q = "fire"
        <4>1. Got("smoke", m, f)
          BY <1>h, <2>2, <2>10, <3>2 DEF HasInHand
        <4>2. Got("smoke", m, f)'
          BY <1>0, <2>4, <3>2, <4>1 DEF Got, Quantities
        <4> QED
          BY <2>11, <2>12, <3>2, <4>2 DEF HasInHand, Quantities
      <3> QED
        BY <3>1, <3>2 DEF Quantities
    <2>14. InHand'
      BY <1>0, <2>2, <2>12, <2>13 DEF InHand
    <2> QED
      BY <1>w, <2>5, <2>7, <2>8, <2>9, <2>14
  <1>6. CASE MarksReady(l)
    <2>1. PICK m, f : m = at[l].mesh /\ f = at[l].frame
      OBVIOUS
    <2>2. /\ m \in Meshes /\ f \in Frames(m)
          /\ ready'[m] = ready[m] \cup {f}
          /\ \A k \in Meshes : k # m => ready'[k] = ready[k]
      BY <1>6, <2>1, Readied
    <2>3. entry' = entry /\ loaded' = loaded /\ pc[l] = "mark"
      BY <1>6 DEF MarksReady
    <2>4. Wanted(m) /\ Got("smoke", m, f) /\ (Safe("fire", m) => Got("fire", m, f))
      BY <1>h, <2>1, <2>3 DEF HasInHand
    <2>5. m \in loaded
      BY <1>0, <2>2, <2>4 DEF Holds, WantedAreLoaded
    <2>6. entry[ "smoke"][m][f] # Null /\ (Safe("fire", m) => entry["fire"][m][f] # Null)
      BY <2>4 DEF Got, Null, Kind
    <2>7. MarkedHaveData'
      BY <1>i, <2>2, <2>3, <2>6 DEF Holds, MarkedHaveData, Quantities
    <2>8. EntriesOwn' /\ UnloadedHaveNone'
      BY <1>0, <2>2, <2>3, <2>5 DEF Holds, EntriesOwn, Whole, UnloadedHaveNone
    <2>9. InHand'
      BY <1>0, <1>6, <1>n, FirstPass DEF MarksReady, Reading
    <2> QED
      BY <1>w, <2>3, <2>7, <2>8, <2>9
  <1>7. CASE MarksLoaded(l)
    <2>1. loaded' = loaded
      BY <1>7, LoadedAlready
    <2>2. InHand'
      BY <1>0, <1>7, <1>n, SecondPass DEF MarksLoaded, Reading
    <2> QED
      BY <1>7, <1>w, <1>k, <2>1, <2>2 DEF MarksLoaded
  <1>8. CASE LoaderEnds(l)
    <2>0. pc \in [Loaders -> Places]
      BY Shape
    <2>1. pc'[l] = "over"
      BY <1>8, <2>0 DEF LoaderEnds, Goes
    <2>3. Running' = {}
      BY <1>0, <2>1 DEF Running
    <2>2. InHand' /\ WantedAreLoaded'
      BY <2>3 DEF InHand, WantedAreLoaded
    <2> QED
      BY <1>8, <1>k, <2>2 DEF LoaderEnds, frameVars
  <1> QED
    BY <1>1, <1>2, <1>3, <1>4, <1>5, <1>6, <1>7, <1>8 DEF Loader

\* Patience is lost for good.
LEMMA PatientBefore ==
  ASSUME Base, [Next]_vars, patient'
  PROVE  patient
  <1>1. CASE UnloadMenus
    BY <1>1, Zenon DEF UnloadMenus, UnLoadVolSmoke3DMenu
  <1>2. CASE ~UnloadMenus /\ Next
    <2>1. patient' = patient
      BY <1>2, Steps, LoaderSteps
         DEF LoadVolSmoke3DMenu, StartLoader, UnloadTests, UnloadFrees, UnloadClears, UnloadEnds,
             UpdateFrameNumber, userVars
    <2> QED
      BY <2>1
  <1>3. CASE UNCHANGED vars
    BY <1>3 DEF vars
  <1> QED
    BY <1>1, <1>2, <1>3

LEMMA DataStep ==
  ASSUME Base, Turns, Data, [Next]_vars
  PROVE  Data'
  <1> SUFFICES ASSUME patient' PROVE Holds'
    BY DEF Data
  <1>0. patient /\ Holds
    BY PatientBefore DEF Data
  <1>1. ASSUME UNCHANGED <<target, zip, form, full, entry, ready, loaded, loaderVars, userVars>>
        PROVE  Holds'
    <2>1. Running' = Running
      BY <1>1, SameRunning DEF loaderVars
    <2>2. EntriesOwn' /\ UnloadedHaveNone'
      BY <1>0, <1>1 DEF Holds, EntriesOwn, Whole, UnloadedHaveNone, userVars
    <2>3. MarkedHaveData' /\ UnloadPasses'
      BY <1>0, <1>1 DEF Holds, MarkedHaveData, UnloadPasses, Frames, userVars
    <2>4. WantedAreLoaded'
      BY <1>0, <1>1, <2>1 DEF Holds, WantedAreLoaded, Wanted
    <2>5. InHand'
      BY <1>0, <1>1, <2>1 DEF Holds, InHand, HasInHand, Wanted, Got, loaderVars
    <2> QED
      BY <2>2, <2>3, <2>4, <2>5 DEF Holds
  <1>2. ASSUME NEW t, UpdateFrameNumber(t) PROVE Holds'
    BY <1>1, <1>2 DEF UpdateFrameNumber
  <1>3. ASSUME UNCHANGED vars PROVE Holds'
    BY <1>1, <1>3 DEF vars, loaderVars, userVars
  <1> QED
    BY <1>0, <1>2, <1>3, Steps, MenusKeepData, StartKeepsData, UnloadKeepsData, LoaderKeepsData

\* unload_volsmoke_allframes clears what it frees (IOvolsmoke.c:1963-1973): in a
\* patient session at rest a mesh that is not loaded has no data and no frame to show.
THEOREM UnloadedAlwaysEmpty == Spec => []UnloadedIsEmpty
  <1>1. Init => Base /\ Turns /\ Data
    BY BaseInit, TurnsInit, DataInit
  <1>2. Base /\ Turns /\ Data /\ [Next]_vars => (Base /\ Turns /\ Data)'
    BY BaseStep, TurnsStep, DataStep
  <1>3. Data => UnloadedIsEmpty
    BY DEF Data, Holds, UnloadedHaveNone, UnloadedIsEmpty
  <1> QED
    BY <1>1, <1>2, <1>3, PTL DEF Spec

\* What dataready promises, also while a loader runs.
LEMMA DataMeansFrames ==
  ASSUME Base, Data, patient, ui = Idle
  PROVE  FramesHaveData
  <1> SUFFICES ASSUME NEW m \in loaded, NEW f \in ready[m], NEW q \in Quantities
               PROVE  \/ Whole(q, m, f)
                      \/ q = "fire" /\ <<q, m>> \in MayLose /\ entry[q][m][f] = Null
    BY DEF FramesHaveData
  <1>1. m \in Meshes /\ f \in Frames(m)
    BY Shape
  <1>2. entry[q][m][f] = Null \/ Whole(q, m, f)
    BY <1>1 DEF Data, Holds, EntriesOwn
  <1>3. (q = "fire" /\ ~Safe(q, m)) \/ entry[q][m][f] # Null
    BY <1>1 DEF Data, Holds, MarkedHaveData, Idle
  <1> QED
    BY <1>2, <1>3 DEF Safe

-----------------------------------------------------------------------------
(* Patient sessions: loads are whole.                                      *)

\* Loader l has been through frame f of mesh m.
Visited(l, m, f) ==
    \/ f < at[l].frame
    \/ f = at[l].frame /\ (m < at[l].mesh \/ pc[l] = "pass2")

\* It is still to come.
Comes(l, m, f) ==
    pc[l] # "end" /\ f <= LeadFrames /\ (pc[l] \in Reading => ~Visited(l, m, f))

Filled(m) == Safe("smoke", m) => 1 .. due[m] \subseteq ready[m]

Unloading(m) == ui.doing \in {"free", "clear"} /\ m = ui.mesh

\* The number of frames a loader reads is that of the first wanted mesh.
ScansOn(l) == pc[l] = "scan" => \A k \in Meshes : k < at[l].mesh => ~Wanted(k)
LeadsOn(l) == pc[l] \in Reading => at[l].nframes = LeadFrames /\ at[l].frame <= LeadFrames

WantedAreDue == \A m \in Meshes : Wanted(m) => Asked(m) <= due[m]

\* A loader has marked the frames of a wanted mesh, or will.
Fills(l) ==
    \A m \in Meshes : Wanted(m) /\ Safe("smoke", m) =>
        \A f \in 1 .. due[m] : f \in ready[m] \/ Comes(l, m, f)

ReadyAreDue == \A m \in Meshes : due[m] <= NTimes[m] /\ ready[m] \subseteq 1 .. due[m]

OthersAreFilled ==
    \A m \in loaded : Filled(m) \/ (Running # {} /\ Wanted(m)) \/ Unloading(m)

LoadersFill == \A l \in Running : ScansOn(l) /\ LeadsOn(l) /\ WantedAreDue /\ Fills(l)

Filling == patient => ReadyAreDue /\ OthersAreFilled /\ LoadersFill

LEMMA FillingInit == Init => Filling
  BY DEF Init, Filling, ReadyAreDue, OthersAreFilled, LoadersFill, Running

\* The steps of the interface.
LEMMA MenusFill ==
  ASSUME Base, Turns, patient, ReadyAreDue, OthersAreFilled, Running = {},
         UNCHANGED <<loaded, pc, ready, due>>,
         ui.doing \in {"idle", "test"} \/ (ui.doing = "free" /\ ui'.doing = "clear" /\ ui'.mesh = ui.mesh)
  PROVE  ReadyAreDue' /\ OthersAreFilled' /\ LoadersFill'
  <1>1. Running' = {}
    BY SameRunning
  <1>2. ReadyAreDue'
    BY DEF ReadyAreDue
  <1>3. OthersAreFilled'
    BY DEF OthersAreFilled, Filled, Unloading
  <1> QED
    BY <1>1, <1>2, <1>3 DEF LoadersFill

\* A load that starts owes the wanted meshes the frames asked for.
LEMMA StartFills ==
  ASSUME Base, Turns, patient, Holds, ReadyAreDue, OthersAreFilled, StartLoader
  PROVE  ReadyAreDue' /\ OthersAreFilled' /\ LoadersFill'
  <1>1. /\ Running = {} /\ Loading
        /\ target' = target /\ ready' = ready /\ ui.doing = "load"
    BY DEF StartLoader, Turns, frameVars
  <1>2. loads + 1 \in Loaders /\ pc \in [Loaders -> Places] /\ at \in [Loaders -> At]
    BY Shape DEF StartLoader, Base, UIOK, Loaders
  <1>3. Running' = {loads + 1} /\ pc'[loads + 1] = "scan" /\ at'[loads + 1].mesh = 1
    BY <1>1, <1>2 DEF StartLoader, Running, At
  <1>4. due \in [Meshes -> Nat] /\ \A m \in Meshes : NTimes[m] \in Nat \ {0}
    BY Shape
  <1>5. LeadFrames \in Nat
    BY <1>1, <1>4, Targets DEF LeadFrames, Loading, Meshes
  <1>6. \A m \in Meshes :
           /\ Asked(m) \in Nat /\ Asked(m) <= NTimes[m] /\ Asked(m) <= LeadFrames
           /\ due'[m] = IF Wanted(m) /\ due[m] < Asked(m) THEN Asked(m) ELSE due[m]
    BY <1>4, <1>5 DEF StartLoader, Asked
  <1>7. \A m \in Meshes : Filled(m)
    <2> SUFFICES ASSUME NEW m \in Meshes PROVE Filled(m)
      OBVIOUS
    <2>1. CASE m \in loaded
      BY <1>1, <2>1 DEF OthersAreFilled, Unloading
    <2>2. CASE m \notin loaded
      <3>1. due[m] = 0
        BY <2>2 DEF Holds, UnloadedHaveNone
      <3> QED
        BY <3>1 DEF Filled
    <2> QED
      BY <2>1, <2>2
  <1>8. \A m \in Meshes : Wanted(m)' <=> Wanted(m)
    BY <1>1 DEF Wanted
  <1>9. LeadFrames' = LeadFrames /\ \A m \in Meshes : Asked(m)' = Asked(m)
    BY <1>1 DEF LeadFrames, Asked
  <1>10. ReadyAreDue'
    <2>1. \A m \in Meshes : due[m] <= NTimes[m] /\ ready[m] \subseteq 1 .. due[m]
      BY DEF ReadyAreDue
    <2>2. \A m \in Meshes : due'[m] \in Nat /\ due[m] <= due'[m] /\ due'[m] <= NTimes[m]
      BY <1>4, <1>6, <2>1
    <2>3. \A m \in Meshes : ready'[m] \subseteq 1 .. due'[m]
      BY <1>1, <1>4, <2>1, <2>2
    <2> QED
      BY <2>2, <2>3 DEF ReadyAreDue
  <1>11. OthersAreFilled'
    <2> SUFFICES ASSUME NEW m \in loaded', ~Wanted(m)' PROVE Filled(m)'
      BY <1>3 DEF OthersAreFilled
    <2>1. m \in Meshes /\ ~Wanted(m)
      BY <1>8, Shape DEF StartLoader
    <2>2. due'[m] = due[m] /\ Filled(m)
      BY <1>6, <1>7, <2>1
    <2> QED
      BY <1>1, <2>2 DEF Filled
  <1>12. LoadersFill'
    <2> SUFFICES ASSUME NEW l \in Loaders, pc'[l] = "scan", at'[l].mesh = 1
                 PROVE  ScansOn(l)' /\ LeadsOn(l)' /\ WantedAreDue' /\ Fills(l)'
      BY <1>2, <1>3 DEF LoadersFill
    <2>1. ScansOn(l)' /\ LeadsOn(l)'
      BY DEF ScansOn, LeadsOn, Reading, Meshes
    <2>2. WantedAreDue'
      BY <1>4, <1>6, <1>8, <1>9 DEF WantedAreDue
    <2>3. Fills(l)'
      <3> SUFFICES ASSUME NEW m \in Meshes, Wanted(m), Safe("smoke", m), NEW f \in 1 .. due'[m],
                          f \notin ready[m]
                   PROVE  Comes(l, m, f)'
        BY <1>1, <1>8 DEF Fills, Safe
      <3>1. f \notin 1 .. due[m]
        BY <1>7 DEF Filled
      <3>2. f <= LeadFrames
        BY <1>4, <1>5, <1>6, <3>1
      <3> QED
        BY <1>9, <3>2 DEF Comes, Reading
    <2> QED
      BY <2>1, <2>2, <2>3
  <1> QED
    BY <1>10, <1>11, <1>12

\* A loader that passes on in the first loop has been through one frame more.
LEMMA FirstVisits ==
  ASSUME Base, NEW l \in Loaders, pc[l] \in Reading, pc[l] # "pass2", AfterPass1(l),
         NEW m, m = at[l].mesh, NEW f, f = at[l].frame
  PROVE  \A k \in Meshes, g \in Nat :
            Visited(l, k, g)' <=> (Visited(l, k, g) \/ (k = m /\ g = f))
  <1>1. at[l] \in At /\ at[l].mesh \in Meshes
    BY Shape DEF Base, LoaderOK
  <1>2. /\ at'[l].frame = at[l].frame
        /\ \/ pc'[l] = "pass1" /\ at[l].mesh < LastMesh /\ at'[l].mesh = at[l].mesh + 1
           \/ pc'[l] = "pass2" /\ at[l].mesh = LastMesh /\ at'[l].mesh = 1
    BY FirstPass
  <1> SUFFICES ASSUME NEW k \in Meshes, NEW g \in Nat
               PROVE  Visited(l, k, g)' <=> (Visited(l, k, g) \/ (k = m /\ g = f))
    OBVIOUS
  <1>3. m \in Nat /\ m <= LastMesh /\ f \in Nat /\ k \in Nat /\ k >= 1 /\ k <= LastMesh
    BY <1>1 DEF At, Meshes
  <1>4. Visited(l, k, g) <=> (g < f \/ (g = f /\ k < m))
    BY DEF Visited
  <1>5. CASE pc'[l] = "pass1" /\ at'[l].mesh = m + 1
    <2>1. Visited(l, k, g)' <=> (g < f \/ (g = f /\ k < m + 1))
      BY <1>2, <1>5 DEF Visited
    <2> QED
      BY <1>3, <1>4, <2>1
  <1>6. CASE pc'[l] = "pass2" /\ m = LastMesh
    <2>1. Visited(l, k, g)' <=> (g < f \/ g = f)
      BY <1>2, <1>6 DEF Visited
    <2> QED
      BY <1>3, <1>4, <1>6, <2>1
  <1> QED
    BY <1>2, <1>5, <1>6

\* In the second loop it goes through no frame.
LEMMA SecondVisits ==
  ASSUME Base, NEW l \in Loaders, pc[l] = "pass2", AfterPass2(l)
  PROVE  \/ pc'[l] = "end" /\ at[l].frame >= at[l].nframes
         \/ /\ pc'[l] \in {"pass1", "pass2"}
            /\ \A k \in Meshes, g \in Nat : Visited(l, k, g)' <=> Visited(l, k, g)
  <1>1. at[l] \in At /\ at[l].mesh \in Meshes
    BY Shape DEF Base, LoaderOK, Reading
  <1>2. \/ /\ pc'[l] = "pass2" /\ at[l].mesh < LastMesh /\ at'[l].mesh = at[l].mesh + 1
           /\ at'[l].frame = at[l].frame /\ at'[l].nframes = at[l].nframes
        \/ /\ pc'[l] = "pass1" /\ at[l].mesh = LastMesh /\ at'[l].mesh = 1
           /\ at[l].frame < at[l].nframes
           /\ at'[l].frame = at[l].frame + 1 /\ at'[l].nframes = at[l].nframes
        \/ /\ pc'[l] = "end" /\ at[l].mesh = LastMesh /\ at[l].frame >= at[l].nframes
    BY SecondPass DEF Reading
  <1> QED
    BY <1>1, <1>2 DEF Visited, At, Meshes

\* A target that stays asks for the same frames.
LEMMA SameTarget ==
  ASSUME target' = target
  PROVE  /\ LeadFrames' = LeadFrames
         /\ \A m \in Meshes : (Wanted(m)' <=> Wanted(m)) /\ Asked(m)' = Asked(m)
  BY DEF LeadFrames, Wanted, Asked

\* While a loader runs, there is a first wanted mesh.
LEMMA Lead ==
  ASSUME Base, Loading
  PROVE  LeadFrames \in Nat \ {0}
  BY Targets DEF LeadFrames, Loading, Meshes

\* A loader reads as many frames as the first wanted mesh has.
LEMMA LoaderLeads ==
  ASSUME Base, Turns, patient, NEW l \in Loaders, Loader(l), target' = target,
         ScansOn(l), LeadsOn(l)
  PROVE  ScansOn(l)' /\ LeadsOn(l)'
  <1>1. Loading
    BY LoaderAlone
  <1>2. LeadFrames' = LeadFrames /\ LeadFrames \in Nat \ {0}
        /\ \A m \in Meshes : Wanted(m)' <=> Wanted(m)
    BY <1>1, SameTarget, Lead
  <1>3. ASSUME pc'[l] \in Reading, at'[l].nframes = LeadFrames, at'[l].frame <= LeadFrames
        PROVE  ScansOn(l)' /\ LeadsOn(l)'
    BY <1>2, <1>3 DEF ScansOn, LeadsOn, Reading
  <1>4. at[l] \in At
    BY Shape
  <1>5. CASE Scans(l)
    <2>1. at[l].mesh \in Meshes /\ pc[l] = "scan"
      BY <1>5 DEF Scans, Base, LoaderOK
    <2>2. \A k \in Meshes : k < at[l].mesh => ~Wanted(k)
      BY <2>1 DEF ScansOn
    <2>3. CASE Wanted(at[l].mesh) /\ pc'[l] = "pass1" /\ at'[l].mesh = 1
               /\ at'[l].frame = 1 /\ at'[l].nframes = NTimes[at[l].mesh]
      <3>1. NTimes[at[l].mesh] = LeadFrames
        <4>1. CASE target = ReadAll
          <5>1. Wanted(1) /\ 1 \in Meshes
            BY <4>1 DEF Wanted, Meshes
          <5>2. at[l].mesh = 1
            BY <2>1, <2>2, <5>1 DEF Meshes
          <5> QED
            BY <4>1, <5>2 DEF LeadFrames
        <4>2. CASE target # ReadAll
          BY <2>3, <4>2 DEF LeadFrames, Wanted
        <4> QED
          BY <4>1, <4>2
      <3> QED
        BY <1>2, <1>3, <2>3, <3>1 DEF Reading
    <2>4. CASE ~Wanted(at[l].mesh) /\ pc'[l] = "scan" /\ at'[l].mesh = at[l].mesh + 1
      <3>1. \A k \in Meshes : k < at'[l].mesh => ~Wanted(k)
        BY <2>1, <2>2, <2>4 DEF Meshes
      <3> QED
        BY <1>2, <2>4, <3>1 DEF ScansOn, LeadsOn, Reading
    <2>5. CASE pc'[l] = "end"
      BY <2>5 DEF ScansOn, LeadsOn, Reading
    <2> QED
      BY <1>5, <2>3, <2>4, <2>5, Scanned
  <1>6. CASE AfterPass1(l) /\ pc[l] \in Reading
    BY <1>3, <1>6, FirstPass DEF LeadsOn, Reading
  <1>7. CASE AfterPass2(l) /\ pc[l] \in Reading
    <2>1. at[l].nframes = LeadFrames /\ at[l].frame <= LeadFrames /\ at[l].frame \in Nat
      BY <1>4, <1>7 DEF LeadsOn, At
    <2>2. CASE pc'[l] = "end"
      BY <2>2 DEF ScansOn, LeadsOn, Reading
    <2>3. CASE pc'[l] # "end"
      <3>1. pc'[l] \in Reading /\ at'[l].nframes = LeadFrames /\ at'[l].frame <= LeadFrames
        BY <1>2, <1>7, <2>1, <2>3, SecondPass DEF Reading
      <3> QED
        BY <1>3, <3>1
    <2> QED
      BY <2>2, <2>3
  <1>8. ASSUME pc[l] \in Reading, NEW p \in Reading, Goes(l, p, at[l])
        PROVE  ScansOn(l)' /\ LeadsOn(l)'
    <2>1. pc'[l] = p /\ at' = at
      BY <1>8, Shape DEF Goes
    <2> QED
      BY <1>3, <1>8, <2>1 DEF LeadsOn
  <1>9. CASE ReadsSmoke(l)
    BY <1>6, <1>8, <1>9 DEF ReadsSmoke, Reading
  <1>10. CASE ReadsFire(l) \/ \E q \in Quantities : Stores(l, q)
    BY <1>8, <1>10 DEF ReadsFire, Stores, Reading, Quantities
  <1>11. CASE PassesBy(l) \/ MarksReady(l)
    BY <1>6, <1>11 DEF PassesBy, MarksReady, Reading
  <1>12. CASE MarksLoaded(l)
    BY <1>7, <1>12 DEF MarksLoaded, Reading
  <1>13. CASE LoaderEnds(l)
    <2>1. target' # target
      BY <1>1, <1>13, Targets DEF LoaderEnds, Loading
    <2> QED
      BY <2>1
  <1> QED
    BY <1>5, <1>9, <1>10, <1>11, <1>12, <1>13 DEF Loader

\* What a step of a loader that goes on means for the frames that are to come.
LEMMA LoaderComes ==
  ASSUME Base, Turns, patient, Holds, NEW l \in Loaders, Loader(l), target' = target,
         ScansOn(l), LeadsOn(l), ReadyAreDue,
         NEW m \in Meshes, Wanted(m), Safe("smoke", m), NEW f \in 1 .. due[m]
  PROVE  f \in ready'[m] \/ Comes(l, m, f)' \/ (f \notin ready[m] /\ ~Comes(l, m, f))
  <1> SUFFICES ASSUME f \in ready[m] \/ Comes(l, m, f)
               PROVE  f \in ready'[m] \/ Comes(l, m, f)'
    OBVIOUS
  <1>0. /\ Loading /\ LeadFrames' = LeadFrames /\ LeadFrames \in Nat \ {0}
        /\ f \in Nat /\ f >= 1 /\ f <= NTimes[m] /\ at[l] \in At /\ NTimes[m] \in Nat
    <2>1. due[m] \in Nat /\ due[m] <= NTimes[m] /\ NTimes[m] \in Nat /\ at[l] \in At
      BY Shape DEF ReadyAreDue
    <2> QED
      BY <2>1, LoaderAlone, SameTarget, Lead
  <1>1. CASE Scans(l)
    <2>1. ready' = ready /\ pc[l] = "scan" /\ at[l].mesh \in Meshes
      BY <1>1 DEF Scans, frameVars, Base, LoaderOK
    <2>2. CASE pc'[l] = "pass1" /\ at'[l].mesh = 1 /\ at'[l].frame = 1
      BY <1>0, <2>1, <2>2 DEF Comes, Visited, Meshes
    <2>3. CASE pc'[l] = "scan"
      BY <1>0, <2>1, <2>3 DEF Comes, Reading
    <2>4. CASE ~Wanted(at[l].mesh) /\ at[l].mesh = LastMesh
      BY <2>1, <2>4 DEF ScansOn, Meshes
    <2> QED
      BY <1>1, <2>2, <2>3, <2>4, Scanned
  <1>2. ASSUME pc[l] \in Reading, NEW p \in Reading, Goes(l, p, at[l]), ready' = ready,
               pc[l] # "pass2", p # "pass2"
        PROVE  f \in ready'[m] \/ Comes(l, m, f)'
    <2>1. pc'[l] = p /\ at' = at
      BY <1>2, Shape DEF Goes
    <2> QED
      BY <1>0, <1>2, <2>1 DEF Comes, Visited, Reading
  <1>3. ASSUME pc[l] \in Reading, pc[l] # "pass2", AfterPass1(l), \A k \in ready[m] : k \in ready'[m],
               m # at[l].mesh \/ f # at[l].frame \/ f \in ready'[m]
        PROVE  f \in ready'[m] \/ Comes(l, m, f)'
    <2>1. CASE f \in ready[m]
      BY <1>3, <2>1
    <2>2. CASE Comes(l, m, f) /\ ~(f \in ready'[m])
      <3>1. ~Visited(l, m, f) /\ f <= LeadFrames
        BY <1>3, <2>2 DEF Comes
      <3>2. PICK a, b : a = at[l].mesh /\ b = at[l].frame
        OBVIOUS
      <3>3. ~Visited(l, m, f)'
        BY <1>0, <1>3, <2>2, <3>1, <3>2, FirstVisits
      <3>4. pc'[l] # "end"
        BY <1>3, FirstPass
      <3> QED
        BY <1>0, <3>1, <3>3, <3>4 DEF Comes
    <2> QED
      BY <2>1, <2>2
  <1>4. CASE ReadsSmoke(l)
    <2>0. pc[l] = "pass1" /\ ready' = ready
      BY <1>4 DEF ReadsSmoke
    <2>1. CASE <<"smoke", at[l].mesh>> \in MayLose /\ AfterPass1(l)
      BY <1>3, <2>0, <2>1 DEF Safe, Reading
    <2>2. CASE Goes(l, "smoke", at[l])
      BY <1>2, <2>0, <2>2 DEF Reading
    <2> QED
      BY <1>4, <2>1, <2>2 DEF ReadsSmoke
  <1>5. CASE PassesBy(l)
    <2>1. m # at[l].mesh \/ f # at[l].frame
      BY <1>0, <1>5 DEF PassesBy, At
    <2> QED
      BY <1>3, <1>5, <2>1 DEF PassesBy, frameVars, Reading
  <1>6. CASE ReadsFire(l) \/ \E q \in Quantities : Stores(l, q)
    BY <1>2, <1>6 DEF ReadsFire, Stores, Reading, Quantities
  <1>7. CASE MarksReady(l)
    <2>1. PICK a, b : a = at[l].mesh /\ b = at[l].frame
      OBVIOUS
    <2>2. ready'[a] = ready[a] \cup {b} /\ \A k \in Meshes : k # a => ready'[k] = ready[k]
      BY <1>7, <2>1, Readied
    <2> QED
      BY <1>3, <1>7, <2>1, <2>2 DEF MarksReady, Reading
  <1>8. CASE MarksLoaded(l)
    <2>1. ready' = ready /\ pc[l] = "pass2" /\ AfterPass2(l)
      BY <1>8 DEF MarksLoaded
    <2>2. CASE pc'[l] = "end" /\ at[l].frame >= at[l].nframes
      <3>1. at[l].nframes = LeadFrames
        BY <2>1 DEF LeadsOn, Reading
      <3>2. Comes(l, m, f) => FALSE
        BY <1>0, <2>1, <2>2, <3>1 DEF Comes, Visited, Reading, At
      <3> QED
        BY <2>1, <3>2
    <2>3. CASE pc'[l] \in {"pass1", "pass2"} /\ (Visited(l, m, f)' <=> Visited(l, m, f))
      BY <1>0, <2>1, <2>3 DEF Comes, Reading
    <2> QED
      BY <1>0, <2>1, <2>2, <2>3, SecondVisits
  <1>9. CASE LoaderEnds(l)
    <2>1. target' # target
      BY <1>0, <1>9, Targets DEF LoaderEnds, Loading
    <2> QED
      BY <2>1
  <1> QED
    BY <1>1, <1>4, <1>5, <1>6, <1>7, <1>8, <1>9 DEF Loader

\* A loader owes no frame when it ends.
LEMMA LoaderFilling ==
  ASSUME Base, Turns, patient, Holds, NEW l \in Loaders, Loader(l),
         ReadyAreDue, OthersAreFilled, LoadersFill
  PROVE  ReadyAreDue' /\ OthersAreFilled' /\ LoadersFill'
  <1>0. /\ Running = {l} /\ ui = Idle /\ ui' = Idle /\ Running' \subseteq {l}
        /\ due' = due /\ Loading
        /\ \/ target' = target /\ Running' = {l}
           \/ LoaderEnds(l) /\ Running' = {}
    BY LoaderAlone
  <1>1. ScansOn(l) /\ LeadsOn(l) /\ WantedAreDue /\ Fills(l)
    BY <1>0 DEF LoadersFill
  <1>2. ReadyAreDue' /\ \A k \in Meshes : ready[k] \subseteq ready'[k]
    <2>1. CASE MarksReady(l)
      <3>1. PICK m, f : m = at[l].mesh /\ f = at[l].frame
        OBVIOUS
      <3>2. /\ m \in Meshes /\ f \in Frames(m)
            /\ ready'[m] = ready[m] \cup {f}
            /\ \A k \in Meshes : k # m => ready'[k] = ready[k]
        BY <2>1, <3>1, Readied
      <3>3. pc[l] = "mark" /\ HasInHand(l, m, f)
        BY <1>0, <2>1, <3>1 DEF MarksReady, Holds, InHand
      <3>4. Wanted(m) /\ f <= LeadFrames
        BY <1>1, <3>1, <3>3 DEF HasInHand, LeadsOn, Reading
      <3>5. due[m] \in Nat /\ LeadFrames \in Nat /\ NTimes[m] \in Nat
        BY <1>0, <3>2, Shape, Lead
      <3>6. f \in 1 .. due[m]
        BY <1>1, <3>2, <3>4, <3>5 DEF WantedAreDue, Asked, Frames
      <3> QED
        BY <1>0, <3>2, <3>6 DEF ReadyAreDue
    <2>2. CASE ready' = ready
      BY <1>0, <2>2 DEF ReadyAreDue
    <2> QED
      BY <2>1, <2>2 DEF Loader, Scans, ReadsSmoke, PassesBy, ReadsFire, Stores, MarksLoaded,
                        LoaderEnds, frameVars
  <1>3. loaded' = loaded
    BY LoadedAlready DEF Loader, Scans, ReadsSmoke, PassesBy, ReadsFire, Stores, MarksReady, LoaderEnds
  <1>4. \A m \in Meshes : Filled(m) => Filled(m)'
    BY <1>0, <1>2 DEF Filled, Safe
  <1>5. \A m \in Meshes : ~Unloading(m)
    BY <1>0 DEF Unloading, Idle
  <1>6. loaded \subseteq Meshes
    BY Shape
  <1>7. CASE target' = target /\ Running' = {l}
    <2>1. OthersAreFilled'
      BY <1>0, <1>3, <1>4, <1>5, <1>6, <1>7, SameTarget DEF OthersAreFilled
    <2>2. ScansOn(l)' /\ LeadsOn(l)'
      BY <1>1, <1>7, LoaderLeads
    <2>3. WantedAreDue'
      BY <1>0, <1>1, <1>7, SameTarget DEF WantedAreDue
    <2>4. Fills(l)'
      <3> SUFFICES ASSUME NEW m \in Meshes, Wanted(m), Safe("smoke", m), NEW f \in 1 .. due[m]
                   PROVE  f \in ready'[m] \/ Comes(l, m, f)'
        BY <1>0, <1>7, SameTarget DEF Fills, Safe
      <3>1. f \in ready[m] \/ Comes(l, m, f)
        BY <1>1 DEF Fills
      <3> QED
        BY <1>1, <1>7, <3>1, LoaderComes
    <2> QED
      BY <1>2, <1>7, <2>1, <2>2, <2>3, <2>4 DEF LoadersFill
  <1>8. CASE LoaderEnds(l) /\ Running' = {}
    <2>1. \A m \in loaded : Filled(m)
      <3>1. \A m \in Meshes : Wanted(m) => Filled(m)
        BY <1>1, <1>8 DEF Fills, Comes, LoaderEnds, Filled
      <3> QED
        BY <1>0, <1>5, <1>6, <3>1 DEF OthersAreFilled
    <2>2. OthersAreFilled' /\ LoadersFill'
      BY <1>3, <1>4, <1>6, <1>8, <2>1 DEF OthersAreFilled, LoadersFill
    <2> QED
      BY <1>2, <2>2
  <1> QED
    BY <1>0, <1>7, <1>8

LEMMA FillingStep ==
  ASSUME Base, Turns, Data, Data', Filling, [Next]_vars
  PROVE  Filling'
  <1> SUFFICES ASSUME patient' PROVE ReadyAreDue' /\ OthersAreFilled' /\ LoadersFill'
    BY DEF Filling
  <1>0. patient /\ Holds /\ Holds' /\ ReadyAreDue /\ OthersAreFilled /\ LoadersFill
    BY PatientBefore DEF Filling, Data
  <1>1. ASSUME NEW t, NEW z, LoadVolSmoke3DMenu(t, z)
        PROVE  ReadyAreDue' /\ OthersAreFilled' /\ LoadersFill'
    <2>1. ui.doing = "idle" /\ Running = {}
      BY <1>0, <1>1, Targets DEF LoadVolSmoke3DMenu, MayLoad, Turns, Loading, Idle
    <2> QED
      BY <1>0, <1>1, <2>1, MenusFill DEF LoadVolSmoke3DMenu, frameVars, loaderVars
  <1>2. ASSUME UnloadMenus PROVE ReadyAreDue' /\ OthersAreFilled' /\ LoadersFill'
    <2>1. target = ReadNone
      BY <1>2, Zenon DEF UnloadMenus, UnLoadVolSmoke3DMenu
    <2>2. Running = {}
      BY <1>0, <2>1, Targets DEF Turns, Loading
    <2>3. PICK first, last : UnLoadVolSmoke3DMenu(first, last)
      BY <1>2 DEF UnloadMenus
    <2> QED
      BY <1>0, <2>2, <2>3, MenusFill DEF UnLoadVolSmoke3DMenu, frameVars, loaderVars, Idle
  <1>3. CASE UnloadTests
    BY <1>0, <1>3, MenusFill DEF UnloadTests, Turns, frameVars, loaderVars
  <1>4. CASE UnloadFrees
    <2>1. ui \in Doings /\ Running = {}
      BY <1>0, <1>4, Shape DEF UnloadFrees, Turns
    <2>2. ui.doing = "free" /\ ui'.doing = "clear" /\ ui'.mesh = ui.mesh
      BY <1>4, <2>1 DEF UnloadFrees, UIGoes, Doings
    <2> QED
      BY <1>0, <1>4, <2>1, <2>2, MenusFill DEF UnloadFrees, loaderVars
  <1>5. CASE UnloadClears
    <2>1. ui \in Doings /\ Running = {} /\ Running' = {}
      BY <1>0, <1>5, Shape, SameRunning DEF UnloadClears, Turns, loaderVars
    <2>2. /\ ui.doing = "clear" /\ ui'.doing = "free" /\ ui'.mesh = ui.mesh
          /\ loaded' = loaded /\ due' = due /\ ui.mesh \in Meshes
      BY <1>5, <2>1 DEF UnloadClears, UIGoes, Doings, Base, UIOK
    <2>3. \A m \in Meshes : ready'[m] \subseteq ready[m] /\ (m # ui.mesh => ready'[m] = ready[m])
      BY <1>5 DEF UnloadClears, Base, Shapes
    <2>4. ReadyAreDue'
      BY <1>0, <2>2, <2>3 DEF ReadyAreDue
    <2>5. OthersAreFilled'
      BY <1>0, <2>1, <2>2, <2>3, Shape DEF OthersAreFilled, Filled, Unloading
    <2> QED
      BY <2>1, <2>4, <2>5 DEF LoadersFill
  <1>6. CASE UnloadEnds
    <2>1. Running = {} /\ Running' = {} /\ ui.doing = "free"
      BY <1>0, <1>6, SameRunning DEF UnloadEnds, Turns, loaderVars
    <2>2. loaded' = loaded \ {ui.mesh} /\ ready' = ready /\ ui.mesh \in Meshes
      BY <1>6, <2>1 DEF UnloadEnds, frameVars, Base, UIOK
    <2>3. due'[ui.mesh] = 0 /\ \A m \in Meshes : m # ui.mesh => due'[m] = due[m]
      BY <1>6, <2>2, Shape DEF UnloadEnds
    <2>4. ready'[ui.mesh] = {}
      BY <1>0, <2>2 DEF Holds, UnloadedHaveNone
    <2>5. ReadyAreDue'
      BY <1>0, <2>2, <2>3, <2>4 DEF ReadyAreDue
    <2>6. OthersAreFilled'
      BY <1>0, <2>1, <2>2, <2>3, Shape DEF OthersAreFilled, Filled, Unloading
    <2> QED
      BY <2>1, <2>5, <2>6 DEF LoadersFill
  <1>7. ASSUME UNCHANGED <<target, loaded, ready, due, ui, pc, at>>
        PROVE  ReadyAreDue' /\ OthersAreFilled' /\ LoadersFill'
    <2>1. Running' = Running
      BY <1>7, SameRunning
    <2>2. ReadyAreDue'
      BY <1>0, <1>7 DEF ReadyAreDue
    <2>3. OthersAreFilled'
      BY <1>0, <1>7, <2>1 DEF OthersAreFilled, Filled, Unloading, Wanted
    <2>4. LoadersFill'
      BY <1>0, <1>7, <2>1 DEF LoadersFill, ScansOn, LeadsOn, WantedAreDue, Fills, Comes, Visited,
                              Wanted, Asked, LeadFrames
    <2> QED
      BY <2>2, <2>3, <2>4
  <1>8. ASSUME NEW t, UpdateFrameNumber(t) PROVE ReadyAreDue' /\ OthersAreFilled' /\ LoadersFill'
    BY <1>7, <1>8 DEF UpdateFrameNumber, loaderVars, userVars
  <1>9. CASE UNCHANGED vars
    BY <1>7, <1>9 DEF vars
  <1> QED
    BY <1>0, <1>1, <1>2, <1>3, <1>4, <1>5, <1>6, <1>8, <1>9, Steps, StartFills, LoaderFilling

\* A loader reads as many frames as the first wanted mesh has (IOvolsmoke.c:2060-2079):
\* once a load is over in a patient session, every loaded mesh whose smoke file can be
\* opened has all the frames asked for and no more.
THEOREM LoadedAlwaysWhole == Spec => []LoadedIsWhole
  <1>1. Init => Base /\ Turns /\ Data /\ Filling
    BY BaseInit, TurnsInit, DataInit, FillingInit
  <1>2. Base /\ Turns /\ Data /\ Filling /\ [Next]_vars => (Base /\ Turns /\ Data /\ Filling)'
    BY BaseStep, TurnsStep, DataStep, FillingStep
  <1>3. Base /\ Turns /\ Filling => LoadedIsWhole
    <2> SUFFICES ASSUME Base, Turns, Filling, patient, AtRest, NEW m \in loaded, Safe("smoke", m)
                 PROVE  ready[m] = 1 .. due[m]
      BY DEF LoadedIsWhole, Safe
    <2>0. m \in Meshes
      BY Shape
    <2>1. Running = {} /\ ~Unloading(m)
      BY Targets DEF AtRest, Turns, Loading, Unloading, Idle
    <2> QED
      BY <2>0, <2>1 DEF Filling, OthersAreFilled, ReadyAreDue, Filled
  <1> QED
    BY <1>1, <1>2, <1>3, PTL DEF Spec

-----------------------------------------------------------------------------
(* Patient sessions: the frames of a mesh have its form.                   *)

\* A loader leaves the meshes alone that are not wanted.
LEMMA LoaderTouches ==
  ASSUME Base, Turns, patient, Holds, NEW l \in Loaders, Loader(l), NEW k \in Meshes, ~Wanted(k)
  PROVE  /\ form'[k] = form[k] /\ ready'[k] = ready[k]
         /\ \A q \in Quantities : /\ drawn'[q][k] = drawn[q][k]
                                  /\ \A f \in Frames(k) : entry'[q][k][f] = entry[q][k][f]
  <1> DEFINE Same == /\ form'[k] = form[k] /\ ready'[k] = ready[k]
         /\ \A q \in Quantities : /\ drawn'[q][k] = drawn[q][k]
                                  /\ \A f \in Frames(k) : entry'[q][k][f] = entry[q][k][f]
  <1>0. HasInHand(l, at[l].mesh, at[l].frame)
    BY LoaderAlone DEF Holds, InHand
  <1>1. CASE Scans(l) \/ PassesBy(l) \/ ReadsFire(l) \/ LoaderEnds(l)
    BY <1>1 DEF Scans, PassesBy, ReadsFire, LoaderEnds, frameVars
  <1>2. CASE ReadsSmoke(l)
    <2>1. Wanted(at[l].mesh) /\ form' = [form EXCEPT ![at[l].mesh] = zip]
          /\ ready' = ready /\ drawn' = drawn /\ entry' = entry
      BY <1>2 DEF ReadsSmoke
    <2>2. k # at[l].mesh
      BY <2>1
    <2> QED
      BY <2>1, <2>2, Shape
  <1>3. ASSUME NEW q \in Quantities, Stores(l, q) PROVE Same
    <2>1. PICK m, f, b : m = at[l].mesh /\ f = at[l].frame /\ b = Block(l, q)
      OBVIOUS
    <2>2. Wanted(m)
      BY <1>3, <2>1, BlockIs
    <2>3. k # m
      BY <2>2
    <2>4. /\ \A r \in Quantities : \A g \in Frames(k) : entry'[r][k][g] = entry[r][k][g]
          /\ \A r \in Quantities : drawn'[r][k] = drawn[r][k]
      BY <1>3, <2>1, <2>3, Stored
    <2> QED
      BY <1>3, <2>4 DEF Stores
  <1>4. CASE MarksReady(l)
    <2>1. PICK m, f : m = at[l].mesh /\ f = at[l].frame
      OBVIOUS
    <2>2. Wanted(m)
      BY <1>0, <1>4, <2>1 DEF MarksReady, HasInHand
    <2>3. k # m
      BY <2>2
    <2>4. ready'[k] = ready[k]
      BY <1>4, <2>1, <2>3, Readied
    <2> QED
      BY <1>4, <2>4 DEF MarksReady
  <1>5. CASE MarksLoaded(l)
    <2>1. PICK m : m = at[l].mesh
      OBVIOUS
    <2>2. \A q \in Quantities : drawn'[q][k] = drawn[q][k]
      <3>1. ~(k = m /\ Wanted(m))
        OBVIOUS
      <3> QED
        BY <1>5, <2>1, <3>1, Marked
    <2> QED
      BY <1>5, <2>2 DEF MarksLoaded
  <1> QED
    BY <1>1, <1>2, <1>3, <1>4, <1>5 DEF Loader

\* The frames that each load of mesh m reads have its form.
Agrees(m) ==
    \A q \in Quantities : Safe("smoke", m) /\ Safe(q, m) =>
        \A f \in ready[m] : f <= NTimes[1] => entry[q][m][f].kind = Kind(form[m])

\* Of a wanted mesh the frames that the loader has been through have the new form.
Formed(l) ==
    \A m \in Meshes, q \in Quantities : Wanted(m) /\ Safe("smoke", m) /\ Safe(q, m) =>
        \A f \in Frames(m) : Visited(l, m, f) =>
            form[m] = zip /\ entry[q][m][f].kind = Kind(zip)

LoaderForms(l) ==
    /\ pc[l] \in Reading => Formed(l)
    /\ pc[l] = "end" => \A m \in Meshes : Wanted(m) => Agrees(m)

OthersAgree ==
    \A m \in Meshes : Agrees(m) \/ (Running # {} /\ Wanted(m)) \/ Unloading(m)

LoadersForm == \A l \in Running : LoaderForms(l)

Forms == patient => OthersAgree /\ LoadersForm

LEMMA FormsInit == Init => Forms
  BY DEF Init, Forms, OthersAgree, LoadersForm, Running, Agrees

\* Steps of the interface that change no data.
LEMMA MenusForm ==
  ASSUME Base, OthersAgree, Running = {}, ui.doing \notin {"free", "clear"},
         UNCHANGED <<form, entry, ready>>,
         \A l \in Running' : pc'[l] = "scan"
  PROVE  OthersAgree' /\ LoadersForm'
  <1>1. \A m \in Meshes : Agrees(m)
    BY DEF OthersAgree, Unloading
  <1>2. \A m \in Meshes : Agrees(m)'
    BY <1>1 DEF Agrees, Safe
  <1> QED
    BY <1>2 DEF OthersAgree, LoadersForm, LoaderForms, Reading

\* Steps of an unload.
LEMMA UnloadForms ==
  ASSUME Base, Turns, patient, Holds', OthersAgree, UnloadFrees \/ UnloadClears \/ UnloadEnds
  PROVE  OthersAgree' /\ LoadersForm'
  <1>1. Running = {} /\ Running' = {} /\ ui \in Doings /\ ui.mesh \in Meshes
    BY SameRunning, Shape DEF UnloadFrees, UnloadClears, UnloadEnds, Turns, loaderVars, Base, UIOK
  <1>2. \A m \in Meshes : m # ui.mesh => Agrees(m)
    BY <1>1 DEF OthersAgree, Unloading
  <1>3. \A m \in Meshes : m # ui.mesh =>
           /\ form'[m] = form[m] /\ ready'[m] \subseteq ready[m]
           /\ \A q \in Quantities : \A f \in Frames(m) : entry'[q][m][f] = entry[q][m][f]
    <2>1. CASE UnloadFrees
      BY <2>1, Freed DEF UnloadFrees
    <2>2. CASE UnloadClears
      BY <2>2 DEF UnloadClears, Base, Shapes
    <2>3. CASE UnloadEnds
      BY <2>3 DEF UnloadEnds, frameVars
    <2> QED
      BY <2>1, <2>2, <2>3
  <1>4. \A m \in Meshes : ready[m] \subseteq Frames(m)
    BY Shape
  <1>5. \A m \in Meshes : m # ui.mesh => Agrees(m)'
    <2> SUFFICES ASSUME NEW m \in Meshes, m # ui.mesh, NEW q \in Quantities,
                        Safe("smoke", m), Safe(q, m), NEW f \in ready'[m], f <= NTimes[1]
                 PROVE  entry'[q][m][f].kind = Kind(form'[m])
      BY DEF Agrees, Safe, Kind
    <2>1. f \in ready[m] /\ f \in Frames(m) /\ entry'[q][m][f] = entry[q][m][f] /\ form'[m] = form[m]
      BY <1>3, <1>4
    <2>2. entry[q][m][f].kind = Kind(form[m])
      BY <1>2, <2>1 DEF Agrees
    <2> QED
      BY <2>1, <2>2
  <1>6. ASSUME NEW m \in Meshes, m = ui.mesh PROVE Agrees(m)' \/ Unloading(m)'
    <2>1. CASE UnloadFrees \/ UnloadClears
      <3>1. ui'.doing \in {"free", "clear"} /\ ui'.mesh = ui.mesh
        <4>1. ui \in Doings
          BY <1>1
        <4>2. CASE UnloadFrees
          BY <4>1, <4>2 DEF UnloadFrees, UIGoes, Doings
        <4>3. CASE UnloadClears
          BY <4>1, <4>3 DEF UnloadClears, UIGoes, Doings
        <4> QED
          BY <2>1, <4>2, <4>3
      <3> QED
        BY <1>6, <3>1 DEF Unloading
    <2>2. CASE UnloadEnds
      <3>1. m \notin loaded'
        BY <1>6, <2>2 DEF UnloadEnds
      <3>2. ready'[m] = {}
        BY <3>1 DEF Holds, UnloadedHaveNone
      <3> QED
        BY <3>2 DEF Agrees
    <2> QED
      BY <2>1, <2>2
  <1> QED
    BY <1>1, <1>5, <1>6 DEF OthersAgree, LoadersForm

\* What the step of a loader that goes on does to the form of a wanted mesh.
LEMMA LoaderKeepsFormed ==
  ASSUME Base, Turns, patient, Holds, NEW l \in Loaders, Loader(l), target' = target,
         ScansOn(l), LeadsOn(l), LoaderForms(l), pc'[l] \in Reading
  PROVE  Formed(l)'
  <1> SUFFICES ASSUME NEW m \in Meshes, NEW q \in Quantities, Wanted(m), Safe("smoke", m), Safe(q, m),
                      NEW f \in Frames(m), Visited(l, m, f)'
               PROVE  form'[m] = zip /\ entry'[q][m][f].kind = Kind(zip)
    BY LoaderAlone, SameTarget DEF Formed, Safe, Kind
  <1>0. Loading /\ f \in Nat /\ f >= 1 /\ f <= NTimes[m] /\ at[l] \in At /\ Running = {l}
    BY Shape, LoaderAlone DEF Frames
  <1>h. HasInHand(l, at[l].mesh, at[l].frame)
    BY <1>0 DEF Holds, InHand
  <1>f. ASSUME pc[l] \in Reading, Visited(l, m, f)
        PROVE  form[m] = zip /\ entry[q][m][f].kind = Kind(zip)
    BY <1>f DEF LoaderForms, Formed
  <1>1. CASE Scans(l)
    <2>1. at'[l].frame = 1 /\ at'[l].mesh = 1 /\ pc'[l] = "pass1"
      BY <1>1, Scanned DEF Reading
    <2> QED
      BY <1>0, <2>1 DEF Visited, Meshes
  <1>2. ASSUME pc[l] \in Reading, pc[l] # "pass2", AfterPass1(l), m # at[l].mesh \/ f # at[l].frame
        PROVE  Visited(l, m, f)
    BY <1>0, <1>2, FirstVisits
  <1>3. ASSUME pc[l] \in Reading, pc[l] # "pass2", NEW p, p # "pass2", Goes(l, p, at[l])
        PROVE  Visited(l, m, f)
    <2>1. pc'[l] = p /\ at' = at
      BY <1>3, Shape DEF Goes
    <2> QED
      BY <1>3, <2>1 DEF Visited
  <1>4. CASE ReadsSmoke(l)
    <2>1. pc[l] = "pass1" /\ entry' = entry /\ form' = [form EXCEPT ![at[l].mesh] = zip]
      BY <1>4 DEF ReadsSmoke
    <2>2. Visited(l, m, f)
      <3>1. CASE <<"smoke", at[l].mesh>> \in MayLose /\ AfterPass1(l)
        BY <1>2, <2>1, <3>1 DEF Safe, Reading
      <3>2. CASE Goes(l, "smoke", at[l])
        BY <1>3, <2>1, <3>2 DEF Reading
      <3> QED
        BY <1>4, <3>1, <3>2 DEF ReadsSmoke
    <2>3. form[m] = zip /\ entry[q][m][f].kind = Kind(zip)
      BY <1>f, <2>1, <2>2 DEF Reading
    <2> QED
      BY <2>1, <2>3, Shape
  <1>5. CASE PassesBy(l)
    <2>1. m # at[l].mesh \/ f # at[l].frame
      BY <1>0, <1>5 DEF PassesBy, At
    <2>2. Visited(l, m, f)
      BY <1>2, <1>5, <2>1 DEF PassesBy, Reading
    <2> QED
      BY <1>5, <1>f, <2>2 DEF PassesBy, Reading, frameVars
  <1>6. CASE ReadsFire(l)
    BY <1>3, <1>6, <1>f DEF ReadsFire, Reading
  <1>7. ASSUME NEW r \in Quantities, Stores(l, r)
        PROVE  form'[m] = zip /\ entry'[q][m][f].kind = Kind(zip)
    <2>1. PICK a, c, b : a = at[l].mesh /\ c = at[l].frame /\ b = Block(l, r)
      OBVIOUS
    <2>2. b = [kind |-> Kind(zip), frame |-> c]
      BY <1>7, <2>1, BlockIs
    <2>3. /\ entry'[r][a][c] = b
          /\ \A s \in Quantities, k \in Meshes : \A g \in Frames(k) :
               entry'[s][k][g] = entry[s][k][g] \/ (s = r /\ k = a /\ g = c)
      BY <1>7, <2>1, Stored
    <2>4. pc[l] \in Reading /\ pc[l] # "pass2" /\ form' = form
      BY <1>7 DEF Stores, Quantities, Reading
    <2>5. Visited(l, m, f)
      BY <1>3, <1>7, <2>4 DEF Stores
    <2>6. form[m] = zip /\ entry[q][m][f].kind = Kind(zip)
      BY <1>f, <2>4, <2>5
    <2>7. b.kind = Kind(zip)
      BY <2>2
    <2>8. entry'[q][m][f] = entry[q][m][f] \/ (q = r /\ m = a /\ f = c)
      BY <2>3
    <2>9. CASE q = r /\ m = a /\ f = c
      BY <2>3, <2>4, <2>6, <2>7, <2>9
    <2> QED
      BY <2>4, <2>6, <2>8, <2>9
  <1>8. CASE MarksReady(l)
    <2>1. PICK a, c : a = at[l].mesh /\ c = at[l].frame
      OBVIOUS
    <2>2. pc[l] = "mark" /\ entry' = entry /\ form' = form /\ AfterPass1(l)
      BY <1>8 DEF MarksReady
    <2>3. CASE m = a /\ f = c
      <3>1. form[a] = zip /\ Got("smoke", a, c) /\ (Safe("fire", a) => Got("fire", a, c))
        BY <1>h, <2>1, <2>2 DEF HasInHand
      <3>2. Got(q, m, f)
        BY <2>3, <3>1 DEF Quantities
      <3> QED
        BY <2>2, <2>3, <3>1, <3>2 DEF Got
    <2>4. CASE ~(m = a /\ f = c)
      <3>1. Visited(l, m, f)
        BY <1>2, <2>1, <2>2, <2>4 DEF Reading
      <3> QED
        BY <1>f, <2>2, <3>1 DEF Reading
    <2> QED
      BY <2>3, <2>4
  <1>9. CASE MarksLoaded(l)
    <2>1. pc[l] = "pass2" /\ entry' = entry /\ form' = form /\ AfterPass2(l)
      BY <1>9 DEF MarksLoaded
    <2>2. Visited(l, m, f)
      BY <1>0, <2>1, SecondVisits DEF Reading
    <2> QED
      BY <1>f, <2>1, <2>2 DEF Reading
  <1>10. CASE LoaderEnds(l)
    <2>1. target' # target
      BY <1>0, <1>10, Targets DEF LoaderEnds, Loading
    <2> QED
      BY <2>1
  <1> QED
    BY <1>1, <1>4, <1>5, <1>6, <1>7, <1>8, <1>9, <1>10 DEF Loader

\* When it has been through all frames, the wanted meshes have the new form.
LEMMA LoaderAgrees ==
  ASSUME Base, Turns, patient, Holds, NEW l \in Loaders, Loader(l), target' = target,
         ScansOn(l), LeadsOn(l), LoaderForms(l), pc'[l] = "end"
  PROVE  \A m \in Meshes : Wanted(m) => Agrees(m)'
  <1> SUFFICES ASSUME NEW m \in Meshes, Wanted(m) PROVE Agrees(m)'
    OBVIOUS
  <1>0. Loading /\ at[l] \in At
    BY Shape, LoaderAlone
  <1>1. CASE Scans(l)
    <2>1. pc[l] = "scan" /\ at[l].mesh = LastMesh /\ ~Wanted(LastMesh)
      BY <1>1, Scanned DEF Scans
    <2>2. FALSE
      BY <2>1 DEF ScansOn, Meshes
    <2> QED
      BY <2>2
  <1>2. CASE MarksLoaded(l)
    <2>1. pc[l] = "pass2" /\ entry' = entry /\ form' = form /\ ready' = ready /\ AfterPass2(l)
      BY <1>2 DEF MarksLoaded
    <2>2. at[l].frame >= LeadFrames /\ Formed(l)
      BY <2>1, SecondVisits DEF LeadsOn, LoaderForms, Reading
    <2>3. LeadFrames \in Nat /\ at[l].frame \in Nat
      BY <1>0, Lead DEF At
    <2> SUFFICES ASSUME NEW q \in Quantities, Safe("smoke", m), Safe(q, m),
                        NEW f \in ready[m], f <= NTimes[1]
                 PROVE  entry[q][m][f].kind = Kind(form[m])
      BY <2>1 DEF Agrees, Safe, Kind
    <2>4. f \in Frames(m) /\ f \in Nat /\ f <= NTimes[m]
      BY Shape DEF Frames
    <2>5. f <= LeadFrames
      BY <2>4 DEF LeadFrames, Wanted
    <2>6. Visited(l, m, f)
      BY <2>1, <2>2, <2>3, <2>4, <2>5 DEF Visited
    <2>7. form[m] = zip /\ entry[q][m][f].kind = Kind(zip)
      BY <2>2, <2>4, <2>6 DEF Formed
    <2> QED
      BY <2>7
  <1>3. CASE ~Scans(l) /\ ~MarksLoaded(l)
    <2>1. pc \in [Loaders -> Places]
      BY Shape
    <2>2. CASE AfterPass1(l) /\ pc[l] \in Reading
      BY <2>2, FirstPass
    <2>3. CASE ~(AfterPass1(l) /\ pc[l] \in Reading)
      BY <1>3, <2>1, <2>3
         DEF Loader, ReadsSmoke, PassesBy, ReadsFire, Stores, MarksReady, LoaderEnds, Goes, Reading
    <2> QED
      BY <2>2, <2>3
  <1> QED
    BY <1>1, <1>2, <1>3

\* A loader makes the forms of the wanted meshes agree by the time it ends.
LEMMA LoaderKeepsForms ==
  ASSUME Base, Turns, patient, Holds, NEW l \in Loaders, Loader(l),
         LoadersFill, OthersAgree, LoadersForm
  PROVE  OthersAgree' /\ LoadersForm'
  <1>0. /\ Running = {l} /\ ui = Idle /\ ui' = Idle
        /\ \/ target' = target /\ Running' = {l}
           \/ LoaderEnds(l) /\ Running' = {}
    BY LoaderAlone
  <1>1. ScansOn(l) /\ LeadsOn(l) /\ LoaderForms(l)
    BY <1>0 DEF LoadersFill, LoadersForm
  <1>2. \A m \in Meshes : ~Wanted(m) => Agrees(m)
    BY <1>0 DEF OthersAgree, Unloading, Idle
  <1>3. \A m \in Meshes : ~Wanted(m) => Agrees(m)'
    <2> SUFFICES ASSUME NEW m \in Meshes, ~Wanted(m), NEW q \in Quantities,
                        Safe("smoke", m), Safe(q, m), NEW f \in ready'[m], f <= NTimes[1]
                 PROVE  entry'[q][m][f].kind = Kind(form'[m])
      BY DEF Agrees, Safe, Kind
    <2>1. /\ form'[m] = form[m] /\ ready'[m] = ready[m]
          /\ \A g \in Frames(m) : entry'[q][m][g] = entry[q][m][g]
      BY LoaderTouches
    <2>2. f \in Frames(m)
      BY <2>1, Shape
    <2>3. entry[q][m][f].kind = Kind(form[m])
      BY <1>2, <2>1 DEF Agrees
    <2> QED
      BY <2>1, <2>2, <2>3
  <1>4. CASE target' = target /\ Running' = {l}
    <2>1. OthersAgree'
      BY <1>3, <1>4, SameTarget DEF OthersAgree
    <2>2. pc'[l] \in Reading => Formed(l)'
      BY <1>1, <1>4, LoaderKeepsFormed
    <2>3. pc'[l] = "end" => \A m \in Meshes : Wanted(m)' => Agrees(m)'
      BY <1>1, <1>4, LoaderAgrees, SameTarget
    <2> QED
      BY <1>4, <2>1, <2>2, <2>3 DEF LoadersForm, LoaderForms
  <1>5. CASE LoaderEnds(l) /\ Running' = {}
    <2>1. entry' = entry /\ form' = form /\ ready' = ready /\ pc[l] = "end"
      BY <1>5 DEF LoaderEnds, frameVars
    <2>2. \A m \in Meshes : Agrees(m)
      BY <1>1, <1>2, <2>1 DEF LoaderForms
    <2>3. \A m \in Meshes : Agrees(m)'
      BY <2>1, <2>2 DEF Agrees, Safe
    <2> QED
      BY <1>5, <2>3 DEF OthersAgree, LoadersForm
  <1> QED
    BY <1>0, <1>4, <1>5

LEMMA FormsStep ==
  ASSUME Base, Turns, Data, Data', Filling, Forms, [Next]_vars
  PROVE  Forms'
  <1> SUFFICES ASSUME patient' PROVE OthersAgree' /\ LoadersForm'
    BY DEF Forms
  <1>0. patient /\ Holds /\ Holds' /\ LoadersFill /\ OthersAgree /\ LoadersForm
    BY PatientBefore DEF Filling, Data, Forms
  <1>1. ASSUME NEW t, NEW z, LoadVolSmoke3DMenu(t, z) PROVE OthersAgree' /\ LoadersForm'
    <2>1. ui.doing = "idle" /\ Running = {} /\ Running' = {}
      BY <1>0, <1>1, Targets, SameRunning
         DEF LoadVolSmoke3DMenu, MayLoad, Turns, Loading, Idle, loaderVars
    <2> QED
      BY <1>0, <1>1, <2>1, MenusForm DEF LoadVolSmoke3DMenu, frameVars
  <1>2. CASE StartLoader
    <2>1. Running = {} /\ ui.doing = "load"
      BY <1>0, <1>2 DEF StartLoader, Turns
    <2>2. pc \in [Loaders -> Places] /\ pc' = [pc EXCEPT ![loads + 1] = "scan"]
      BY <1>2, Shape DEF StartLoader
    <2>3. \A l \in Running' : pc'[l] = "scan"
      BY <2>1, <2>2 DEF Running
    <2> QED
      BY <1>0, <1>2, <2>1, <2>3, MenusForm DEF StartLoader, frameVars
  <1>3. CASE UnloadMenus
    <2>1. target = ReadNone
      BY <1>3, Zenon DEF UnloadMenus, UnLoadVolSmoke3DMenu
    <2>2. Running = {}
      BY <1>0, <2>1, Targets DEF Turns, Loading
    <2>3. PICK first, last : UnLoadVolSmoke3DMenu(first, last)
      BY <1>3 DEF UnloadMenus
    <2>4. Running' = {} /\ ui.doing = "idle"
      BY <2>2, <2>3, SameRunning DEF UnLoadVolSmoke3DMenu, loaderVars, Idle
    <2> QED
      BY <1>0, <2>2, <2>3, <2>4, MenusForm DEF UnLoadVolSmoke3DMenu, frameVars
  <1>4. CASE UnloadTests
    <2>1. Running = {} /\ Running' = {} /\ ui.doing = "test"
      BY <1>0, <1>4, SameRunning DEF UnloadTests, Turns, loaderVars
    <2> QED
      BY <1>0, <1>4, <2>1, MenusForm DEF UnloadTests, frameVars
  <1>5. ASSUME UNCHANGED <<target, zip, form, entry, ready, pc, at, ui>>
        PROVE  OthersAgree' /\ LoadersForm'
    <2>1. Running' = Running
      BY <1>5, SameRunning
    <2>2. OthersAgree'
      BY <1>0, <1>5, <2>1 DEF OthersAgree, Agrees, Safe, Kind, Unloading, Wanted
    <2>3. LoadersForm'
      BY <1>0, <1>5, <2>1 DEF LoadersForm, LoaderForms, Formed, Agrees, Safe, Kind, Visited, Wanted
    <2> QED
      BY <2>2, <2>3
  <1>6. ASSUME NEW t, UpdateFrameNumber(t) PROVE OthersAgree' /\ LoadersForm'
    BY <1>5, <1>6 DEF UpdateFrameNumber, loaderVars, userVars
  <1>7. CASE UNCHANGED vars
    BY <1>5, <1>7 DEF vars
  <1> QED
    BY <1>0, <1>1, <1>2, <1>3, <1>4, <1>6, <1>7, Steps, UnloadForms, LoaderKeepsForms

\* Update_Framenumber trusts dataready and is_compressed (update.c:58-98): in a patient
\* session, between two callbacks, every frame that can be shown has its own data, fire
\* data lost with their file excepted, also while a loader runs; and when the load is
\* over, the frames that it has read have the form of their mesh.
THEOREM ShownAlwaysRight == Spec => []ShownIsRight
  <1>1. Init => Base /\ Turns /\ Data /\ Filling /\ Forms
    BY BaseInit, TurnsInit, DataInit, FillingInit, FormsInit
  <1>2. Base /\ Turns /\ Data /\ Filling /\ Forms /\ [Next]_vars
          => (Base /\ Turns /\ Data /\ Filling /\ Forms)'
    BY BaseStep, TurnsStep, DataStep, FillingStep, FormsStep
  <1>3. Base /\ Turns /\ Data /\ Forms => ShownIsRight
    <2> SUFFICES ASSUME Base, Turns, Data, Forms, patient, ui = Idle
                 PROVE  FramesHaveData /\ (target = ReadNone => FormsAgree)
      BY DEF ShownIsRight
    <2>1. FramesHaveData
      BY DataMeansFrames
    <2>2. ASSUME target = ReadNone PROVE FormsAgree
      <3>1. \A m \in Meshes : Agrees(m)
        BY <2>2, Targets DEF Forms, OthersAgree, Turns, Loading, Unloading, Idle
      <3> SUFFICES ASSUME NEW m \in loaded, NEW q \in Quantities,
                          {"smoke", q} \X {m} \subseteq (Quantities \X Meshes) \ MayLose,
                          NEW f \in ready[m], f <= NTimes[1]
                   PROVE  entry[q][m][f].kind = IF form[m] THEN "zip" ELSE "raw"
        BY DEF FormsAgree
      <3>2. Safe("smoke", m) /\ Safe(q, m) /\ m \in Meshes
        BY Shape DEF Safe
      <3> QED
        BY <3>1, <3>2 DEF Agrees, Kind
    <2> QED
      BY <2>1, <2>2
  <1> QED
    BY <1>1, <1>2, <1>3, PTL DEF Spec

-----------------------------------------------------------------------------
(* Patient sessions: what is drawn exists.                                 *)

\* Loader l has set what is drawn of mesh m in the second loop.
Reset(l, m) ==
    \/ pc[l] = "end"
    \/ pc[l] \in Reading /\ at[l].frame > 1
    \/ pc[l] = "pass2" /\ m < at[l].mesh

\* Of the mesh in hand what has been stored is drawn.
DrawsHand(l) ==
    \A m \in Meshes : m = at[l].mesh =>
        /\ pc[l] \in {"open", "fire", "mark"} => Live("smoke", m)
        /\ pc[l] = "mark" /\ Safe("fire", m) => Live("fire", m)

Draws(l) ==
    \A m \in Meshes, q \in Quantities :
        Wanted(m) /\ (Reset(l, m) \/ (Safe(q, m) /\ ready[m] # {})) => Live(q, m)

OthersLive ==
    \A m \in loaded : (\A q \in Quantities : Live(q, m))
                      \/ (Running # {} /\ Wanted(m)) \/ Unloading(m)

LoadersDraw == \A l \in Running : Draws(l) /\ DrawsHand(l)

Drawing == patient => OthersLive /\ LoadersDraw

LEMMA DrawingInit == Init => Drawing
  BY DEF Init, Drawing, OthersLive, LoadersDraw, Running

\* A frame that has its entry is live, and so is one without.
LEMMA EntryLive ==
  ASSUME Base, Holds, NEW q \in Quantities, NEW m \in Meshes, NEW f \in Frames(m),
         drawn'[q][m] \in {View, entry[q][m][f]}, entry'[q][m][f] = entry[q][m][f]
  PROVE  Live(q, m)'
  <1>1. CASE drawn'[q][m] = View
    BY <1>1 DEF Live
  <1>2. CASE drawn'[q][m] = Null
    BY <1>2 DEF Live
  <1>3. CASE drawn'[q][m] = entry[q][m][f] /\ entry[q][m][f] # Null
    <2>1. Whole(q, m, f)
      BY <1>3 DEF Holds, EntriesOwn
    <2>2. entry[q][m][f].kind \in {"raw", "zip"} /\ entry[q][m][f].frame = f
      BY <2>1 DEF Whole
    <2> QED
      BY <1>3, <2>2 DEF Live
  <1> QED
    BY <1>1, <1>2, <1>3

\* What is drawn stays live if no entry is freed.
LEMMA LiveStays ==
  ASSUME NEW q \in Quantities, NEW m \in Meshes, Live(q, m), drawn'[q][m] = drawn[q][m],
         \A f \in Frames(m) : entry[q][m][f] # Null => entry'[q][m][f] # Null
  PROVE  Live(q, m)'
  BY DEF Live, Frames

\* Update_Framenumber sets what is drawn to an array of its own or a frame with dataready.
LEMMA UpdateKeepsLive ==
  ASSUME Base, Holds, NEW t, UpdateFrameNumber(t), NEW q \in Quantities, NEW m \in Meshes, Live(q, m)
  PROVE  Live(q, m)'
  <1>1. entry' = entry
    BY DEF UpdateFrameNumber
  <1>2. CASE drawn'[q][m] = drawn[q][m]
    BY <1>1, <1>2, LiveStays
  <1>3. CASE drawn'[q][m] = View
    BY <1>3 DEF Live
  <1>4. ASSUME NEW f \in ready[m], drawn'[q][m] = entry[q][m][f] PROVE Live(q, m)'
    BY <1>1, <1>4, Shape, EntryLive
  <1> QED
    BY <1>2, <1>3, <1>4, Redrawn

\* What a loader stores is live.
LEMMA StoresLive ==
  ASSUME Base, Turns, patient, Holds, NEW l \in Loaders, NEW q \in Quantities, Stores(l, q),
         NEW m, m = at[l].mesh
  PROVE  m \in Meshes /\ Live(q, m)'
  <1>1. PICK f, b : f = at[l].frame /\ b = Block(l, q)
    OBVIOUS
  <1>2. b = [kind |-> Kind(zip), frame |-> f]
    BY <1>1, BlockIs
  <1>3. m \in Meshes /\ f \in Frames(m) /\ entry'[q][m][f] = b /\ drawn'[q][m] = b
    BY <1>1, Stored
  <1>4. b.kind \in {"raw", "zip"} /\ b.frame = f /\ b # Null
    BY <1>2 DEF Kind, Null
  <1> QED
    BY <1>3, <1>4 DEF Live

\* The second loop makes what is drawn of a mesh live, after the first frame.
LEMMA MarksLive ==
  ASSUME Base, Holds, NEW l \in Loaders, MarksLoaded(l), NEW m, m = at[l].mesh,
         Wanted(m), at[l].frame = 1, NEW q \in Quantities
  PROVE  Live(q, m)'
  <1>1. m \in Meshes /\ drawn'[q][m] = (IF form[m] THEN View ELSE entry[q][m][1])
    BY Marked
  <1>2. 1 \in Frames(m) /\ entry' = entry
    BY <1>1 DEF Frames, MarksLoaded
  <1> QED
    BY <1>1, <1>2, EntryLive

\* A loader frees nothing.
LEMMA LoaderKeepsLive ==
  ASSUME Base, Turns, patient, Holds, NEW l \in Loaders, Loader(l),
         NEW q \in Quantities, NEW m \in Meshes, Live(q, m)
  PROVE  Live(q, m)'
  <1>1. CASE Scans(l) \/ ReadsSmoke(l) \/ PassesBy(l) \/ ReadsFire(l) \/ MarksReady(l) \/ LoaderEnds(l)
    <2>1. entry' = entry /\ drawn' = drawn
      BY <1>1 DEF Scans, ReadsSmoke, PassesBy, ReadsFire, MarksReady, LoaderEnds, frameVars
    <2> QED
      BY <2>1, LiveStays
  <1>2. ASSUME NEW r \in Quantities, Stores(l, r) PROVE Live(q, m)'
    <2>1. PICK a, f, b : a = at[l].mesh /\ f = at[l].frame /\ b = Block(l, r)
      OBVIOUS
    <2>2. b # Null
      BY <1>2, <2>1, BlockIs DEF Kind, Null
    <2>3. \A g \in Frames(m) : entry[q][m][g] # Null => entry'[q][m][g] # Null
      BY <1>2, <2>1, <2>2, Stored
    <2>4. CASE drawn'[q][m] = drawn[q][m]
      BY <2>3, <2>4, LiveStays
    <2>5. CASE q = r /\ m = a
      BY <1>2, <2>1, <2>5, StoresLive
    <2> QED
      BY <1>2, <2>1, <2>4, <2>5, Stored
  <1>3. CASE MarksLoaded(l)
    <2>1. PICK a : a = at[l].mesh
      OBVIOUS
    <2>2. CASE m = a /\ Wanted(a) /\ at[l].frame = 1
      BY <1>3, <2>1, <2>2, MarksLive
    <2>3. CASE ~(m = a /\ Wanted(a) /\ at[l].frame = 1)
      <3>1. drawn'[q][m] = drawn[q][m] /\ entry' = entry
        BY <1>3, <2>1, <2>3, Marked DEF MarksLoaded
      <3> QED
        BY <3>1, LiveStays
    <2> QED
      BY <2>2, <2>3
  <1> QED
    BY <1>1, <1>2, <1>3 DEF Loader

\* What the step of a loader that goes on means for what is drawn.
LEMMA LoaderKeepsDraws ==
  ASSUME Base, Turns, patient, Holds, NEW l \in Loaders, Loader(l), target' = target,
         ScansOn(l), Draws(l), DrawsHand(l)
  PROVE  Draws(l)'
  <1> SUFFICES ASSUME NEW m \in Meshes, NEW q \in Quantities, Wanted(m),
                      ~Live(q, m), Reset(l, m)' \/ (Safe(q, m) /\ ready'[m] # {})
               PROVE  Live(q, m)'
    BY LoaderKeepsLive, SameTarget DEF Draws, Safe
  <1>0. ~Reset(l, m) /\ ~(Safe(q, m) /\ ready[m] # {}) /\ at[l] \in At
    BY Shape DEF Draws
  <1>1. CASE Scans(l)
    <2>1. ready' = ready
      BY <1>1 DEF Scans, frameVars
    <2>2. CASE pc'[l] = "pass1" /\ at'[l].frame = 1
      BY <1>0, <2>1, <2>2 DEF Reset
    <2>3. CASE pc'[l] = "scan"
      BY <1>0, <2>1, <2>3 DEF Reset, Reading
    <2>4. CASE ~Wanted(at[l].mesh) /\ at[l].mesh = LastMesh
      BY <1>1, <2>4 DEF ScansOn, Scans, Meshes
    <2> QED
      BY <1>1, <2>2, <2>3, <2>4, Scanned
  <1>2. ASSUME pc[l] \in Reading, AfterPass1(l) PROVE ~Reset(l, m)'
    <2>1. at[l].frame \in Nat /\ ~(at[l].frame > 1)
      BY <1>0, <1>2 DEF Reset, At
    <2> QED
      BY <1>2, <2>1, FirstPass DEF Reset, Meshes
  <1>3. ASSUME pc[l] \in Reading, NEW p \in Reading, p # "pass2", Goes(l, p, at[l]) PROVE ~Reset(l, m)'
    <2>1. pc'[l] = p /\ at' = at
      BY <1>3, Shape DEF Goes
    <2> QED
      BY <1>0, <1>3, <2>1 DEF Reset, Reading
  <1>4. CASE ReadsSmoke(l) \/ PassesBy(l) \/ ReadsFire(l)
    <2>1. ready' = ready
      BY <1>4 DEF ReadsSmoke, PassesBy, ReadsFire, frameVars
    <2>2. ~Reset(l, m)'
      BY <1>2, <1>3, <1>4 DEF ReadsSmoke, PassesBy, ReadsFire, Reading
    <2> QED
      BY <1>0, <2>1, <2>2
  <1>5. CASE \E r \in Quantities : Stores(l, r)
    <2>1. ready' = ready
      BY <1>5 DEF Stores
    <2>2. ~Reset(l, m)'
      BY <1>3, <1>5 DEF Stores, Reading, Quantities
    <2> QED
      BY <1>0, <2>1, <2>2
  <1>6. CASE MarksReady(l)
    <2>1. PICK a, c : a = at[l].mesh /\ c = at[l].frame
      OBVIOUS
    <2>2. pc[l] = "mark" /\ AfterPass1(l)
      BY <1>6 DEF MarksReady
    <2>3. ~Reset(l, m)'
      BY <1>2, <2>2 DEF Reading
    <2>4. m = a /\ Safe(q, m)
      BY <1>0, <1>6, <2>1, <2>3, Readied
    <2>5. Live(q, m)
      BY <2>1, <2>2, <2>4 DEF DrawsHand, Quantities
    <2> QED
      BY <2>5
  <1>7. CASE MarksLoaded(l)
    <2>1. PICK a : a = at[l].mesh
      OBVIOUS
    <2>2. pc[l] = "pass2" /\ ready' = ready /\ AfterPass2(l)
      BY <1>7 DEF MarksLoaded
    <2>3. /\ at[l].frame \in Nat /\ at[l].frame >= 1 /\ ~(at[l].frame > 1)
          /\ ~(m < a) /\ a \in Meshes
      BY <1>0, <2>1, <2>2 DEF Reset, Reading, At, Base, LoaderOK
    <2>4. at[l].frame = 1
      BY <2>3
    <2>5. CASE m = a
      BY <1>7, <2>1, <2>4, <2>5, MarksLive
    <2>6. CASE m # a
      <3>1. m > a
        BY <2>3, <2>6 DEF Meshes
      <3>2. a # LastMesh
        BY <2>3, <3>1 DEF Meshes
      <3>3. pc'[l] = "pass2" /\ at'[l].mesh = a + 1 /\ at'[l].frame = 1
        BY <2>1, <2>2, <2>4, <3>2, SecondPass DEF Reading
      <3>4. ~Reset(l, m)'
        BY <2>3, <3>1, <3>3 DEF Reset, Meshes
      <3> QED
        BY <1>0, <2>2, <3>4
    <2> QED
      BY <2>5, <2>6
  <1>8. CASE LoaderEnds(l)
    <2>1. target' # target
      BY <1>8, LoaderAlone, Targets DEF LoaderEnds, Loading
    <2> QED
      BY <2>1
  <1> QED
    BY <1>1, <1>4, <1>5, <1>6, <1>7, <1>8 DEF Loader

\* What a loader has stored is what is drawn of the mesh in hand.
LEMMA LoaderKeepsHand ==
  ASSUME Base, Turns, patient, Holds, NEW l \in Loaders, Loader(l), DrawsHand(l)
  PROVE  DrawsHand(l)'
  <1>0. ASSUME pc'[l] \notin {"open", "fire", "mark"} PROVE DrawsHand(l)'
    BY <1>0 DEF DrawsHand
  <1>1. ASSUME NEW p \in {"smoke", "fire", "mark", "open"}, Goes(l, p, at[l])
        PROVE  pc'[l] = p /\ at' = at
    BY <1>1, Shape DEF Goes
  <1>2. CASE Scans(l)
    BY <1>0, <1>2, Scanned
  <1>3. CASE ReadsSmoke(l)
    <2>1. CASE AfterPass1(l)
      BY <1>0, <1>3, <2>1, FirstPass DEF ReadsSmoke, Reading
    <2>2. CASE Goes(l, "smoke", at[l])
      BY <1>0, <1>1, <2>2
    <2> QED
      BY <1>3, <2>1, <2>2 DEF ReadsSmoke
  <1>4. CASE PassesBy(l) \/ MarksReady(l)
    BY <1>0, <1>4, FirstPass DEF PassesBy, MarksReady, Reading
  <1>5. CASE MarksLoaded(l)
    BY <1>0, <1>5, SecondPass DEF MarksLoaded, Reading
  <1>6. CASE LoaderEnds(l)
    BY <1>0, <1>6, Shape DEF LoaderEnds, Goes
  <1>7. CASE ReadsFire(l)
    <2> SUFFICES ASSUME NEW m \in Meshes, m = at'[l].mesh
                 PROVE  /\ pc'[l] \in {"open", "fire", "mark"} => Live("smoke", m)'
                        /\ pc'[l] = "mark" /\ Safe("fire", m) => Live("fire", m)'
      BY DEF DrawsHand, Safe
    <2>1. at' = at /\ pc[l] = "open"
      BY <1>1, <1>7 DEF ReadsFire
    <2>2. Live("smoke", m) /\ "smoke" \in Quantities
      BY <2>1 DEF DrawsHand, Quantities
    <2>3. Live("smoke", m)'
      BY <2>2, LoaderKeepsLive
    <2>4. ASSUME pc'[l] = "mark" PROVE ~Safe("fire", m)
      BY <1>1, <1>7, <2>1, <2>4 DEF ReadsFire, Safe
    <2> QED
      BY <2>3, <2>4
  <1>8. ASSUME NEW q \in Quantities, Stores(l, q) PROVE DrawsHand(l)'
    <2> SUFFICES ASSUME NEW m \in Meshes, m = at'[l].mesh
                 PROVE  /\ pc'[l] \in {"open", "fire", "mark"} => Live("smoke", m)'
                        /\ pc'[l] = "mark" /\ Safe("fire", m) => Live("fire", m)'
      BY DEF DrawsHand, Safe
    <2>1. at' = at /\ pc[l] = q /\ pc'[l] = (IF q = "smoke" THEN "open" ELSE "mark")
      BY <1>1, <1>8 DEF Stores
    <2>2. Live(q, m)'
      BY <1>8, <2>1, StoresLive
    <2>3. CASE q = "smoke"
      BY <2>1, <2>2, <2>3
    <2>4. CASE q = "fire"
      <3>1. Live("smoke", m) /\ "smoke" \in Quantities
        BY <2>1, <2>4 DEF DrawsHand, Quantities
      <3>2. Live("smoke", m)'
        BY <3>1, LoaderKeepsLive
      <3> QED
        BY <2>1, <2>2, <2>4, <3>2
    <2> QED
      BY <2>3, <2>4 DEF Quantities
  <1> QED
    BY <1>2, <1>3, <1>4, <1>5, <1>6, <1>7, <1>8 DEF Loader

\* All wanted meshes have been drawn anew when a loader ends.
LEMMA LoaderKeepsDrawing ==
  ASSUME Base, Turns, patient, Holds, NEW l \in Loaders, Loader(l),
         LoadersFill, OthersLive, LoadersDraw
  PROVE  OthersLive' /\ LoadersDraw'
  <1>0. /\ Running = {l} /\ ui = Idle /\ ui' = Idle
        /\ \/ target' = target /\ Running' = {l}
           \/ LoaderEnds(l) /\ Running' = {}
    BY LoaderAlone
  <1>1. ScansOn(l) /\ Draws(l) /\ DrawsHand(l)
    BY <1>0 DEF LoadersFill, LoadersDraw
  <1>2. loaded' = loaded /\ loaded \subseteq Meshes
    BY LoadedAlready, Shape
       DEF Loader, Scans, ReadsSmoke, PassesBy, ReadsFire, Stores, MarksReady, LoaderEnds
  <1>3. \A m \in Meshes, q \in Quantities : Live(q, m) => Live(q, m)'
    BY LoaderKeepsLive
  <1>4. \A m \in loaded : ~Wanted(m) => \A q \in Quantities : Live(q, m)
    BY <1>0 DEF OthersLive, Unloading, Idle
  <1>5. CASE target' = target /\ Running' = {l}
    <2>1. OthersLive'
      BY <1>2, <1>3, <1>4, <1>5, SameTarget DEF OthersLive
    <2>2. Draws(l)' /\ DrawsHand(l)'
      BY <1>1, <1>5, LoaderKeepsDraws, LoaderKeepsHand
    <2> QED
      BY <1>5, <2>1, <2>2 DEF LoadersDraw
  <1>6. CASE LoaderEnds(l) /\ Running' = {}
    <2>1. \A m \in Meshes, q \in Quantities : Wanted(m) => Live(q, m)
      BY <1>1, <1>6 DEF LoaderEnds, Draws, Reset
    <2>2. \A m \in loaded, q \in Quantities : Live(q, m)'
      BY <1>2, <1>3, <1>4, <2>1
    <2> QED
      BY <1>2, <1>6, <2>2 DEF OthersLive, LoadersDraw
  <1> QED
    BY <1>0, <1>5, <1>6

LEMMA DrawingStep ==
  ASSUME Base, Turns, Data, Data', Filling, Drawing, [Next]_vars
  PROVE  Drawing'
  <1> SUFFICES ASSUME patient' PROVE OthersLive' /\ LoadersDraw'
    BY DEF Drawing
  <1>0. patient /\ Holds /\ Holds' /\ LoadersFill /\ OthersLive /\ LoadersDraw /\ loaded \subseteq Meshes
    BY PatientBefore, Shape DEF Filling, Data, Drawing
  <1>1. ASSUME Running = {}, Running' = {}, ui.doing \notin {"free", "clear"},
               UNCHANGED <<drawn, entry, loaded>>
        PROVE  OthersLive' /\ LoadersDraw'
    <2>1. \A m \in loaded, q \in Quantities : Live(q, m)
      BY <1>0, <1>1 DEF OthersLive, Unloading
    <2>2. \A m \in loaded, q \in Quantities : Live(q, m)'
      BY <1>1, <2>1 DEF Live
    <2> QED
      BY <1>1, <2>2 DEF OthersLive, LoadersDraw
  <1>2. ASSUME NEW t, NEW z, LoadVolSmoke3DMenu(t, z) PROVE OthersLive' /\ LoadersDraw'
    <2>1. ui.doing = "idle" /\ Running = {} /\ Running' = {}
      BY <1>0, <1>2, Targets, SameRunning
         DEF LoadVolSmoke3DMenu, MayLoad, Turns, Loading, Idle, loaderVars
    <2> QED
      BY <1>1, <1>2, <2>1 DEF LoadVolSmoke3DMenu, frameVars
  <1>3. CASE UnloadMenus
    <2>1. target = ReadNone
      BY <1>3, Zenon DEF UnloadMenus, UnLoadVolSmoke3DMenu
    <2>2. Running = {}
      BY <1>0, <2>1, Targets DEF Turns, Loading
    <2>3. PICK first, last : UnLoadVolSmoke3DMenu(first, last)
      BY <1>3 DEF UnloadMenus
    <2>4. Running' = {} /\ ui.doing = "idle"
      BY <2>2, <2>3, SameRunning DEF UnLoadVolSmoke3DMenu, loaderVars, Idle
    <2> QED
      BY <1>1, <2>2, <2>3, <2>4 DEF UnLoadVolSmoke3DMenu, frameVars
  <1>4. CASE UnloadTests
    <2>1. Running = {} /\ Running' = {} /\ ui.doing = "test"
      BY <1>0, <1>4, SameRunning DEF UnloadTests, Turns, loaderVars
    <2> QED
      BY <1>1, <1>4, <2>1 DEF UnloadTests, frameVars
  <1>5. CASE StartLoader
    <2>1. /\ Running = {} /\ ui.doing = "load" /\ entry' = entry /\ drawn' = drawn /\ ready' = ready
          /\ target' = target
      BY <1>0, <1>5 DEF StartLoader, Turns, frameVars
    <2>2. \A m \in loaded, q \in Quantities : Live(q, m)
      BY <1>0, <2>1 DEF OthersLive, Unloading
    <2>3. \A m \in loaded, q \in Quantities : Live(q, m)'
      BY <2>1, <2>2 DEF Live
    <2>4. loads + 1 \in Loaders /\ pc \in [Loaders -> Places]
      BY <1>5, Shape DEF StartLoader, Base, UIOK, Loaders
    <2>5. Running' = {loads + 1}
      BY <1>5, <2>1, <2>4 DEF StartLoader, Running
    <2>6. pc'[loads + 1] = "scan" /\ \A m \in loaded' \ loaded : Wanted(m)
      BY <1>5, <2>4 DEF StartLoader
    <2>7. OthersLive'
      BY <2>1, <2>3, <2>5, <2>6 DEF OthersLive, Wanted
    <2>8. ASSUME NEW l \in Loaders, pc'[l] = "scan" PROVE Draws(l)' /\ DrawsHand(l)'
      <3>1. DrawsHand(l)'
        BY <2>8 DEF DrawsHand
      <3>2. ASSUME NEW m \in Meshes, NEW q \in Quantities, ready[m] # {} PROVE Live(q, m)'
        <4>1. m \in loaded
          BY <1>0, <3>2 DEF Holds, UnloadedHaveNone
        <4> QED
          BY <2>3, <4>1
      <3>3. \A m \in Meshes : ~Reset(l, m)'
        BY <2>8 DEF Reset, Reading
      <3> QED
        BY <2>1, <3>1, <3>2, <3>3 DEF Draws
    <2> QED
      BY <2>4, <2>5, <2>6, <2>7, <2>8 DEF LoadersDraw
  <1>6. CASE UnloadFrees \/ UnloadClears \/ UnloadEnds
    <2>1. /\ Running = {} /\ Running' = {} /\ ui \in Doings /\ ui.mesh \in Meshes
          /\ drawn' = drawn /\ loaded' \subseteq loaded
      BY <1>0, <1>6, SameRunning, Shape
         DEF UnloadFrees, UnloadClears, UnloadEnds, Turns, loaderVars, frameVars, Base, UIOK
    <2>2. \A m \in loaded, q \in Quantities : m # ui.mesh => Live(q, m)
      BY <1>0, <2>1 DEF OthersLive, Unloading
    <2>3. \A m \in Meshes, q \in Quantities : \A f \in Frames(m) :
             m # ui.mesh => entry'[q][m][f] = entry[q][m][f]
      <3>1. CASE UnloadFrees
        BY <3>1, Freed
      <3>2. CASE UnloadClears \/ UnloadEnds
        BY <3>2 DEF UnloadClears, UnloadEnds, frameVars
      <3> QED
        BY <1>6, <3>1, <3>2
    <2>4. \A m \in loaded, q \in Quantities : m # ui.mesh => Live(q, m)'
      BY <1>0, <2>1, <2>2, <2>3, LiveStays
    <2>5. ASSUME NEW m \in loaded', m = ui.mesh PROVE Unloading(m)'
      <3>1. ui'.doing \in {"free", "clear"} /\ ui'.mesh = ui.mesh
        <4>1. ui \in Doings
          BY <2>1
        <4>2. CASE UnloadFrees
          BY <4>1, <4>2 DEF UnloadFrees, UIGoes, Doings
        <4>3. CASE UnloadClears
          BY <4>1, <4>3 DEF UnloadClears, UIGoes, Doings
        <4>4. CASE UnloadEnds
          BY <2>5, <4>4 DEF UnloadEnds
        <4> QED
          BY <1>6, <4>2, <4>3, <4>4
      <3> QED
        BY <2>5, <3>1 DEF Unloading
    <2> QED
      BY <2>1, <2>4, <2>5 DEF OthersLive, LoadersDraw
  <1>7. ASSUME UNCHANGED <<target, loaded, ready, ui, pc, at>>,
               \A m \in Meshes, q \in Quantities : Live(q, m) => Live(q, m)'
        PROVE  OthersLive' /\ LoadersDraw'
    <2>1. Running' = Running
      BY <1>7, SameRunning
    <2>2. OthersLive'
      BY <1>0, <1>7, <2>1 DEF OthersLive, Unloading, Wanted
    <2>3. LoadersDraw'
      <3> SUFFICES ASSUME NEW l \in Running PROVE Draws(l)' /\ DrawsHand(l)'
        BY <2>1 DEF LoadersDraw
      <3>1. Draws(l) /\ DrawsHand(l)
        BY <1>0 DEF LoadersDraw
      <3>2. Draws(l)'
        BY <1>7, <3>1 DEF Draws, Reset, Safe, Wanted
      <3>3. DrawsHand(l)'
        BY <1>7, <3>1 DEF DrawsHand, Safe, Quantities
      <3> QED
        BY <3>2, <3>3
    <2> QED
      BY <2>2, <2>3
  <1>8. ASSUME NEW t, UpdateFrameNumber(t) PROVE OthersLive' /\ LoadersDraw'
    <2>1. \A m \in Meshes, q \in Quantities : Live(q, m) => Live(q, m)'
      BY <1>0, <1>8, UpdateKeepsLive
    <2> QED
      BY <1>7, <1>8, <2>1 DEF UpdateFrameNumber, loaderVars, userVars
  <1>9. CASE UNCHANGED vars
    <2>1. \A m \in Meshes, q \in Quantities : Live(q, m) => Live(q, m)'
      BY <1>9 DEF vars, Live
    <2> QED
      BY <1>7, <1>9, <2>1 DEF vars
  <1> QED
    BY <1>0, <1>2, <1>3, <1>4, <1>5, <1>6, <1>8, <1>9, Steps, LoaderKeepsDrawing

\* An unload leaves smokedataptr and firedataptr on data it has freed
\* (IOvolsmoke.c:1966).  In a patient session they name data that exist, or none, when
\* a loaded mesh has a frame to show and the file could be opened, and in any case
\* when the load is over (IOvolsmoke.c:1839, 1901 and 2043-2052).
THEOREM DrawnAlwaysLive == Spec => []DrawnIsLive
  <1>1. Init => Base /\ Turns /\ Data /\ Filling /\ Drawing
    BY BaseInit, TurnsInit, DataInit, FillingInit, DrawingInit
  <1>2. Base /\ Turns /\ Data /\ Filling /\ Drawing /\ [Next]_vars
          => (Base /\ Turns /\ Data /\ Filling /\ Drawing)'
    BY BaseStep, TurnsStep, DataStep, FillingStep, DrawingStep
  <1>3. Base /\ Turns /\ Drawing => DrawnIsLive
    <2> SUFFICES ASSUME Base, Turns, Drawing, patient, ui = Idle, NEW m \in loaded, NEW q \in Quantities,
                        target = ReadNone \/ (ready[m] # {} /\ Safe(q, m))
                 PROVE  Live(q, m)
      BY DEF DrawnIsLive, Safe
    <2>1. m \in Meshes /\ ~Unloading(m)
      BY Shape DEF Unloading, Idle
    <2>2. Live(q, m) \/ (Running # {} /\ Wanted(m))
      BY <2>1 DEF Drawing, OthersLive
    <2>3. CASE Running # {} /\ Wanted(m)
      <3>1. target # ReadNone
        BY <2>3, Targets DEF Turns, Loading
      <3>2. PICK l \in Running : Draws(l)
        BY <2>3 DEF Drawing, LoadersDraw
      <3> QED
        BY <2>1, <2>3, <3>1, <3>2 DEF Draws
    <2> QED
      BY <2>2, <2>3
  <1> QED
    BY <1>1, <1>2, <1>3, PTL DEF Spec
=============================================================================
