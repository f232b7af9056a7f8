--------------------------- MODULE SmokezipProofs ---------------------------
(***************************************************************************)
(* Theorems about Smokezip for any files, threads, helpers and options.    *)
(***************************************************************************)
EXTENDS Smokezip, TLAPS, FiniteSetTheorems

USE SmokezipAssumption

-----------------------------------------------------------------------------
(* Types, and where the threads are.                                       *)

Spots       == {"new", "enter", "loop", "over"} \cup Phase \cup Claiming \cup Busy
HelperSpots == {"off", "loop", "read", "over"} \cup Claiming

\* A thread or a helper that looks at a file looks at one there is.
PlacesOK ==
    /\ \A t \in Threads : pc[t] \notin {"new", "over"} => at[t] \in Files
    /\ \A h \in Helpers : hpc[h] \notin {"off", "over"} => hat[h] \in Files

\* Threads that do not run are over.
MainOK == main \in {"off", "end"} => \A t \in Threads : pc[t] = "over"

Base == TypeOK /\ PlacesOK /\ MainOK

\* What the base says of one thread and one helper.
LEMMA BaseFacts ==
  ASSUME Base
  PROVE  /\ pc \in [Threads -> Spots] /\ at \in [Threads -> 1 .. N + 1]
         /\ hpc \in [Helpers -> HelperSpots] /\ hat \in [Helpers -> 1 .. N + 1]
         /\ lock \in [Locks -> Threads \cup Helpers \cup {Nobody}]
         /\ \A t \in Threads : pc[t] \notin {"new", "over"} =>
               at[t] \in Files /\ Kind[at[t]] \in Kinds
  BY DEF Base, TypeOK, PlacesOK, Spots, HelperSpots

\* Thread t arrives at file i, and the others stay where they are.
Lands(t, i) ==
    /\ at' \in [Threads -> 1 .. N + 1] /\ pc' \in [Threads -> Spots]
    /\ at'[t] = i
    /\ \/ i = N + 1 /\ pc'[t] = "over"
       \/ i <= N /\ pc'[t] = "enter" /\ (i = 1 \/ Kind[i - 1] # Kind[i])
       \/ i <= N /\ pc'[t] = "loop" /\ i > 1 /\ Kind[i - 1] = Kind[i]
    /\ \A u \in Threads \ {t} : at'[u] = at[u] /\ pc'[u] = pc[u]

LEMMA Landing ==
  ASSUME Base, NEW t \in Threads, NEW i \in 1 .. N + 1, GoTo(t, i)
  PROVE  Lands(t, i)
  <1>1. Arrive(i) \in {"over", "enter", "loop"}
    BY DEF Arrive
  <1>2. pc' = [pc EXCEPT ![t] = Arrive(i)] /\ at' = [at EXCEPT ![t] = i]
    BY DEF GoTo
  <1>3. pc' \in [Threads -> Spots] /\ at' \in [Threads -> 1 .. N + 1]
    BY <1>1, <1>2, BaseFacts DEF Spots
  <1>4. pc'[t] = Arrive(i) /\ at'[t] = i
    BY <1>2, BaseFacts
  <1>5. \A u \in Threads \ {t} : at'[u] = at[u] /\ pc'[u] = pc[u]
    BY <1>2, BaseFacts
  <1> QED
    BY <1>3, <1>4, <1>5 DEF Lands, Arrive

LEMMA GoingOn ==
  ASSUME Base, NEW t \in Threads, at[t] \in Files, GoOn(t)
  PROVE  Lands(t, at[t] + 1)
  BY Landing DEF GoOn, Files

LEMMA GoingPast ==
  ASSUME Base, NEW t \in Threads, at[t] \in Files, GoPast(t)
  PROVE  \E i \in 1 .. N + 1 :
            /\ at[t] < i /\ Lands(t, i) /\ pc'[t] # "loop"
            /\ \A j \in at[t] .. i - 1 : Kind[j] = Kind[at[t]]
  <1>1. PICK i \in at[t] + 1 .. N + 1 :
          /\ \A j \in at[t] .. i - 1 : Kind[j] = Kind[at[t]]
          /\ i \in Files => Kind[i] # Kind[at[t]]
          /\ GoTo(t, i)
    BY DEF GoPast
  <1>2. i \in 1 .. N + 1 /\ at[t] < i /\ i - 1 \in at[t] .. i - 1
    BY DEF Files
  <1>3. Lands(t, i)
    BY <1>1, <1>2, Landing
  <1>4. i <= N => Kind[i] # Kind[i - 1]
    BY <1>1, <1>2 DEF Files
  <1> QED
    BY <1>1, <1>2, <1>3, <1>4 DEF Lands

\* Wherever a thread lands, it is a proper place.
LEMMA LandsOK ==
  ASSUME Base, NEW t \in Threads, NEW i \in 1 .. N + 1, Lands(t, i)
  PROVE  /\ at' \in [Threads -> 1 .. N + 1] /\ pc' \in [Threads -> Spots]
         /\ \A u \in Threads : pc'[u] \notin {"new", "over"} => at'[u] \in Files
  <1>1. ASSUME pc'[t] # "over" PROVE at'[t] \in Files
    BY <1>1 DEF Lands, Files
  <1>2. ASSUME NEW u \in Threads \ {t}, pc'[u] \notin {"new", "over"} PROVE at'[u] \in Files
    BY <1>2, BaseFacts DEF Lands
  <1> QED
    BY <1>1, <1>2 DEF Lands

LEMMA ResetOK ==
  ASSUME NEW places \in [Threads -> {"new", "over"}], Reset(places),
         disk \in [Files -> Zipped], smvtiso \subseteq Files, UNCHANGED fileVars,
         run' \in Nat, opt' \in Options, main' \in {"off", "create"},
         main' = "off" => \A t \in Threads : places[t] = "over"
  PROVE  Base'
  <1>1. TypeOK'
    BY DEF Reset, TypeOK, fileVars, Files, Locks, Phased
  <1>2. PlacesOK' /\ MainOK'
    BY DEF Reset, PlacesOK, MainOK
  <1> QED
    BY <1>1, <1>2 DEF Base

LEMMA BaseInit == Init => Base
  <1> SUFFICES ASSUME Init PROVE Base
    OBVIOUS
  <1>1. TypeOK
    BY DEF Init, TypeOK, Files, Zipped, NoFile, Options, Phased
  <1>2. PlacesOK /\ MainOK
    BY DEF Init, PlacesOK, MainOK
  <1> QED
    BY <1>1, <1>2 DEF Base

\* The mutexes.
LEMMA Locking ==
  ASSUME Base, NEW w \in Threads \cup Helpers, NEW l \in Locks, Acquire(w, l) \/ Release(l)
  PROVE  lock' \in [Locks -> Threads \cup Helpers \cup {Nobody}]
  BY BaseFacts DEF Acquire, Release

LEMMA LockNames == \A k \in Kinds : k \in Locks /\ BoundLock(k) \in Locks
  BY DEF Locks, BoundLock

\* The steps of the first phase.
LEMMA PhaseKeepsBase ==
  ASSUME Base, NEW t \in Threads,
         \/ EnterPhase(t) \/ EnterVolslices(t) \/ EnterSmoke3ds(t)
         \/ First(t) \/ FirstCleans(t) \/ NotFirst(t)
         \/ CopyPatchBounds(t) \/ SpawnHelpers(t) \/ MergeBounds(t) \/ SetDoit(t)
  PROVE  Base'
  <1> USE DEF Base
  <1>a. /\ pc[t] \notin {"new", "over"} /\ at[t] \in Files /\ Kind[at[t]] \in Locks
        /\ main \notin {"off", "end"} /\ main' = main
    <2>1. pc[t] \notin {"new", "over"} /\ main' = main
      BY DEF EnterPhase, EnterVolslices, EnterSmoke3ds, First, FirstCleans, NotFirst,
             CopyPatchBounds, SpawnHelpers, MergeBounds, SetDoit, startVars
    <2> QED
      BY <2>1, LockNames, BaseFacts DEF MainOK
  <1>b. MainOK'
    BY <1>a DEF MainOK
  <1>c. ASSUME GoPast(t)
        PROVE  /\ at' \in [Threads -> 1 .. N + 1] /\ pc' \in [Threads -> Spots]
               /\ \A u \in Threads : pc'[u] \notin {"new", "over"} => at'[u] \in Files
    BY <1>a, <1>c, GoingPast, LandsOK
  <1>1. CASE EnterPhase(t)
    <2>1. TypeOK'
      BY <1>a, <1>1, Locking DEF EnterPhase, TypeOK, fileVars, boundVars, helperVars, startVars, Phase
    <2>2. PlacesOK'
      BY <1>1, <1>a, BaseFacts DEF EnterPhase, PlacesOK, helperVars
    <2> QED
      BY <1>b, <2>1, <2>2
  <1>2. CASE EnterVolslices(t)
    <2>1. TypeOK'
      BY <1>c, <1>2 DEF EnterVolslices, TypeOK, fileVars, boundVars, helperVars, startVars, Spots
    <2>2. PlacesOK'
      BY <1>2, <1>c, <1>a, BaseFacts DEF EnterVolslices, PlacesOK, helperVars
    <2> QED
      BY <1>b, <2>1, <2>2
  <1>3. CASE EnterSmoke3ds(t)
    <2>1. TypeOK'
      BY <1>3 DEF EnterSmoke3ds, TypeOK, fileVars, boundVars, helperVars, startVars
    <2>2. PlacesOK'
      BY <1>3, <1>a, BaseFacts DEF EnterSmoke3ds, PlacesOK, helperVars
    <2> QED
      BY <1>b, <2>1, <2>2
  <1>4. CASE First(t)
    <2>3. /\ pc' \in [Threads -> Spots]
          /\ \A u \in Threads \ {t} : pc'[u] = pc[u]
      BY <1>4, BaseFacts DEF First, Spots, Phase
    <2>4. lock' \in [Locks -> Threads \cup Helpers \cup {Nobody}]
      BY <1>4, <1>a, Locking, BaseFacts DEF First
    <2>1. TypeOK'
      BY <1>4, <2>3, <2>4 DEF First, TypeOK, fileVars, boundVars, helperVars, startVars, Spots
    <2>2. PlacesOK'
      BY <1>4, <1>a, <2>3 DEF First, PlacesOK, helperVars
    <2> QED
      BY <1>b, <2>1, <2>2
  <1>5. CASE FirstCleans(t)
    <2>3. disk' \in [Files -> Zipped] /\ smvtiso' \subseteq Files
      BY <1>5 DEF FirstCleans, TypeOK, Zipped, NoFile
    <2>4. lock' \in [Locks -> Threads \cup Helpers \cup {Nobody}]
      BY <1>5, <1>a, Locking DEF FirstCleans
    <2>1. TypeOK'
      BY <1>5, <1>c, <2>3, <2>4 DEF FirstCleans, TypeOK, boundVars, helperVars, startVars, Spots
    <2>2. PlacesOK'
      BY <1>5, <1>c DEF FirstCleans, PlacesOK, helperVars
    <2> QED
      BY <1>b, <2>1, <2>2
  <1>6. CASE NotFirst(t)
    <2>4. lock' \in [Locks -> Threads \cup Helpers \cup {Nobody}]
      BY <1>6, <1>a, Locking DEF NotFirst
    <2>1. TypeOK'
      BY <1>6, <1>c, <2>4 DEF NotFirst, TypeOK, fileVars, boundVars, helperVars, startVars, Spots
    <2>2. PlacesOK'
      BY <1>6, <1>a, <1>c, BaseFacts DEF NotFirst, PlacesOK, helperVars
    <2> QED
      BY <1>b, <2>1, <2>2
  <1>7. CASE CopyPatchBounds(t)
    <2>3. setval' \in [Files -> BOOLEAN] /\ val' \in [Files -> SUBSET Files]
      BY <1>7 DEF CopyPatchBounds, TakeLeads, TypeOK
    <2>1. TypeOK'
      BY <1>7, <2>3 DEF CopyPatchBounds, TypeOK, fileVars, helperVars, startVars, Phase
    <2>2. PlacesOK'
      BY <1>7, <1>a, BaseFacts DEF CopyPatchBounds, PlacesOK, helperVars
    <2> QED
      BY <1>b, <2>1, <2>2
  <1>8. CASE SpawnHelpers(t)
    <2>1. TypeOK'
      BY <1>8 DEF SpawnHelpers, TypeOK, fileVars, boundVars, startVars, Phase
    <2>2. PlacesOK'
      BY <1>8, <1>a, BaseFacts DEF SpawnHelpers, PlacesOK
    <2> QED
      BY <1>b, <2>1, <2>2
  <1>9. CASE MergeBounds(t)
    <2>3. setval' \in [Files -> BOOLEAN] /\ val' \in [Files -> SUBSET Files]
      BY <1>9 DEF MergeBounds, TypeOK, Same
    <2>1. TypeOK'
      BY <1>9, <1>a, <2>3 DEF MergeBounds, TypeOK, fileVars, startVars, Phase, Files
    <2>2. PlacesOK'
      BY <1>9, <1>a, BaseFacts DEF MergeBounds, PlacesOK
    <2> QED
      BY <1>b, <2>1, <2>2
  <1>10. CASE SetDoit(t)
    <2>3. setval' \in [Files -> BOOLEAN] /\ val' \in [Files -> SUBSET Files]
      BY <1>10 DEF SetDoit, TakeLeads, TypeOK
    <2>4. doit' \in [Files -> BOOLEAN]
      BY <1>10, <2>3 DEF SetDoit, TypeOK
    <2>5. lock' \in [Locks -> Threads \cup Helpers \cup {Nobody}]
      BY <1>10, <1>a, Locking DEF SetDoit
    <2>1. TypeOK'
      BY <1>10, <2>3, <2>4, <2>5 DEF SetDoit, TypeOK, fileVars, helperVars, startVars
    <2>2. PlacesOK'
      BY <1>10, <1>a, BaseFacts DEF SetDoit, PlacesOK, helperVars
    <2> QED
      BY <1>b, <2>1, <2>2
  <1> QED
    BY <1>1, <1>2, <1>3, <1>4, <1>5, <1>6, <1>7, <1>8, <1>9, <1>10

\* The steps along the files.
LEMMA FilesKeepBase ==
  ASSUME Base, NEW t \in Threads,
         \/ PassBy(t) \/ ClaimLocks(t) \/ ClaimTests(t) \/ ClaimMarks(t)
         \/ Refuses(t) \/ CleansSmoke(t) \/ Opens(t) \/ OpensNot(t)
         \/ ListsIso(t) \/ Writes(t) \/ Closes(t)
  PROVE  Base'
  <1> USE DEF Base
  <1>a. /\ pc[t] \notin {"new", "over"} /\ at[t] \in Files /\ Kind[at[t]] \in Locks
        /\ main \notin {"off", "end"} /\ main' = main
    <2>1. pc[t] \notin {"new", "over"} /\ main' = main
      BY DEF PassBy, ClaimLocks, ClaimTests, ClaimMarks, Refuses, CleansSmoke, Opens, OpensNot,
             ListsIso, Writes, Closes, startVars, ConvertKeeps
    <2> QED
      BY <2>1, LockNames, BaseFacts DEF MainOK
  <1>b. MainOK'
    BY <1>a DEF MainOK
  <1>c. ASSUME GoOn(t)
        PROVE  /\ at' \in [Threads -> 1 .. N + 1] /\ pc' \in [Threads -> Spots]
               /\ \A u \in Threads : pc'[u] \notin {"new", "over"} => at'[u] \in Files
    <2>1. at[t] + 1 \in 1 .. N + 1
      BY <1>a DEF Files
    <2> QED
      BY <1>a, <1>c, <2>1, GoingOn, LandsOK
  <1>d. ASSUME UNCHANGED <<ConvertKeeps, smvtiso, firstIso>>, GoOn(t), disk' \in [Files -> Zipped]
        PROVE  Base'
    <2>1. TypeOK'
      BY <1>c, <1>d DEF ConvertKeeps, TypeOK, boundVars, helperVars, startVars, Spots
    <2>2. PlacesOK'
      BY <1>c, <1>d DEF ConvertKeeps, PlacesOK, helperVars
    <2> QED
      BY <1>b, <2>1, <2>2
  <1>1. CASE PassBy(t)
    <2>1. TypeOK'
      BY <1>1, <1>c DEF PassBy, TypeOK, fileVars, boundVars, helperVars, startVars, Spots
    <2>2. PlacesOK'
      BY <1>1, <1>c DEF PassBy, PlacesOK, helperVars
    <2> QED
      BY <1>b, <2>1, <2>2
  <1>2. CASE ClaimLocks(t)
    <2>1. TypeOK'
      BY <1>2, <1>a, Locking DEF ClaimLocks, TypeOK, fileVars, boundVars, helperVars, startVars, Claiming
    <2>2. PlacesOK'
      BY <1>2, <1>a, BaseFacts DEF ClaimLocks, PlacesOK, helperVars
    <2> QED
      BY <1>b, <2>1, <2>2
  <1>3. CASE ClaimTests(t)
    <2>1. TypeOK'
      BY <1>3, <1>a, <1>c, Locking DEF ClaimTests, TypeOK, fileVars, boundVars, helperVars, startVars,
             Claiming, Spots
    <2>2. PlacesOK'
      BY <1>3, <1>a, <1>c, BaseFacts DEF ClaimTests, PlacesOK, helperVars
    <2> QED
      BY <1>b, <2>1, <2>2
  <1>4. CASE ClaimMarks(t)
    <2>1. TypeOK'
      BY SMTT(30), <1>4, <1>a, <1>c, Locking DEF ClaimMarks, TypeOK, fileVars, boundVars, helperVars, startVars,
             Busy, Spots
    <2>2. PlacesOK'
      BY <1>4, <1>a, <1>c, BaseFacts DEF ClaimMarks, PlacesOK, helperVars
    <2> QED
      BY <1>b, <2>1, <2>2
  <1>5. CASE Refuses(t)
    BY <1>5, <1>d DEF Refuses, fileVars, TypeOK
  <1>6. CASE CleansSmoke(t)
    <2>1. disk' \in [Files -> Zipped]
      BY <1>6 DEF CleansSmoke, TypeOK, Zipped, NoFile
    <2> QED
      BY <1>6, <1>d, <2>1 DEF CleansSmoke
  <1>7. CASE Opens(t)
    <2>3. disk' \in [Files -> Zipped]
      BY <1>7 DEF Opens, TypeOK, Zipped
    <2>1. TypeOK'
      BY <1>7, <2>3 DEF Opens, ConvertKeeps, TypeOK, boundVars, helperVars, startVars, Busy
    <2>2. PlacesOK'
      BY <1>7, <1>a, BaseFacts DEF Opens, ConvertKeeps, PlacesOK, helperVars
    <2> QED
      BY <1>b, <2>1, <2>2
  <1>8. CASE OpensNot(t)
    <2>1. disk' \in [Files -> Zipped]
      BY <1>8 DEF OpensNot, TypeOK, Zipped
    <2> QED
      BY <1>8, <1>d, <2>1 DEF OpensNot
  <1>9. CASE ListsIso(t)
    <2>1. TypeOK'
      BY <1>9, <1>a DEF ListsIso, ConvertKeeps, TypeOK, boundVars, helperVars, startVars, Busy
    <2>2. PlacesOK'
      BY <1>9, <1>a, BaseFacts DEF ListsIso, ConvertKeeps, PlacesOK, helperVars
    <2> QED
      BY <1>b, <2>1, <2>2
  <1>10. CASE Writes(t)
    <2>3. disk' \in [Files -> Zipped]
      BY SMTT(30), <1>10, <1>a DEF Writes, TypeOK, Zipped
    <2>1. TypeOK'
      BY <1>10, <2>3 DEF Writes, ConvertKeeps, TypeOK, boundVars, helperVars, startVars, Busy
    <2>2. PlacesOK'
      BY <1>10, <1>a, BaseFacts DEF Writes, ConvertKeeps, PlacesOK, helperVars
    <2> QED
      BY <1>b, <2>1, <2>2
  <1>11. CASE Closes(t)
    <2>2. \/ disk' = [disk EXCEPT ![at[t]].completion = 1]
          \/ disk' = disk
      BY <1>11 DEF Closes
    <2>3. [disk[at[t]] EXCEPT !.completion = 1] \in Zipped
      BY <1>a DEF TypeOK, Zipped
    <2>1. disk' \in [Files -> Zipped]
      BY <1>a, <2>2, <2>3 DEF TypeOK
    <2> QED
      BY <1>11, <1>d, <2>1 DEF Closes
  <1> QED
    BY <1>1, <1>2, <1>3, <1>4, <1>5, <1>6, <1>7, <1>8, <1>9, <1>10, <1>11

\* The steps of the helpers.
LEMMA HelpersKeepBase ==
  ASSUME Base, NEW h \in Helpers, HelperStep(h)
  PROVE  Base'
  <1> USE DEF Base
  <1>a. /\ hpc[h] \notin {"off", "over"} /\ UNCHANGED HelperKeeps
        /\ hat[h] \in Files /\ BoundLock(Kind[hat[h]]) \in Locks
    <2>1. hpc[h] \notin {"off", "over"} /\ UNCHANGED HelperKeeps
      BY DEF HelperStep, HelperLocks, HelperTests, HelperMarks, HelperReads
    <2> QED
      BY <2>1, LockNames DEF PlacesOK
  <1>b. MainOK'
    BY <1>a DEF MainOK, HelperKeeps
  <1>c. ASSUME HelperGoesOn(h)
        PROVE  /\ hat' \in [Helpers -> 1 .. N + 1] /\ hpc' \in [Helpers -> HelperSpots]
               /\ \A g \in Helpers : hpc'[g] \notin {"off", "over"} => hat'[g] \in Files
    <2>1. hat[h] + 1 \in 1 .. N + 1
      BY <1>a DEF Files
    <2> QED
      BY <1>a, <1>c, <2>1, BaseFacts DEF HelperGoesOn, HelperSpots, PlacesOK, Files
  <1>1. CASE HelperLocks(h)
    <2>1. TypeOK'
      BY <1>1, <1>a, Locking DEF HelperLocks, HelperKeeps, TypeOK, fileVars, boundVars, startVars, Claiming
    <2>2. PlacesOK'
      BY <1>1, <1>a, BaseFacts DEF HelperLocks, HelperKeeps, PlacesOK
    <2> QED
      BY <1>b, <2>1, <2>2
  <1>2. CASE HelperTests(h)
    <2>1. TypeOK'
      BY <1>2, <1>a, <1>c, Locking DEF HelperTests, HelperKeeps, TypeOK, fileVars, boundVars, startVars,
             Claiming, HelperSpots
    <2>2. PlacesOK'
      BY <1>2, <1>a, <1>c, BaseFacts DEF HelperTests, HelperKeeps, PlacesOK
    <2> QED
      BY <1>b, <2>1, <2>2
  <1>3. CASE HelperMarks(h)
    <2>1. TypeOK'
      BY <1>3, <1>a, Locking DEF HelperMarks, HelperKeeps, TypeOK, fileVars, boundVars, startVars, Claiming
    <2>2. PlacesOK'
      BY <1>3, <1>a, BaseFacts DEF HelperMarks, HelperKeeps, PlacesOK
    <2> QED
      BY <1>b, <2>1, <2>2
  <1>4. CASE HelperReads(h)
    <2>1. TypeOK'
      BY <1>4, <1>a, <1>c DEF HelperReads, HelperKeeps, TypeOK, fileVars, boundVars, startVars, HelperSpots
    <2>2. PlacesOK'
      BY <1>4, <1>a, <1>c DEF HelperReads, HelperKeeps, PlacesOK
    <2> QED
      BY <1>b, <2>1, <2>2
  <1> QED
    BY <1>1, <1>2, <1>3, <1>4 DEF HelperStep

LEMMA BaseStep == Base /\ [Next]_vars => Base'
  <1> SUFFICES ASSUME Base, [Next]_vars PROVE Base'
    OBVIOUS
  <1> USE DEF Base
  <1>1. ASSUME UNCHANGED vars PROVE Base'
    BY <1>1 DEF vars, TypeOK, PlacesOK, MainOK
  <1>2. ASSUME Start PROVE Base'
    <2> PICK team \in SUBSET Threads :
          Reset([t \in Threads |-> IF t \in team THEN "new" ELSE "over"])
      BY <1>2 DEF Start
    <2>1. run' \in Nat /\ opt' \in Options /\ main' = "create" /\ UNCHANGED fileVars
      BY <1>2 DEF Start, TypeOK
    <2> QED
      BY <2>1, ResetOK DEF TypeOK
  <1>3. ASSUME Kill PROVE Base'
    <2>1. run' \in Nat /\ opt' \in Options /\ main' = "off" /\ UNCHANGED fileVars
      BY <1>3 DEF Kill, TypeOK, startVars
    <2> QED
      BY <1>3, <2>1, ResetOK DEF TypeOK, Kill
  <1>4. ASSUME JoinThreads PROVE Base'
    BY <1>4 DEF JoinThreads, TypeOK, PlacesOK, MainOK, fileVars, boundVars, helperVars, startVars
  <1>5. ASSUME NEW t \in Threads, CreateThread(t) PROVE Base'
    <2>1. Lands(t, 1) /\ main' \in {"create", "join"}
      BY <1>5, Landing DEF CreateThread
    <2>2. TypeOK'
      BY <1>5, <2>1, LandsOK DEF CreateThread, TypeOK, fileVars, boundVars, helperVars, startVars, Spots
    <2>3. PlacesOK' /\ MainOK'
      BY <1>5, <2>1, LandsOK DEF CreateThread, PlacesOK, MainOK, helperVars
    <2> QED
      BY <2>2, <2>3
  <1> QED
    BY <1>1, <1>2, <1>3, <1>4, <1>5, PhaseKeepsBase, FilesKeepBase, HelpersKeepBase
       DEF Next, Work, MainStep, ThreadStep

\* The variables keep their types.
THEOREM TypeAlwaysOK == Spec => []TypeOK
  <1>1. Base => TypeOK
    BY DEF Base
  <1> QED
    BY <1>1, BaseInit, BaseStep, PTL DEF Spec

-----------------------------------------------------------------------------
(* One step of a thread, as far as places, mutexes and claims go.          *)

\* Where a thread holds the mutex of its kind, where it prepares the bounds,
\* and where it is among the files after the first phase.
Inside   == Phase \cup Claiming
Prepares == {"copy", "spawn", "wait", "doit"}
Converts == {"loop"} \cup Claiming \cup Busy

\* The thread stays at its file.
Stays(t) ==
    /\ at'[t] = at[t] /\ pc'[t] \notin {"new", "enter", "over"}
    /\ pc'[t] = "first" => pc[t] = "enter" /\ Kind[at[t]] \in Phased
    /\ pc'[t] \in Prepares =>
          \/ pc[t] \in Prepares /\ first' = first
          \/ /\ pc[t] = "first" /\ Kind[at[t]] \in first \cap Bounded /\ ~opt.clean
             /\ first' = first \ {Kind[at[t]]}
    /\ pc'[t] \in Converts =>
          \/ pc[t] \in Converts \cup {"doit"}
          \/ Kind[at[t]] \notin Phased
          \/ pc[t] = "first" /\ Kind[at[t]] \notin first'

\* The thread goes on to the next file, or past its kind.
Leaves(t) ==
    \E i \in 1 .. N + 1 :
        /\ Lands(t, i) /\ at[t] < i
        /\ \A j \in at[t] .. i - 1 : Kind[j] = Kind[at[t]]
        /\ \/ pc[t] \in Converts /\ i = at[t] + 1
           \/ /\ pc'[t] # "loop" /\ opt.clean
              /\ \/ pc[t] = "first" /\ Kind[at[t]] \notin first'
                 \/ pc[t] = "enter" /\ Kind[at[t]] = "volslice"

Shape(t) ==
    /\ pc[t] \notin {"new", "over"} /\ UNCHANGED <<main, run, opt>>
    /\ \A u \in Threads \ {t} : pc'[u] = pc[u] /\ at'[u] = at[u]
    /\ \/ lock' = lock
       \/ Acquire(t, Kind[at[t]])
       \/ Release(Kind[at[t]]) /\ pc[t] \in Inside
    /\ pc'[t] \in Inside =>
          (lock' = lock /\ pc[t] \in Inside) \/ Acquire(t, Kind[at[t]])
    /\ \/ first' = first
       \/ pc[t] = "first" /\ Kind[at[t]] \in first /\ first' = first \ {Kind[at[t]]}
    /\ \/ inuse' = inuse /\ ~(pc[t] = "mark" /\ pc'[t] # "mark")
       \/ pc[t] = "mark" /\ inuse' = [inuse EXCEPT ![at[t]] = TRUE]
    /\ pc'[t] = "mark" => pc[t] = "test" /\ ~inuse[at[t]]
    /\ pc'[t] \in Busy => pc[t] \in Busy \cup {"mark"}
    /\ Stays(t) \/ Leaves(t)

LEMMA LeavesOn ==
  ASSUME Base, NEW t \in Threads, pc[t] \in Converts, GoOn(t)
  PROVE  /\ \A u \in Threads \ {t} : pc'[u] = pc[u] /\ at'[u] = at[u]
         /\ pc'[t] \in {"enter", "loop", "over"}
         /\ Leaves(t)
  <1>1. at[t] \in Files
    BY DEF Base, PlacesOK, Converts, Claiming, Busy
  <1>2. Lands(t, at[t] + 1)
    BY <1>1, GoingOn
  <1>3. PICK i \in 1 .. N + 1 : i = at[t] + 1
    BY <1>1 DEF Files
  <1>4. at[t] < i /\ \A j \in at[t] .. i - 1 : j = at[t]
    BY <1>1, <1>3 DEF Files
  <1>5. Leaves(t)
    BY <1>2, <1>3, <1>4 DEF Leaves
  <1> QED
    BY <1>2, <1>5 DEF Lands

LEMMA LeavesPast ==
  ASSUME Base, NEW t \in Threads, opt.clean, GoPast(t),
         \/ pc[t] = "first" /\ Kind[at[t]] \notin first'
         \/ pc[t] = "enter" /\ Kind[at[t]] = "volslice"
  PROVE  /\ \A u \in Threads \ {t} : pc'[u] = pc[u] /\ at'[u] = at[u]
         /\ pc'[t] \in {"enter", "over"}
         /\ Leaves(t)
  <1>1. at[t] \in Files
    BY DEF Base, PlacesOK
  <1>2. PICK i \in 1 .. N + 1 :
            /\ at[t] < i /\ Lands(t, i) /\ pc'[t] # "loop"
            /\ \A j \in at[t] .. i - 1 : Kind[j] = Kind[at[t]]
    BY <1>1, GoingPast
  <1> QED
    BY <1>2 DEF Leaves, Lands

LEMMA StepShape ==
  ASSUME Base, NEW t \in Threads, ThreadStep(t)
  PROVE  Shape(t)
  <1> USE DEF Inside, Prepares, Converts, Phase, Claiming, Busy, startVars
  <1>a. /\ pc \in [Threads -> Spots] /\ at[t] \in Files /\ Kind[at[t]] \in Kinds /\ first \subseteq Phased
        /\ inuse \in [Files -> BOOLEAN]
    <2>1. pc[t] \notin {"new", "over"}
      BY DEF ThreadStep, EnterPhase, EnterVolslices, EnterSmoke3ds, First, FirstCleans, NotFirst,
             CopyPatchBounds, SpawnHelpers, MergeBounds, SetDoit, PassBy, ClaimLocks, ClaimTests,
             ClaimMarks, Refuses, CleansSmoke, Opens, OpensNot, ListsIso, Writes, Closes
    <2> QED
      BY <2>1, BaseFacts DEF Base, TypeOK
  <1>1. CASE EnterPhase(t)
    BY <1>a, <1>1 DEF EnterPhase, Shape, Stays
  <1>2. CASE EnterVolslices(t)
    BY <1>a, <1>2, LeavesPast DEF EnterVolslices, Shape, Stays, Phased, Bounded
  <1>3. CASE EnterSmoke3ds(t)
    BY <1>a, <1>3 DEF EnterSmoke3ds, Shape, Stays, Phased
  <1>4. CASE First(t)
    BY <1>a, <1>4 DEF First, Shape, Stays, Phased, Bounded, Kinds
  <1>5. CASE FirstCleans(t)
    BY <1>a, <1>5, LeavesPast DEF FirstCleans, Shape, Stays, Phased, Bounded
  <1>6. CASE NotFirst(t)
    BY <1>a, <1>6, LeavesPast DEF NotFirst, Shape, Stays, Phased, Bounded
  <1>7. CASE CopyPatchBounds(t)
    BY <1>a, <1>7 DEF CopyPatchBounds, Shape, Stays
  <1>8. CASE SpawnHelpers(t)
    BY <1>a, <1>8 DEF SpawnHelpers, Shape, Stays
  <1>9. CASE MergeBounds(t)
    BY <1>a, <1>9 DEF MergeBounds, Shape, Stays
  <1>10. CASE SetDoit(t)
    BY <1>a, <1>10 DEF SetDoit, Shape, Stays
  <1>11. CASE PassBy(t)
    BY <1>a, <1>11, LeavesOn DEF PassBy, Shape, Stays
  <1>12. CASE ClaimLocks(t)
    BY <1>a, <1>12 DEF ClaimLocks, Shape, Stays
  <1>13. CASE ClaimTests(t)
    BY <1>a, <1>13, LeavesOn DEF ClaimTests, Shape, Stays, Phased, Bounded
  <1>14. CASE ClaimMarks(t)
    BY <1>a, <1>14, LeavesOn DEF ClaimMarks, Shape, Stays
  <1>15. CASE Refuses(t)
    BY <1>a, <1>15, LeavesOn DEF Refuses, Shape, Stays, ConvertKeeps
  <1>16. CASE CleansSmoke(t)
    BY <1>a, <1>16, LeavesOn DEF CleansSmoke, Shape, Stays, ConvertKeeps
  <1>17. CASE Opens(t)
    BY <1>a, <1>17 DEF Opens, Shape, Stays, ConvertKeeps
  <1>18. CASE OpensNot(t)
    BY <1>a, <1>18, LeavesOn DEF OpensNot, Shape, Stays, ConvertKeeps
  <1>19. CASE ListsIso(t)
    BY <1>a, <1>19 DEF ListsIso, Shape, Stays, ConvertKeeps
  <1>20. CASE Writes(t)
    BY <1>a, <1>20 DEF Writes, Shape, Stays, ConvertKeeps
  <1>21. CASE Closes(t)
    BY <1>a, <1>21, LeavesOn DEF Closes, Shape, Stays, ConvertKeeps
  <1> QED
    BY <1>1, <1>2, <1>3, <1>4, <1>5, <1>6, <1>7, <1>8, <1>9, <1>10, <1>11, <1>12, <1>13, <1>14, <1>15, <1>16, <1>17, <1>18, <1>19, <1>20, <1>21 DEF ThreadStep

\* The other steps.
HelperShape ==
    /\ UNCHANGED <<pc, at, first, firstIso, inuse, main, run, opt, disk, smvtiso, setval, val, doit>>
    /\ \A k \in Kinds : lock'[k] = lock[k]

LEMMA HelpersShape ==
  ASSUME Base, NEW h \in Helpers, HelperStep(h)
  PROVE  HelperShape
  <1>1. hpc[h] \notin {"off", "over"} /\ UNCHANGED HelperKeeps
    BY DEF HelperStep, HelperLocks, HelperTests, HelperMarks, HelperReads
  <1>2. \A k \in Kinds : k # BoundLock(Kind[hat[h]])
    BY DEF Kinds, BoundLock
  <1>3. lock' = lock \/ Acquire(h, BoundLock(Kind[hat[h]])) \/ Release(BoundLock(Kind[hat[h]]))
    BY DEF HelperStep, HelperLocks, HelperTests, HelperMarks, HelperReads
  <1>4. \A k \in Kinds : lock'[k] = lock[k]
    BY <1>2, <1>3, LockNames, BaseFacts DEF Acquire, Release
  <1> QED
    BY <1>1, <1>4 DEF HelperShape, HelperKeeps, fileVars, boundVars, startVars

\* A thread that is created begins at the first file.
LEMMA CreateShape ==
  ASSUME Base, NEW t \in Threads, CreateThread(t)
  PROVE  /\ Lands(t, 1) /\ pc[t] = "new" /\ pc'[t] \in {"enter", "over"}
         /\ \A u \in Threads \ {t} : pc'[u] = pc[u] /\ at'[u] = at[u]
         /\ UNCHANGED <<fileVars, boundVars, helperVars, startVars, lock, first, firstIso, inuse>>
  BY Landing DEF CreateThread, Lands

\* A run that starts or is killed sets everything but the disk back.
LEMMA Resetting ==
  ASSUME Start \/ Kill
  PROVE  \E places \in [Threads -> {"new", "over"}] : Reset(places)
  <1>1. CASE Start
    <2>1. PICK team \in SUBSET Threads :
            Reset([t \in Threads |-> IF t \in team THEN "new" ELSE "over"])
      BY <1>1 DEF Start
    <2> QED
      BY <2>1
  <1>2. CASE Kill
    <2>1. Reset([t \in Threads |-> "over"])
      BY <1>2 DEF Kill
    <2> QED
      BY <2>1
  <1> QED
    BY <1>1, <1>2

-----------------------------------------------------------------------------
(* The claims.                                                             *)

\* A thread in the first phase or at a claim holds the mutex of its kind.
Holding == \A t \in Threads : pc[t] \in Inside => lock[Kind[at[t]]] = t

\* A thread claims what is not claimed, and converts what it has claimed.
Claimed ==
    \A t \in Threads :
        /\ pc[t] = "mark" => ~inuse[at[t]]
        /\ pc[t] \in Busy => inuse[at[t]]

Claims == Holding /\ Claimed /\ ClaimsExclusive

LEMMA ClaimsInit == Init => Claims
  BY DEF Init, Claims, Holding, Claimed, ClaimsExclusive, IsBusy, Inside, Phase, Claiming, Busy

LEMMA ThreadKeepsClaims ==
  ASSUME Base, Claims, NEW t \in Threads, Shape(t)
  PROVE  Claims'
  <1>a. /\ at[t] \in Files /\ Kind[at[t]] \in Kinds
        /\ \A u \in Threads : pc[u] \in Inside \cup Busy => at[u] \in Files /\ Kind[at[u]] \in Locks
        /\ inuse \in [Files -> BOOLEAN]
    BY LockNames, BaseFacts DEF Shape, Base, TypeOK, Inside, Phase, Claiming, Busy
  <1>b. pc'[t] \in Inside \cup Busy => at'[t] = at[t]
    BY DEF Shape, Leaves, Lands, Stays, Inside, Phase, Claiming, Busy
  <1>c. \A u \in Threads : pc[u] \in Inside => u # Nobody
    OBVIOUS
  <1>1. Holding'
    <2>1. ASSUME NEW u \in Threads \ {t}, pc'[u] \in Inside PROVE lock'[Kind[at'[u]]] = u
      <3>1. lock[Kind[at[u]]] = u /\ at'[u] = at[u] /\ pc[u] \in Inside
        BY <2>1 DEF Shape, Claims, Holding
      <3>2. CASE lock' = lock
        BY <3>1, <3>2
      <3>3. CASE Acquire(t, Kind[at[t]])
        BY <3>1, <3>3, <1>a, BaseFacts DEF Acquire
      <3>4. CASE Release(Kind[at[t]]) /\ pc[t] \in Inside
        BY <3>1, <3>4, <1>a, BaseFacts DEF Release, Claims, Holding
      <3> QED
        BY <3>2, <3>3, <3>4 DEF Shape
    <2>2. ASSUME pc'[t] \in Inside PROVE lock'[Kind[at'[t]]] = t
      <3>1. CASE lock' = lock /\ pc[t] \in Inside
        BY <3>1, <2>2, <1>b DEF Claims, Holding
      <3>2. CASE Acquire(t, Kind[at[t]])
        BY <3>2, <2>2, <1>a, <1>b, LockNames, BaseFacts DEF Acquire
      <3> QED
        BY <2>2, <3>1, <3>2 DEF Shape
    <2> QED
      BY <2>1, <2>2 DEF Holding
  <1>2. Claimed' /\ ClaimsExclusive'
    <2>1. ASSUME NEW u \in Threads \ {t}
          PROVE  /\ pc'[u] = "mark" => ~inuse'[at'[u]]
                 /\ pc'[u] \in Busy => inuse'[at'[u]] /\ inuse[at[u]]
      <3>1. pc'[u] = pc[u] /\ at'[u] = at[u]
        BY DEF Shape
      <3>2. ASSUME pc[u] = "mark", pc[t] = "mark" PROVE at[t] # at[u]
        BY <3>2 DEF Claims, Holding, Inside, Claiming
      <3>3. "mark" \in Inside
        BY DEF Inside, Claiming
      <3> QED
        BY <1>a, <3>1, <3>2, <3>3 DEF Shape, Claims, Claimed
    <2>2. /\ pc'[t] = "mark" => ~inuse'[at'[t]]
          /\ pc'[t] \in Busy => inuse'[at'[t]]
      <3>1. pc'[t] = "mark" => ~inuse'[at'[t]]
        BY <1>a, <1>b DEF Shape, Claims, Claimed, Inside, Claiming
      <3>2. ASSUME pc'[t] \in Busy PROVE inuse'[at'[t]]
        <4>1. pc[t] \in Busy \cup {"mark"} /\ pc'[t] # "mark" /\ at'[t] = at[t]
          BY <1>b, <3>2 DEF Shape, Busy
        <4> QED
          BY <1>a, <4>1 DEF Shape, Claims, Claimed
      <3> QED
        BY <3>1, <3>2
    <2>3. ASSUME NEW u \in Threads \ {t}, pc'[u] \in Busy, pc'[t] \in Busy PROVE at'[u] # at'[t]
      <3>1. at'[u] = at[u] /\ at'[t] = at[t] /\ inuse[at[u]] /\ pc[u] \in Busy
        BY <1>b, <2>1, <2>3 DEF Shape
      <3>2. pc[t] \in Busy \cup {"mark"}
        BY <2>3 DEF Shape
      <3> QED
        BY <3>1, <3>2 DEF Claims, Claimed, ClaimsExclusive, IsBusy
    <2>4. \A u, v \in Threads \ {t} : pc'[u] \in Busy /\ pc'[v] \in Busy /\ u # v => at'[u] # at'[v]
      BY DEF Shape, Claims, ClaimsExclusive, IsBusy
    <2>5. ClaimsExclusive'
      BY <2>3, <2>4 DEF ClaimsExclusive, IsBusy
    <2> QED
      BY <2>1, <2>2, <2>5 DEF Claimed
  <1> QED
    BY <1>1, <1>2 DEF Claims

LEMMA ClaimsStep ==
  ASSUME Base, Claims, [Next]_vars
  PROVE  Claims'
  <1> USE DEF Claims, Holding, Claimed, ClaimsExclusive, IsBusy
  <1>1. CASE UNCHANGED vars
    BY <1>1 DEF vars
  <1>2. CASE Start \/ Kill
    <2>1. PICK places \in [Threads -> {"new", "over"}] : Reset(places)
      BY <1>2, Resetting
    <2>2. \A t \in Threads : pc'[t] \in {"new", "over"}
      BY <2>1 DEF Reset
    <2> QED
      BY <2>2 DEF Inside, Phase, Claiming, Busy
  <1>3. CASE JoinThreads
    BY <1>3 DEF JoinThreads
  <1>4. ASSUME NEW t \in Threads, CreateThread(t) PROVE Claims'
    BY <1>4, CreateShape DEF Inside, Phase, Claiming, Busy
  <1>5. ASSUME NEW t \in Threads, ThreadStep(t) PROVE Claims'
    BY <1>5, StepShape, ThreadKeepsClaims
  <1>6. ASSUME NEW h \in Helpers, HelperStep(h) PROVE Claims'
    BY <1>6, HelpersShape, BaseFacts DEF HelperShape, Inside, Phase, Claiming, Busy
  <1> QED
    BY <1>1, <1>2, <1>3, <1>4, <1>5, <1>6 DEF Next, Work, MainStep

\* No file is converted by two threads.
THEOREM ClaimsAlwaysExclusive == Spec => []ClaimsExclusive
  <1>1. Base /\ Claims /\ [Next]_vars => (Base /\ Claims)'
    BY BaseStep, ClaimsStep
  <1> QED
    BY <1>1, BaseInit, ClaimsInit, PTL DEF Spec, Claims

-----------------------------------------------------------------------------
(* The first phases.                                                       *)

\* Thread t has come to file j, and to where the files are claimed.
Begun(t, j) == j < at[t] \/ (j = at[t] /\ pc[t] \in Converts)

\* The first phase of a kind is over.
Prepared(k) ==
    /\ k \notin first
    /\ \A t \in Threads : pc[t] \in Prepares => Kind[at[t]] # k

\* The first phase is run at the first file of a kind that has one; the thread
\* that prepares the bounds is the one that put the flag down.
PhaseOK ==
    \A t \in Threads :
        /\ pc[t] \in Phase => Kind[at[t]] \in Phased
        /\ pc[t] \in Prepares => Kind[at[t]] \in Bounded \ first /\ ~opt.clean
        /\ pc[t] \in Phase \cup {"enter"} => at[t] = 1 \/ Kind[at[t] - 1] # Kind[at[t]]

\* Whoever has come to a file comes after the first phase of its kind.
Order ==
    \A t \in Threads, j \in Files : Begun(t, j) /\ Kind[j] \in Phased => Prepared(Kind[j])

Phases == PhaseOK /\ Order

LEMMA PhasesInit == Init => Phases
  BY DEF Init, Phases, PhaseOK, Order, Begun, Prepares, Phase, Converts, Claiming, Busy, Files

\* A first phase that is over stays so.
LEMMA PreparedStays ==
  ASSUME NEW t \in Threads, Shape(t), NEW k, Prepared(k)
  PROVE  Prepared(k)'
  <1>1. k \notin first'
    BY DEF Shape, Prepared
  <1>2. \A u \in Threads \ {t} : pc'[u] \in Prepares => Kind[at'[u]] # k
    BY DEF Shape, Prepared
  <1>3. ASSUME pc'[t] \in Prepares PROVE Kind[at'[t]] # k
    <2>1. at'[t] = at[t] /\ (pc[t] \in Prepares \/ Kind[at[t]] \in first)
      BY <1>3 DEF Shape, Leaves, Lands, Stays, Prepares
    <2> QED
      BY <2>1 DEF Prepared
  <1> QED
    BY <1>1, <1>2, <1>3 DEF Prepared

\* The thread that ends a first phase, or finds it done, was alone in it.
LEMMA PreparedNow ==
  ASSUME Base, Claims, Phases, NEW t \in Threads, Shape(t), NEW k, k = Kind[at[t]],
         \/ pc[t] = "doit" /\ pc'[t] \notin Prepares
         \/ pc[t] = "first" /\ pc'[t] \notin Prepares /\ k \notin first'
  PROVE  Prepared(k)'
  <1>1. \A u \in Threads \ {t} : pc[u] \in Prepares => Kind[at[u]] # k
    BY DEF Claims, Holding, Inside, Phase, Prepares
  <1>2. k \notin first'
    BY DEF Phases, PhaseOK, Prepares, Shape
  <1> QED
    BY <1>1, <1>2 DEF Shape, Prepared

LEMMA ThreadKeepsPhases ==
  ASSUME Base, Claims, Phases, NEW t \in Threads, Shape(t)
  PROVE  Phases'
  <1>a. at[t] \in Files /\ Kind[at[t]] \in Kinds /\ at \in [Threads -> 1 .. N + 1]
    BY BaseFacts DEF Shape
  <1>b. pc'[t] \in Phase => at'[t] = at[t]
    BY DEF Shape, Leaves, Lands, Stays, Phase
  <1>1. PhaseOK'
    <2>1. ASSUME NEW u \in Threads \ {t}
          PROVE  /\ pc'[u] \in Phase => Kind[at'[u]] \in Phased
                 /\ pc'[u] \in Prepares => Kind[at'[u]] \in Bounded \ first' /\ ~opt'.clean
                 /\ pc'[u] \in Phase \cup {"enter"} => at'[u] = 1 \/ Kind[at'[u] - 1] # Kind[at'[u]]
      BY DEF Shape, Phases, PhaseOK
    <2>2. ASSUME pc'[t] \in Phase
          PROVE  /\ Kind[at'[t]] \in Phased
                 /\ at'[t] = 1 \/ Kind[at'[t] - 1] # Kind[at'[t]]
                 /\ pc'[t] \in Prepares => Kind[at'[t]] \in Bounded \ first' /\ ~opt'.clean
      <3>1. Stays(t)
        BY <2>2 DEF Shape, Leaves, Lands, Phase
      <3>2. CASE pc'[t] = "first"
        BY <3>1, <3>2, <1>b, <2>2 DEF Stays, Phases, PhaseOK, Prepares
      <3>3. CASE pc'[t] \in Prepares
        BY <3>1, <3>3, <1>b, <2>2 DEF Shape, Stays, Phases, PhaseOK, Prepares, Phase, Bounded, Phased
      <3> QED
        BY <2>2, <3>2, <3>3 DEF Phase, Prepares
    <2>3. pc'[t] \in Prepares => pc'[t] \in Phase
      BY DEF Prepares, Phase
    <2>4. pc'[t] = "enter" => at'[t] = 1 \/ Kind[at'[t] - 1] # Kind[at'[t]]
      BY DEF Shape, Leaves, Lands, Stays
    <2> QED
      BY <2>1, <2>2, <2>3, <2>4 DEF PhaseOK
  <1>2. Order'
    <2>1. ASSUME NEW u \in Threads \ {t}, NEW j \in Files, Begun(u, j)', Kind[j] \in Phased
          PROVE  Prepared(Kind[j])'
      <3>1. Begun(u, j)
        BY <2>1 DEF Shape, Begun
      <3> QED
        BY <2>1, <3>1, PreparedStays DEF Phases, Order
    <2>2. ASSUME NEW j \in Files, Begun(t, j)', Kind[j] \in Phased
          PROVE  Prepared(Kind[j])'
      <3>1. CASE Begun(t, j)
        BY <2>2, <3>1, PreparedStays DEF Phases, Order
      <3>2. CASE ~Begun(t, j) /\ Stays(t)
        <4>1. j = at[t] /\ pc'[t] \in Converts /\ pc[t] \notin Converts
          BY <2>2, <3>2 DEF Begun, Stays
        <4>2. pc'[t] \notin Prepares
          BY <4>1 DEF Prepares, Converts, Claiming, Busy
        <4> QED
          BY <2>2, <3>2, <4>1, <4>2, PreparedNow DEF Stays
      <3>3. CASE ~Begun(t, j) /\ Leaves(t)
        <4> PICK i \in 1 .. N + 1 :
              /\ Lands(t, i) /\ at[t] < i
              /\ \A n \in at[t] .. i - 1 : Kind[n] = Kind[at[t]]
              /\ \/ pc[t] \in Converts /\ i = at[t] + 1
                 \/ /\ pc'[t] # "loop" /\ opt.clean
                    /\ \/ pc[t] = "first" /\ Kind[at[t]] \notin first'
                       \/ pc[t] = "enter" /\ Kind[at[t]] = "volslice"
          BY <3>3 DEF Leaves
        <4>1. at'[t] = i /\ pc'[t] \in {"enter", "loop", "over"}
          BY DEF Lands
        <4>2. pc'[t] \in Converts => pc'[t] = "loop"
          BY <4>1 DEF Converts, Claiming, Busy
        <4>3. Kind[j] = Kind[at[t]]
          <5>1. j >= at[t] /\ j <= i
            BY <1>a, <2>2, <3>3, <4>1 DEF Begun, Files
          <5>2. CASE j < i
            <6>1. j \in at[t] .. i - 1
              BY <1>a, <5>1, <5>2 DEF Files
            <6> QED
              BY <6>1
          <5>3. CASE j = i
            <6>1. pc'[t] = "loop" /\ i = at[t] + 1
              BY <1>a, <2>2, <4>1, <4>2, <5>3 DEF Begun, Files
            <6>2. Kind[i - 1] = Kind[i] /\ i - 1 = at[t]
              BY <1>a, <6>1 DEF Lands, Files
            <6> QED
              BY <5>3, <6>2
          <5> QED
            BY <1>a, <5>1, <5>2, <5>3 DEF Files
        <4>4. CASE pc[t] \in Converts
          <5>1. Begun(t, at[t])
            BY <4>4 DEF Begun
          <5> QED
            BY <1>a, <2>2, <4>3, <5>1, PreparedStays DEF Phases, Order
        <4>5. CASE pc[t] = "first" /\ Kind[at[t]] \notin first'
          BY <4>1, <4>3, <4>5, PreparedNow DEF Prepares
        <4>6. CASE pc[t] = "enter" /\ Kind[at[t]] = "volslice"
          BY <2>2, <4>3, <4>6 DEF Phased
        <4> QED
          BY <4>4, <4>5, <4>6
      <3> QED
        BY <3>1, <3>2, <3>3 DEF Shape
    <2> QED
      BY <2>1, <2>2 DEF Order
  <1> QED
    BY <1>1, <1>2 DEF Phases

LEMMA PhasesStep ==
  ASSUME Base, Claims, Phases, [Next]_vars
  PROVE  Phases'
  <1> USE DEF Phases, PhaseOK, Order, Begun, Prepared
  <1>1. CASE UNCHANGED vars
    BY <1>1 DEF vars
  <1>2. CASE Start \/ Kill
    <2> PICK places \in [Threads -> {"new", "over"}] : Reset(places)
      BY <1>2, Resetting
    <2>1. \A t \in Threads : pc'[t] \in {"new", "over"} /\ at'[t] = 1
      BY DEF Reset
    <2>2. ASSUME NEW t \in Threads, NEW j \in Files PROVE ~Begun(t, j)'
      <3>1. at'[t] = 1 /\ pc'[t] \notin Converts /\ ~(j < 1)
        BY <2>1 DEF Converts, Claiming, Busy, Files
      <3> QED
        BY <3>1
    <2>3. PhaseOK'
      BY <2>1 DEF Phase, Prepares
    <2> QED
      BY <2>2, <2>3
  <1>3. CASE JoinThreads
    BY <1>3 DEF JoinThreads, startVars
  <1>4. ASSUME NEW t \in Threads, CreateThread(t) PROVE Phases'
    <2>1. PhaseOK'
      BY <1>4, CreateShape DEF Phase, Prepares, startVars, Lands
    <2>2. \A j \in Files : ~Begun(t, j)'
      BY <1>4, CreateShape DEF Converts, Claiming, Busy, Lands, Files
    <2>3. \A k : Prepared(k) => Prepared(k)'
      BY <1>4, CreateShape DEF Prepares
    <2> QED
      BY <1>4, <2>1, <2>2, <2>3, CreateShape
  <1>5. ASSUME NEW t \in Threads, ThreadStep(t) PROVE Phases'
    BY <1>5, StepShape, ThreadKeepsPhases
  <1>6. ASSUME NEW h \in Helpers, HelperStep(h) PROVE Phases'
    BY <1>6, HelpersShape DEF HelperShape
  <1> QED
    BY <1>1, <1>2, <1>3, <1>4, <1>5, <1>6 DEF Next, Work, MainStep

\* No two threads prepare bounds at the same time.
LEMMA PreparesAlone ==
  ASSUME Base, Claims, Phases, NEW t \in Threads, NEW u \in Threads,
         pc[t] \in Prepares, pc[u] \in Prepares
  PROVE  t = u
  <1>1. at[t] \in Files /\ at[u] \in Files
    BY BaseFacts DEF Prepares
  <1>2. \A v, w \in Threads : pc[v] \in Prepares /\ pc[w] \in Prepares => ~(at[v] < at[w])
    <2> SUFFICES ASSUME NEW v \in Threads, NEW w \in Threads,
                        pc[v] \in Prepares, pc[w] \in Prepares, at[v] < at[w]
                 PROVE  FALSE
      OBVIOUS
    <2>1. at[v] \in Files /\ Kind[at[v]] \in Phased
      BY BaseFacts DEF Phases, PhaseOK, Prepares, Phase
    <2>2. Prepared(Kind[at[v]])
      BY <2>1 DEF Phases, Order, Begun
    <2> QED
      BY <2>2 DEF Prepared
  <1>3. at[t] = at[u]
    BY <1>1, <1>2 DEF Files
  <1> QED
    BY <1>3 DEF Claims, Holding, Inside, Phase, Prepares

-----------------------------------------------------------------------------
(* The bounds.                                                             *)

\* While a thread waits for its helpers, each of them has marked all files of
\* the kind that it has passed, and every marked file has been read or is
\* being read.
Scanning ==
    \A t \in Threads : pc[t] = "wait" =>
        /\ \A h \in Helpers :
              /\ hpc[h] # "off"
              /\ hpc[h] # "over" => Kind[hat[h]] = Kind[at[t]]
              /\ \A j \in Of(Kind[at[t]]) :
                    j < hat[h] \/ hpc[h] = "over" \/ (hpc[h] = "read" /\ hat[h] = j) => j \in inget
        /\ \A j \in Of(Kind[at[t]]) \cap inget :
              j \in hist \/ \E h \in Helpers : hpc[h] = "read" /\ hat[h] = j

\* The bounds of the .ini file stay set for the first file of a label, and
\* reach the other boundary files in the first phase.
IniSet == \A i \in Ini : Lead[i] = i => setval[i]

Copied ==
    \A t \in Threads :
        /\ pc[t] = "copy" => Kind[at[t]] = "patch"
        /\ pc[t] \in {"spawn", "wait", "doit"} /\ Kind[at[t]] = "patch" =>
              \A i \in Of("patch") \cap Zip : Lead[i] \in Ini => setval[i]

\* With -bounds, all files of the kind have the bounds of their label at the
\* end of the first phase.
Merged ==
    \A t \in Threads : pc[t] = "doit" /\ opt.bounds =>
        \A i \in Of(Kind[at[t]]) : setval[i] /\ val[i] = Same(i)

\* Files to be converted have their bounds, and those that must be converted
\* are among them.
DoitOK ==
    \A i \in Files : doit[i] =>
        /\ Kind[i] \in Bounded /\ Prepared(Kind[i])
        /\ setval[i] /\ (opt.bounds => val[i] = Same(i))

DoitWanted ==
    \A i \in Wanted : Kind[i] \in Bounded /\ Prepared(Kind[i]) /\ ~opt.clean => doit[i]

\* What a thread claims or converts is to be converted.
Chosen ==
    \A t \in Threads :
        /\ pc[t] \in Claiming \cup Busy /\ Kind[at[t]] = "patch" => doit[at[t]]
        /\ pc[t] \in Busy /\ Kind[at[t]] = "slice" => doit[at[t]]

Values == IniSet /\ Copied /\ Merged /\ DoitOK /\ DoitWanted /\ Chosen

LEMMA BoundsInit == Init => Scanning /\ Values
  <1> SUFFICES ASSUME Init PROVE Scanning /\ Values
    OBVIOUS
  <1>1. \A t \in Threads : pc[t] = "over"
    BY DEF Init
  <1>2. Scanning /\ Copied /\ Merged /\ Chosen
    BY <1>1 DEF Scanning, Copied, Merged, Chosen, Claiming, Busy
  <1>3. IniSet /\ DoitOK
    BY DEF Init, IniSet, DoitOK
  <1>4. DoitWanted
    BY DEF Init, DoitWanted, Prepared, Bounded, Phased
  <1> QED
    BY <1>2, <1>3, <1>4 DEF Values

\* A step that leaves the bounds and the helpers alone.
Rest(t) ==
    /\ UNCHANGED <<boundVars, helperVars>>
    /\ pc[t] \notin Prepares /\ pc'[t] \notin Prepares
    /\ first' = first \/ opt.clean
    /\ pc'[t] \in Claiming =>
          pc[t] \in Claiming \/ (pc[t] = "loop" /\ (Kind[at[t]] = "patch" => doit[at[t]]))
    /\ pc'[t] \in Busy =>
          pc[t] \in Busy \/ (pc[t] = "mark" /\ (Kind[at[t]] = "slice" => doit[at[t]]))

Preparing(t) == First(t) \/ CopyPatchBounds(t) \/ SpawnHelpers(t) \/ MergeBounds(t) \/ SetDoit(t)

LEMMA RestOrPreparing ==
  ASSUME Base, NEW t \in Threads, ThreadStep(t)
  PROVE  Preparing(t) \/ Rest(t)
  <1> USE DEF Prepares, Claiming, Busy
  <1>a. pc \in [Threads -> Spots] /\ (pc[t] # "over" => at[t] \in Files \/ pc[t] = "new")
    BY BaseFacts
  <1>b. ASSUME UNCHANGED <<boundVars, helperVars>>, GoOn(t), pc[t] \in Converts, first' = first
        PROVE  Rest(t)
    <2>1. pc'[t] \in {"enter", "loop", "over"}
      BY <1>b, LeavesOn
    <2> QED
      BY <1>b, <2>1 DEF Rest, Converts
  <1>c. ASSUME UNCHANGED <<boundVars, helperVars>>, GoPast(t), pc[t] \in {"first", "enter"}, opt.clean
        PROVE  Rest(t)
    <2>1. at[t] \in Files
      BY <1>a, <1>c
    <2>2. pc'[t] \in {"enter", "loop", "over"}
      BY <1>c, <2>1, GoingPast DEF Lands
    <2> QED
      BY <1>c, <2>2 DEF Rest
  <1>1. CASE EnterPhase(t)
    BY <1>a, <1>1 DEF EnterPhase, Rest
  <1>2. CASE EnterVolslices(t)
    BY <1>a, <1>c, <1>2 DEF EnterVolslices, Rest
  <1>3. CASE EnterSmoke3ds(t)
    BY <1>a, <1>3 DEF EnterSmoke3ds, Rest
  <1>4. CASE FirstCleans(t)
    BY <1>c, <1>4 DEF FirstCleans
  <1>5. CASE NotFirst(t)
    BY <1>a, <1>c, <1>5 DEF NotFirst, Rest
  <1>6. CASE PassBy(t)
    BY <1>b, <1>6 DEF PassBy, Converts
  <1>7. CASE ClaimLocks(t)
    BY <1>a, <1>7 DEF ClaimLocks, Rest, PassedBy
  <1>8. CASE ClaimTests(t)
    BY <1>a, <1>b, <1>8 DEF ClaimTests, Rest, Converts
  <1>9. CASE ClaimMarks(t)
    BY <1>a, <1>b, <1>9 DEF ClaimMarks, Rest, Converts
  <1>10. CASE Refuses(t)
    BY <1>b, <1>10 DEF Refuses, ConvertKeeps, Converts
  <1>11. CASE CleansSmoke(t)
    BY <1>b, <1>11 DEF CleansSmoke, ConvertKeeps, Converts
  <1>12. CASE Opens(t)
    BY <1>a, <1>12 DEF Opens, ConvertKeeps, Rest
  <1>13. CASE OpensNot(t)
    BY <1>b, <1>13 DEF OpensNot, ConvertKeeps, Converts
  <1>14. CASE ListsIso(t)
    BY <1>a, <1>14 DEF ListsIso, ConvertKeeps, Rest
  <1>15. CASE Writes(t)
    BY <1>a, <1>15 DEF Writes, ConvertKeeps, Rest
  <1>16. CASE Closes(t)
    BY <1>b, <1>16 DEF Closes, ConvertKeeps, Converts
  <1> QED
    BY <1>1, <1>2, <1>3, <1>4, <1>5, <1>6, <1>7, <1>8, <1>9, <1>10, <1>11, <1>12, <1>13, <1>14, <1>15,
       <1>16 DEF ThreadStep, Preparing

\* The first file of a kind comes before all others of it, and no file of a
\* kind comes after one of the next.
LEMMA KindBorders ==
  ASSUME NEW i \in Files, NEW j \in Files, Kind[j] = Kind[i]
  PROVE  /\ i = 1 \/ Kind[i - 1] # Kind[i] => i <= j
         /\ i = N \/ Kind[i + 1] # Kind[i] => j <= i
  <1>1. ASSUME j < i, i # 1 PROVE Kind[i - 1] = Kind[i]
    <2>1. i - 1 \in Files /\ (j = i - 1 \/ (j < i - 1 /\ i - 1 < i))
      BY <1>1 DEF Files
    <2> QED
      BY <2>1, KindsTogether
  <1>2. ASSUME i < j, i # N PROVE Kind[i + 1] = Kind[i]
    <2>1. i + 1 \in Files /\ (j = i + 1 \/ (i < i + 1 /\ i + 1 < j))
      BY <1>2 DEF Files
    <2> QED
      BY <2>1, KindsTogether
  <1> QED
    BY <1>1, <1>2 DEF Files

\* What the helpers do.
LEMMA HelpersKeepScanning ==
  ASSUME Base, Phases, Scanning, NEW h \in Helpers, HelperStep(h)
  PROVE  Scanning'
  <1>a. HelperShape /\ hpc[h] \notin {"off", "over"} /\ hat[h] \in Files
    BY HelpersShape DEF HelperStep, HelperLocks, HelperTests, HelperMarks, HelperReads, Base, PlacesOK
  <1> SUFFICES ASSUME NEW t \in Threads, pc[t] = "wait", NEW k \in Kinds, k = Kind[at[t]]
               PROVE  /\ \A g \in Helpers :
                            /\ hpc'[g] # "off"
                            /\ hpc'[g] # "over" => Kind[hat'[g]] = k
                            /\ \A j \in Of(k) :
                                  j < hat'[g] \/ hpc'[g] = "over" \/ (hpc'[g] = "read" /\ hat'[g] = j)
                                  => j \in inget'
                      /\ \A j \in Of(k) \cap inget' :
                            j \in hist' \/ \E g \in Helpers : hpc'[g] = "read" /\ hat'[g] = j
    BY <1>a, BaseFacts DEF HelperShape, Scanning
  <1>b. /\ \A g \in Helpers :
              /\ hpc[g] # "off"
              /\ hpc[g] # "over" => Kind[hat[g]] = k
              /\ \A j \in Of(k) :
                    j < hat[g] \/ hpc[g] = "over" \/ (hpc[g] = "read" /\ hat[g] = j) => j \in inget
        /\ \A j \in Of(k) \cap inget :
              j \in hist \/ \E g \in Helpers : hpc[g] = "read" /\ hat[g] = j
    BY DEF Scanning
  <1>c. Kind[hat[h]] = k /\ \A j \in Of(k) : j \in Files /\ Kind[j] = k
    BY <1>a, <1>b DEF Of
  <1>d. hpc \in [Helpers -> HelperSpots] /\ hat \in [Helpers -> 1 .. N + 1]
    BY BaseFacts
  <1>e. ASSUME HelperGoesOn(h), hat[h] \in inget
        PROVE  /\ hpc'[h] \in {"loop", "over"}
               /\ hpc'[h] # "over" => Kind[hat'[h]] = k
               /\ \A j \in Of(k) : j < hat'[h] \/ hpc'[h] = "over" => j \in inget
               /\ \A g \in Helpers \ {h} : hpc'[g] = hpc[g] /\ hat'[g] = hat[g]
    <2>1. /\ hat'[h] = hat[h] + 1 /\ hpc'[h] \in {"loop", "over"}
          /\ hpc'[h] = "over" <=> hat[h] + 1 > N \/ Kind[hat[h] + 1] # k
          /\ \A g \in Helpers \ {h} : hpc'[g] = hpc[g] /\ hat'[g] = hat[g]
      BY <1>c, <1>d, <1>e DEF HelperGoesOn
    <2>2. ASSUME NEW j \in Of(k), j < hat'[h] \/ hpc'[h] = "over" PROVE j \in inget
      <3>1. j <= hat[h]
        BY SMTT(30), <1>a, <1>c, <2>1, <2>2, KindBorders DEF Files
      <3>2. j = hat[h] \/ j < hat[h]
        BY <1>a, <1>c, <3>1 DEF Files
      <3> QED
        BY <1>b, <1>e, <3>2
    <2> QED
      BY <2>1, <2>2
  <1>1. CASE HelperLocks(h)
    BY <1>1, <1>b, <1>d DEF HelperLocks
  <1>2. CASE HelperTests(h)
    <2>1. CASE hat[h] \in inget
      BY <1>2, <1>b, <1>e, <2>1 DEF HelperTests, HelperKeeps
    <2>2. CASE hat[h] \notin inget
      BY <1>2, <1>b, <1>d, <2>2 DEF HelperTests, HelperKeeps
    <2> QED
      BY <2>1, <2>2
  <1>3. CASE HelperMarks(h)
    BY <1>3, <1>b, <1>d DEF HelperMarks
  <1>4. CASE HelperReads(h)
    <2>1. HelperGoesOn(h) /\ hist' = hist \cup {hat[h]} /\ inget' = inget /\ hpc[h] = "read"
      BY <1>4 DEF HelperReads
    <2>2. hat[h] \in inget
      BY <1>a, <1>b, <1>c, <2>1 DEF Of
    <2> QED
      BY <1>b, <1>e, <2>1, <2>2
  <1> QED
    BY <1>1, <1>2, <1>3, <1>4 DEF HelperStep

\* What the threads do.
LEMMA ThreadKeepsScanning ==
  ASSUME Base, Claims, Phases, Scanning, NEW t \in Threads, ThreadStep(t)
  PROVE  Scanning'
  <1>a. Shape(t)
    BY StepShape
  <1>b. \A u \in Threads \ {t} : pc'[u] = pc[u] /\ at'[u] = at[u]
    BY <1>a DEF Shape
  <1>1. ASSUME UNCHANGED helperVars, pc'[t] # "wait" PROVE Scanning'
    BY <1>1, <1>b DEF helperVars, Scanning
  <1>2. CASE Rest(t)
    BY <1>1, <1>2 DEF Rest, Prepares
  <1>3. CASE First(t) \/ CopyPatchBounds(t) \/ SetDoit(t)
    BY <1>1, <1>3, BaseFacts DEF First, CopyPatchBounds, SetDoit, helperVars
  <1>c. ASSUME pc[t] \in Prepares PROVE \A u \in Threads \ {t} : pc'[u] # "wait"
    BY <1>b, <1>c, PreparesAlone DEF Prepares
  <1>4. CASE SpawnHelpers(t)
    <2>1. /\ at' = at /\ at[t] \in Files
          /\ at[t] = 1 \/ Kind[at[t] - 1] # Kind[at[t]]
          /\ inget' = inget \ Of(Kind[at[t]])
          /\ \A h \in Helpers : hpc'[h] = "loop" /\ hat'[h] = at[t]
      BY <1>4, BaseFacts DEF SpawnHelpers, Phases, PhaseOK, Phase
    <2>2. \A j \in Of(Kind[at[t]]) : ~(j < at[t])
      BY SMTT(30), <2>1, KindBorders DEF Of, Files
    <2> QED
      BY <1>4, <1>c, <2>1, <2>2 DEF Scanning, SpawnHelpers, Prepares
  <1>5. CASE MergeBounds(t)
    <2>1. pc'[t] # "wait"
      BY <1>5, BaseFacts DEF MergeBounds
    <2> QED
      BY <1>5, <1>c, <2>1 DEF Scanning, MergeBounds, Prepares
  <1> QED
    BY <1>2, <1>3, <1>4, <1>5, RestOrPreparing DEF Preparing

LEMMA ScanningStep ==
  ASSUME Base, Claims, Phases, Scanning, [Next]_vars
  PROVE  Scanning'
  <1>1. CASE UNCHANGED vars
    BY <1>1 DEF vars, Scanning
  <1>2. CASE Start \/ Kill
    <2> PICK places \in [Threads -> {"new", "over"}] : Reset(places)
      BY <1>2, Resetting
    <2>1. \A t \in Threads : pc'[t] # "wait"
      BY DEF Reset
    <2> QED
      BY <2>1 DEF Scanning
  <1>3. CASE JoinThreads
    BY <1>3 DEF JoinThreads, helperVars, Scanning
  <1>4. ASSUME NEW t \in Threads, CreateThread(t) PROVE Scanning'
    BY <1>4, CreateShape DEF helperVars, Scanning
  <1>5. ASSUME NEW t \in Threads, ThreadStep(t) PROVE Scanning'
    BY <1>5, ThreadKeepsScanning
  <1>6. ASSUME NEW h \in Helpers, HelperStep(h) PROVE Scanning'
    BY <1>6, HelpersKeepScanning
  <1> QED
    BY <1>1, <1>2, <1>3, <1>4, <1>5, <1>6 DEF Next, Work, MainStep

\* Who has come to claim a file of a kind finds its first phase over.
LEMMA ConvertsPrepared ==
  ASSUME Base, Phases, NEW t \in Threads, pc[t] \in Converts, Kind[at[t]] \in Phased
  PROVE  at[t] \in Files /\ Prepared(Kind[at[t]])
  <1>1. at[t] \in Files
    BY BaseFacts DEF Converts, Claiming, Busy
  <1> QED
    BY <1>1 DEF Phases, Order, Begun

\* Where the values do not change, and no first phase ends.
LEMMA ValuesKept ==
  ASSUME Base, Values, NEW t \in Threads, Shape(t), UNCHANGED boundVars,
         pc'[t] = "copy" => Kind[at'[t]] = "patch",
         pc'[t] \in {"spawn", "wait", "doit"} /\ Kind[at'[t]] = "patch" =>
             pc[t] \in {"spawn", "wait", "doit"} /\ at'[t] = at[t],
         pc'[t] = "doit" => ~opt.bounds,
         pc[t] \in Prepares => pc'[t] \in Prepares /\ at'[t] = at[t],
         \/ first' = first \/ opt.clean
         \/ first' = first \ {Kind[at'[t]]} /\ (Kind[at'[t]] \in Bounded => pc'[t] \in Prepares),
         Chosen'
  PROVE  Values'
  <1>a. \A u \in Threads \ {t} : pc'[u] = pc[u] /\ at'[u] = at[u]
    BY DEF Shape
  <1>b. UNCHANGED <<setval, val, doit, opt>> /\ Wanted' = Wanted
    BY DEF Shape, boundVars, Wanted
  <1>1. IniSet' /\ Copied' /\ Merged'
    BY <1>a, <1>b DEF Values, IniSet, Copied, Merged
  <1>2. DoitOK'
    BY <1>b, PreparedStays DEF Values, DoitOK
  <1>3. ASSUME NEW k \in Bounded, Prepared(k)', ~opt.clean PROVE Prepared(k)
    <2>1. k \notin first
      BY <1>3 DEF Prepared
    <2>2. pc[t] \in Prepares => Kind[at[t]] # k
      BY <1>3 DEF Prepared
    <2> QED
      BY <1>3, <1>a, <2>1, <2>2 DEF Prepared
  <1>4. DoitWanted'
    BY <1>b, <1>3 DEF Values, DoitWanted
  <1> QED
    BY <1>1, <1>2, <1>4 DEF Values

\* A thread at its files finds what it has chosen as it was, unless a first
\* phase of its kind ends.
LEMMA ChosenKept ==
  ASSUME Base, Phases, Values, NEW t \in Threads, NEW u \in Threads, pc[t] \in Prepares,
         pc[u] \in Claiming \cup Busy, Kind[at[u]] \in Bounded
  PROVE  at[u] \in Files /\ Kind[at[u]] # Kind[at[t]]
  <1>1. at[u] \in Files /\ Prepared(Kind[at[u]])
    BY ConvertsPrepared DEF Converts, Bounded, Phased
  <1> QED
    BY <1>1 DEF Prepared

LEMMA ThreadKeepsValues ==
  ASSUME Base, Claims, Phases, Scanning, Values, NEW t \in Threads, ThreadStep(t)
  PROVE  Values'
  <1>a. Shape(t)
    BY StepShape
  <1>b. /\ \A u \in Threads \ {t} : pc'[u] = pc[u] /\ at'[u] = at[u]
        /\ opt' = opt /\ Wanted' = Wanted
        /\ at[t] \in Files
    BY <1>a, BaseFacts DEF Shape, Wanted
  <1>1. CASE Rest(t)
    <2>1. Chosen'
      <3>1. pc'[t] \in Claiming \cup Busy => at'[t] = at[t]
        BY <1>a DEF Shape, Leaves, Lands, Stays, Claiming, Busy
      <3>2. doit' = doit
        BY <1>1 DEF Rest, boundVars
      <3>3. Kind[at[t]] = "patch" /\ pc'[t] \in Claiming \cup Busy => doit[at[t]]
        BY <1>1 DEF Rest, Values, Chosen, Claiming
      <3>4. Kind[at[t]] = "slice" /\ pc'[t] \in Busy => doit[at[t]]
        BY <1>1 DEF Rest, Values, Chosen
      <3> QED
        BY <1>b, <3>1, <3>2, <3>3, <3>4 DEF Values, Chosen
    <2> QED
      BY <1>a, <1>1, <2>1, ValuesKept DEF Rest, Prepares
  <1>c. ASSUME pc'[t] \notin Claiming \cup Busy, doit' = doit PROVE Chosen'
    BY <1>b, <1>c DEF Values, Chosen
  <1>2. CASE First(t)
    <2>1. /\ UNCHANGED boundVars /\ at' = at /\ pc[t] = "first"
          /\ first' = first \ {Kind[at[t]]}
          /\ pc'[t] = IF Kind[at[t]] = "part" THEN "loop"
                      ELSE IF Kind[at[t]] = "patch" THEN "copy"
                      ELSE IF opt.bounds THEN "spawn" ELSE "doit"
      BY <1>2, BaseFacts DEF First
    <2>2. Chosen'
      BY <1>c, <2>1 DEF boundVars, Claiming, Busy
    <2> QED
      BY <1>a, <2>1, <2>2, ValuesKept DEF Prepares, Bounded
  <1>3. CASE SpawnHelpers(t)
    <2>1. UNCHANGED <<boundVars, at, first>> /\ pc[t] = "spawn" /\ pc'[t] = "wait"
      BY <1>3, BaseFacts DEF SpawnHelpers
    <2>2. Chosen'
      BY <1>c, <2>1 DEF boundVars, Claiming, Busy
    <2> QED
      BY <1>a, <2>1, <2>2, ValuesKept DEF Prepares
  <1>d. ASSUME pc[t] \in Prepares
        PROVE  /\ \A u \in Threads \ {t} : pc'[u] \notin Prepares
               /\ ~opt.clean /\ Kind[at[t]] \in Bounded /\ ~Prepared(Kind[at[t]])
    BY <1>b, <1>d, PreparesAlone DEF Phases, PhaseOK, Prepared
  <1>e. ASSUME pc[t] \in Prepares, pc'[t] \in Prepares, at'[t] = at[t], first' = first,
               doit' = doit,
               \A i \in Files : Kind[i] # Kind[at[t]] => setval'[i] = setval[i] /\ val'[i] = val[i]
        PROVE  DoitOK' /\ DoitWanted' /\ Chosen'
    <2>1. \A k : Prepared(k)' <=> Prepared(k)
      BY <1>a, <1>b, <1>e DEF Prepared
    <2>2. DoitOK'
      BY <1>b, <1>d, <1>e, <2>1 DEF Values, DoitOK
    <2>3. DoitWanted'
      BY <1>b, <1>e, <2>1 DEF Values, DoitWanted
    <2>4. Chosen'
      BY <1>c, <1>e DEF Prepares, Claiming, Busy
    <2> QED
      BY <2>2, <2>3, <2>4
  <1>4. CASE CopyPatchBounds(t)
    <2>1. /\ TakeLeads("patch") /\ UNCHANGED <<at, first, doit>> /\ pc[t] = "copy"
          /\ pc'[t] = IF opt.bounds THEN "spawn" ELSE "doit"
      BY <1>4, BaseFacts DEF CopyPatchBounds
    <2>2. Kind[at[t]] = "patch"
      BY <2>1 DEF Values, Copied
    <2>3. IniSet'
      BY <2>1 DEF TakeLeads, Values, IniSet
    <2>4. Copied'
      BY <1>b, <1>d, <2>1 DEF TakeLeads, Values, IniSet, Copied, Of, Prepares
    <2>5. Merged'
      BY <1>b, <1>d, <2>1 DEF Merged, Prepares
    <2>6. \A i \in Files : Kind[i] # "patch" => setval'[i] = setval[i] /\ val'[i] = val[i]
      BY <2>1 DEF TakeLeads, Of
    <2> QED
      BY <1>e, <2>1, <2>2, <2>3, <2>4, <2>5, <2>6 DEF Values, Prepares
  <1>5. CASE MergeBounds(t)
    <2> DEFINE k == Kind[at[t]]
    <2>1. /\ UNCHANGED <<at, first, doit>> /\ pc[t] = "wait" /\ pc'[t] = "doit"
          /\ \A h \in Helpers : hpc[h] = "over"
          /\ setval' = [i \in Files |-> i \in Of(k) \/ setval[i]]
          /\ val' = [i \in Files |-> IF i \in Of(k) THEN Same(i) \cap hist ELSE val[i]]
      BY <1>5, BaseFacts DEF MergeBounds
    <2>2. ASSUME NEW i \in Of(k) PROVE val'[i] = Same(i)
      <3>1. Of(k) \subseteq hist
        BY <2>1, SomeThreads DEF Scanning
      <3>2. Same(i) \subseteq Of(k)
        BY <2>2 DEF Same, Of
      <3> QED
        BY <2>1, <3>1, <3>2 DEF Of
    <2>3. IniSet'
      BY <2>1 DEF Values, IniSet
    <2>4. Copied'
      BY <1>b, <1>d, <2>1 DEF Values, Copied, Of, Prepares
    <2>5. Merged'
      BY <1>b, <1>d, <2>1, <2>2 DEF Merged, Of, Prepares
    <2>6. \A i \in Files : Kind[i] # k => setval'[i] = setval[i] /\ val'[i] = val[i]
      BY <2>1 DEF Of, Base, TypeOK
    <2> QED
      BY <1>e, <2>1, <2>3, <2>4, <2>5, <2>6 DEF Values, Prepares
  <1>6. CASE SetDoit(t)
    <2> PICK k \in Bounded : k = Kind[at[t]] /\ pc[t] = "doit"
      BY <1>6, <1>d DEF SetDoit, Prepares
    <2>1. /\ UNCHANGED <<at, first>> /\ pc'[t] = "loop"
          /\ IF k = "slice" THEN TakeLeads(k) ELSE UNCHANGED <<setval, val>>
          /\ doit' = [i \in Files |-> IF i \in Of(k) /\ (k = "slice" => i \in Zip)
                                      THEN setval'[i] ELSE doit[i]]
      BY <1>6, BaseFacts DEF SetDoit
    <2>2. \A j : Prepared(j)' <=> Prepared(j) \/ j = k
      <3>1. Prepared(k)'
        BY <1>a, <2>1, PreparedNow DEF Prepares
      <3>2. ASSUME NEW j, Prepared(j)', j # k PROVE Prepared(j)
        BY <1>b, <2>1, <3>2 DEF Prepared, Prepares
      <3> QED
        BY <1>a, <3>1, <3>2, PreparedStays
    <2>3. IniSet'
      BY <2>1 DEF TakeLeads, Values, IniSet
    <2>4. Copied' /\ Merged'
      BY <1>b, <1>d, <2>1 DEF Copied, Merged, Prepares
    <2>5. \A i \in Files : Kind[i] # k =>
              setval'[i] = setval[i] /\ val'[i] = val[i] /\ doit'[i] = doit[i]
      BY <2>1 DEF TakeLeads, Of
    <2>6. ASSUME NEW i \in Of(k), ~(k = "slice" /\ i \notin Zip)
          PROVE  /\ doit'[i] = setval'[i]
                 /\ opt.bounds => setval'[i] /\ val'[i] = Same(i)
                 /\ i \in Zip /\ Lead[i] \in Ini => setval'[i]
      <3>1. \A j \in Of(k) : opt.bounds => setval[j] /\ val[j] = Same(j)
        BY DEF Values, Merged
      <3>2. Lead[i] \in Of(k) /\ Same(Lead[i]) = Same(i) /\ i \in Files
        BY <2>6 DEF Of, Same
      <3>3. CASE k = "slice"
        <4>1. setval'[i] = setval[Lead[i]] /\ val'[i] = val[Lead[i]]
          BY <2>1, <2>6, <3>3 DEF TakeLeads, Of
        <4> QED
          BY <2>1, <2>6, <3>1, <3>2, <3>3, <4>1 DEF Values, IniSet
      <3>4. CASE k # "slice"
        <4>1. setval'[i] = setval[i] /\ val'[i] = val[i]
          BY <2>1, <3>4
        <4>2. k = "patch"
          BY <3>4 DEF Bounded
        <4> QED
          <5>1. doit'[i] = setval'[i]
            BY <2>1, <2>6, <3>2, <3>4
          <5>2. opt.bounds => setval'[i] /\ val'[i] = Same(i)
            BY <2>6, <3>1, <4>1
          <5>3. i \in Zip /\ Lead[i] \in Ini => setval'[i]
            BY <2>1, <2>6, <4>1, <4>2 DEF Values, Copied
          <5> QED
            BY <5>1, <5>2, <5>3
      <3> QED
        BY <3>3, <3>4
    <2>7. \A i \in Of(k) : k = "slice" /\ i \notin Zip => ~doit'[i]
      BY <1>d, <2>1 DEF Values, DoitOK, Of, Prepares
    <2>8. DoitOK'
      BY <1>b, <2>2, <2>5, <2>6, <2>7 DEF Values, DoitOK, Of
    <2>9. DoitWanted'
      <3>1. ASSUME NEW i \in Wanted, Kind[i] \in Bounded, Prepared(Kind[i])' PROVE doit'[i]
        <4>1. i \in Files /\ i \in Zip /\ (opt.bounds \/ Lead[i] \in Ini)
          BY <1>d, <3>1 DEF Wanted, Bounded, Prepares
        <4>2. CASE Kind[i] = k
          BY <2>6, <4>1, <4>2 DEF Of
        <4>3. CASE Kind[i] # k
          BY <1>d, <2>2, <2>5, <3>1, <4>1, <4>3 DEF Values, DoitWanted, Prepares
        <4> QED
          BY <4>2, <4>3
      <3> QED
        BY <1>b, <3>1 DEF DoitWanted
    <2>10. Chosen'
      <3>1. ASSUME NEW u \in Threads \ {t}, pc[u] \in Claiming \cup Busy, Kind[at[u]] \in Bounded
            PROVE  doit'[at[u]] = doit[at[u]]
        BY <2>5, <3>1, ChosenKept DEF Prepares
      <3> QED
        BY <1>b, <2>1, <3>1 DEF Values, Chosen, Claiming, Busy, Bounded
    <2> QED
      BY <2>3, <2>4, <2>8, <2>9, <2>10 DEF Values
  <1> QED
    BY <1>1, <1>2, <1>3, <1>4, <1>5, <1>6, RestOrPreparing DEF Preparing

LEMMA ValuesStep ==
  ASSUME Base, Claims, Phases, Scanning, Values, [Next]_vars
  PROVE  Values'
  <1>a. ASSUME UNCHANGED <<boundVars, pc, at, first, opt>> PROVE Values'
    BY <1>a DEF boundVars, Values, IniSet, Copied, Merged, DoitOK, DoitWanted, Chosen, Prepared, Wanted
  <1>1. CASE UNCHANGED vars
    BY <1>1, <1>a DEF vars, boundVars
  <1>2. CASE Start \/ Kill
    <2> PICK places \in [Threads -> {"new", "over"}] : Reset(places)
      BY <1>2, Resetting
    <2>1. Copied' /\ Merged' /\ Chosen'
      BY DEF Reset, Copied, Merged, Chosen, Claiming, Busy
    <2>2. IniSet' /\ DoitOK'
      BY DEF Reset, IniSet, DoitOK
    <2>3. DoitWanted'
      BY DEF Reset, DoitWanted, Prepared, Bounded, Phased
    <2> QED
      BY <2>1, <2>2, <2>3 DEF Values
  <1>3. CASE JoinThreads
    BY <1>3, <1>a DEF JoinThreads, startVars
  <1>4. ASSUME NEW t \in Threads, CreateThread(t) PROVE Values'
    <2>1. /\ pc[t] = "new" /\ pc'[t] \in {"enter", "over"}
          /\ \A u \in Threads \ {t} : pc'[u] = pc[u] /\ at'[u] = at[u]
          /\ UNCHANGED <<setval, val, doit, opt, first>> /\ Wanted' = Wanted
      BY <1>4, CreateShape DEF boundVars, startVars, Wanted
    <2>2. \A k : Prepared(k)' <=> Prepared(k)
      BY <2>1 DEF Prepared, Prepares
    <2>3. Copied' /\ Merged' /\ Chosen'
      BY <2>1 DEF Values, Copied, Merged, Chosen, Claiming, Busy
    <2>4. IniSet' /\ DoitOK' /\ DoitWanted'
      BY <2>1, <2>2 DEF Values, IniSet, DoitOK, DoitWanted
    <2> QED
      BY <2>3, <2>4 DEF Values
  <1>5. ASSUME NEW t \in Threads, ThreadStep(t) PROVE Values'
    BY <1>5, ThreadKeepsValues
  <1>6. ASSUME NEW h \in Helpers, HelperStep(h) PROVE Values'
    BY <1>6, <1>a, HelpersShape DEF HelperShape, boundVars
  <1> QED
    BY <1>1, <1>2, <1>3, <1>4, <1>5, <1>6 DEF Next, Work, MainStep

\* All of it.
Inv == Base /\ Claims /\ Phases /\ Scanning /\ Values

LEMMA InvHolds == Spec => []Inv
  <1>1. Init => Inv
    BY BaseInit, ClaimsInit, PhasesInit, BoundsInit DEF Inv
  <1>2. Inv /\ [Next]_vars => Inv'
    BY BaseStep, ClaimsStep, PhasesStep, ScanningStep, ValuesStep DEF Inv
  <1> QED
    BY <1>1, <1>2, PTL DEF Spec

\* What is converted has the bounds of all files of its label, although the
\* bounds are computed by one thread and its helpers while others wait.
THEOREM BoundsAlwaysComplete == Spec => []BoundsComplete
  <1>1. Inv => BoundsComplete
    <2> SUFFICES ASSUME Inv, NEW t \in Threads, pc[t] \in Busy, Kind[at[t]] \in Bounded
                 PROVE  setval[at[t]] /\ (opt.bounds => val[at[t]] = Same(at[t]))
      BY DEF BoundsComplete, IsBusy
    <2>1. at[t] \in Files
      BY BaseFacts DEF Inv, Busy
    <2>2. doit[at[t]]
      BY DEF Inv, Values, Chosen, Bounded
    <2> QED
      BY <2>1, <2>2 DEF Inv, Values, DoitOK
  <1> QED
    BY <1>1, InvHolds, PTL

-----------------------------------------------------------------------------
(* The pool of files.                                                      *)

\* Of every run some thread goes through all files, and what a thread has left
\* behind and had to be converted is claimed.
Passed ==
    /\ main # "off" => \E t \in Threads : pc[t] = "over" => at[t] = N + 1
    /\ \A t \in Threads, j \in Wanted : j < at[t] => inuse[j]

LEMMA PassedInit == Init => Passed
  BY DEF Init, Passed, Wanted, Files

\* A thread leaves a file it must pass by, or one that is claimed.
LEMMA LeavesClaimed ==
  ASSUME Base, Claims, NEW t \in Threads, ThreadStep(t), Shape(t), pc[t] \in Converts,
         at'[t] # at[t]
  PROVE  PassedBy(at[t]) \/ inuse'[at[t]]
  <1>a. at[t] \in Files /\ inuse \in [Files -> BOOLEAN]
    BY BaseFacts DEF Converts, Claiming, Busy, Base, TypeOK
  <1>1. CASE pc[t] = "loop"
    BY <1>1 DEF ThreadStep, EnterPhase, EnterVolslices, EnterSmoke3ds, First, FirstCleans, NotFirst,
           CopyPatchBounds, SpawnHelpers, MergeBounds, SetDoit, PassBy, ClaimLocks, ClaimTests,
           ClaimMarks, Refuses, CleansSmoke, Opens, OpensNot, ListsIso, Writes, Closes
  <1>2. CASE pc[t] = "test"
    BY <1>2 DEF ThreadStep, EnterPhase, EnterVolslices, EnterSmoke3ds, First, FirstCleans, NotFirst,
           CopyPatchBounds, SpawnHelpers, MergeBounds, SetDoit, PassBy, ClaimLocks, ClaimTests,
           ClaimMarks, Refuses, CleansSmoke, Opens, OpensNot, ListsIso, Writes, Closes
  <1>3. CASE pc[t] = "mark"
    <2>1. pc'[t] # "mark"
      BY <1>3 DEF Shape
    <2> QED
      BY <1>a, <1>3, <2>1 DEF Shape
  <1>4. CASE pc[t] \in Busy
    BY <1>a, <1>4 DEF Shape, Claims, Claimed, Busy
  <1> QED
    BY <1>1, <1>2, <1>3, <1>4 DEF Converts, Claiming

\* What is passed by need not be converted.
LEMMA PassedByUnwanted ==
  ASSUME Base, Phases, Values, NEW t \in Threads, pc[t] \in Converts, PassedBy(at[t])
  PROVE  at[t] \notin Wanted
  <1> SUFFICES ASSUME at[t] \in Wanted PROVE FALSE
    OBVIOUS
  <1>1. ~opt.clean /\ Kind[at[t]] = "patch" /\ ~doit[at[t]]
    BY DEF PassedBy, Wanted
  <1>2. Prepared(Kind[at[t]])
    BY <1>1, ConvertsPrepared DEF Phased
  <1> QED
    BY <1>1, <1>2 DEF Values, DoitWanted, Bounded

LEMMA ThreadKeepsPassed ==
  ASSUME Base, Claims, Phases, Values, Passed, NEW t \in Threads, ThreadStep(t)
  PROVE  Passed'
  <1>a. Shape(t)
    BY StepShape
  <1>b. /\ \A u \in Threads \ {t} : pc'[u] = pc[u] /\ at'[u] = at[u]
        /\ main' = main /\ Wanted' = Wanted /\ at[t] \in Files
        /\ \A j \in Files : inuse[j] => inuse'[j]
    BY <1>a, BaseFacts DEF Shape, Wanted, Base, TypeOK
  <1>1. pc'[t] = "over" => at'[t] = N + 1
    BY <1>a DEF Shape, Stays, Leaves, Lands
  <1>2. ASSUME NEW j \in Wanted, j < at'[t] PROVE inuse'[j]
    <2>0. j \in Files
      BY DEF Wanted
    <2>1. CASE j < at[t]
      BY <1>b, <2>0, <2>1 DEF Passed
    <2>2. CASE ~(j < at[t])
      <3> PICK i \in 1 .. N + 1 :
            /\ Lands(t, i) /\ at[t] < i
            /\ \A n \in at[t] .. i - 1 : Kind[n] = Kind[at[t]]
            /\ \/ pc[t] \in Converts /\ i = at[t] + 1
               \/ /\ pc'[t] # "loop" /\ opt.clean
                  /\ \/ pc[t] = "first" /\ Kind[at[t]] \notin first'
                     \/ pc[t] = "enter" /\ Kind[at[t]] = "volslice"
        BY <1>2, <1>a, <2>2 DEF Shape, Stays, Leaves
      <3>1. at'[t] = i
        BY DEF Lands
      <3>2. j \in at[t] .. i - 1
        BY <1>2, <1>b, <2>0, <2>2, <3>1 DEF Files
      <3>3. Kind[j] = Kind[at[t]]
        BY <3>2
      <3>4. CASE pc[t] \in Converts /\ i = at[t] + 1
        <4>1. j = at[t] /\ at'[t] # at[t]
          BY <1>b, <2>0, <3>1, <3>2, <3>4 DEF Files
        <4> QED
          BY <1>a, <3>4, <4>1, LeavesClaimed, PassedByUnwanted
      <3>5. CASE opt.clean /\ pc[t] = "first"
        BY <3>3, <3>5 DEF Phases, PhaseOK, Phase, Phased, Wanted
      <3>6. CASE opt.clean /\ Kind[at[t]] = "volslice"
        BY <3>3, <3>6 DEF Wanted
      <3> QED
        BY <3>4, <3>5, <3>6
    <2> QED
      BY <2>1, <2>2
  <1>3. \A u \in Threads \ {t}, j \in Wanted : j < at'[u] => inuse'[j]
    BY <1>b DEF Passed, Wanted
  <1> QED
    BY <1>1, <1>2, <1>3, <1>b DEF Passed

LEMMA PassedStep ==
  ASSUME Inv, Passed, [Next]_vars
  PROVE  Passed'
  <1> USE DEF Inv
  <1>a. ASSUME UNCHANGED <<pc, at, inuse, opt>>, main' = "off" => main = "off",
               main = "off" => main' = "off"
        PROVE  Passed'
    BY <1>a DEF Passed, Wanted
  <1>1. CASE UNCHANGED vars
    BY <1>1, <1>a DEF vars
  <1>2. CASE Start
    <2> PICK team \in SUBSET Threads :
          /\ IF opt'.clean THEN Cardinality(team) = 1 ELSE team = Threads
          /\ Reset([t \in Threads |-> IF t \in team THEN "new" ELSE "over"])
      BY <1>2 DEF Start
    <2>1. team # {}
      BY FS_EmptySet, SomeThreads
    <2>2. \E t \in Threads : pc'[t] = "new"
      BY <2>1 DEF Reset
    <2>3. \A t \in Threads, j \in Wanted' : ~(j < at'[t])
      BY DEF Reset, Wanted, Files
    <2> QED
      BY <2>2, <2>3 DEF Passed
  <1>3. CASE Kill
    <2>1. main' = "off" /\ \A t \in Threads : at'[t] = 1
      BY <1>3 DEF Kill, Reset
    <2>2. \A t \in Threads, j \in Wanted' : ~(j < at'[t])
      BY <2>1 DEF Wanted, Files
    <2> QED
      BY <2>1, <2>2 DEF Passed
  <1>4. CASE JoinThreads
    BY <1>4, <1>a DEF JoinThreads, startVars
  <1>5. ASSUME NEW t \in Threads, CreateThread(t) PROVE Passed'
    <2>1. /\ \A u \in Threads \ {t} : pc'[u] = pc[u] /\ at'[u] = at[u]
          /\ UNCHANGED <<inuse, opt>> /\ Lands(t, 1) /\ main # "off"
      BY <1>5, CreateShape DEF startVars, CreateThread
    <2>2. pc'[t] = "over" => at'[t] = N + 1
      BY <2>1 DEF Lands
    <2>3. Wanted' = Wanted /\ \A j \in Wanted : ~(j < at'[t])
      BY <2>1 DEF Lands, Wanted, Files
    <2> QED
      BY <2>1, <2>2, <2>3 DEF Passed
  <1>6. ASSUME NEW t \in Threads, ThreadStep(t) PROVE Passed'
    BY <1>6, ThreadKeepsPassed
  <1>7. ASSUME NEW h \in Helpers, HelperStep(h) PROVE Passed'
    BY <1>7, <1>a, HelpersShape DEF HelperShape
  <1> QED
    BY <1>1, <1>2, <1>3, <1>4, <1>5, <1>6, <1>7 DEF Next, Work, MainStep

LEMMA PassedHolds == Spec => [](Inv /\ Passed)
  <1>1. Inv /\ Passed /\ [Next]_vars => Passed'
    BY PassedStep
  <1> QED
    BY <1>1, InvHolds, PassedInit, PTL DEF Spec

\* A thread at a file that it will claim begins to convert it, unless the file
\* need not be.
LEMMA MarksBegin ==
  ASSUME Base, Phases, Values, NEW t \in Threads, ThreadStep(t), pc[t] = "mark"
  PROVE  \/ at[t] \notin Wanted
         \/ pc'[t] = "open" /\ at'[t] = at[t]
  <1>1. ClaimMarks(t)
    BY DEF ThreadStep, EnterPhase, EnterVolslices, EnterSmoke3ds, First, FirstCleans, NotFirst,
           CopyPatchBounds, SpawnHelpers, MergeBounds, SetDoit, PassBy, ClaimLocks, ClaimTests,
           ClaimMarks, Refuses, CleansSmoke, Opens, OpensNot, ListsIso, Writes, Closes
  <1>2. CASE Kind[at[t]] = "slice" /\ ~doit[at[t]]
    <2>1. Prepared(Kind[at[t]]) /\ at[t] \in Files
      BY <1>2, ConvertsPrepared DEF Phased, Converts, Claiming
    <2> QED
      BY <1>2, <2>1 DEF Values, DoitWanted, Bounded, Wanted
  <1>3. CASE ~(Kind[at[t]] = "slice" /\ ~doit[at[t]])
    BY <1>1, <1>3, BaseFacts DEF ClaimMarks
  <1> QED
    BY <1>2, <1>3

\* What a step of a thread does to the file it is at, and that it does nothing
\* to the others.
LEMMA Progressing ==
  ASSUME Base, Claims, Phases, Values, NEW t \in Threads, ThreadStep(t), NEW i \in Wanted
  PROVE  \/ Progress(i)' = Progress(i)
         \/ i = at[t] /\ Progress(i) = "waiting" /\ Progress(i)' = "busy"
         \/ i = at[t] /\ Progress(i) = "busy" /\ Progress(i)' = "done"
  <1>a. Shape(t)
    BY StepShape
  <1>b. /\ \A u \in Threads \ {t} : pc'[u] = pc[u] /\ at'[u] = at[u]
        /\ i \in Files /\ at[t] \in Files /\ inuse \in [Files -> BOOLEAN]
    BY <1>a, BaseFacts DEF Shape, Wanted, Base, TypeOK
  <1>c. pc'[t] \in Busy => at'[t] = at[t]
    BY <1>a DEF Shape, Leaves, Lands, Stays, Busy
  <1>1. CASE i # at[t]
    <2>1. inuse'[i] = inuse[i]
      BY <1>a, <1>b, <1>1 DEF Shape
    <2>2. ~(pc'[t] \in Busy /\ at'[t] = i) /\ ~(pc[t] \in Busy /\ at[t] = i)
      BY <1>c, <1>1
    <2> QED
      BY <1>b, <2>1, <2>2 DEF Progress, IsBusy
  <1>2. CASE i = at[t] /\ pc[t] \in Busy
    <2>1. inuse[i] /\ inuse'[i]
      BY <1>a, <1>b, <1>2 DEF Shape, Claims, Claimed
    <2>2. \A u \in Threads \ {t} : ~(pc'[u] \in Busy /\ at'[u] = i)
      BY <1>b, <1>2 DEF Claims, ClaimsExclusive, IsBusy
    <2>3. Progress(i) = "busy"
      BY <1>2 DEF Progress, IsBusy
    <2>4. pc'[t] \in Busy => Progress(i)' = "busy"
      BY <1>2, <1>c DEF Progress, IsBusy
    <2>5. pc'[t] \notin Busy => Progress(i)' = "done"
      BY <2>1, <2>2 DEF Progress, IsBusy
    <2> QED
      BY <1>2, <2>3, <2>4, <2>5
  <1>3. CASE i = at[t] /\ pc[t] = "mark"
    <2>1. ~inuse[i] /\ \A u \in Threads : ~(pc[u] \in Busy /\ at[u] = i)
      BY <1>3 DEF Claims, Claimed
    <2>2. Progress(i) = "waiting"
      BY <2>1 DEF Progress, IsBusy
    <2>3. pc'[t] = "open" /\ at'[t] = i
      BY <1>3, MarksBegin
    <2>4. Progress(i)' = "busy"
      BY <2>3 DEF Progress, IsBusy, Busy
    <2> QED
      BY <1>3, <2>2, <2>4
  <1>4. CASE i = at[t] /\ pc[t] \notin Busy \cup {"mark"}
    <2>1. inuse' = inuse /\ pc'[t] \notin Busy
      BY <1>a, <1>4 DEF Shape
    <2> QED
      BY <1>b, <1>4, <2>1 DEF Progress, IsBusy
  <1> QED
    BY <1>1, <1>2, <1>3, <1>4

\* A step of a thread begins or finishes a file, or does not show.
LEMMA ThreadInPool ==
  ASSUME Base, Claims, Phases, Values, NEW t \in Threads, ThreadStep(t)
  PROVE  W!PoolNext \/ UNCHANGED <<Pool, Over>>
  <1>a. Shape(t)
    BY StepShape
  <1>1. main \notin {"off", "end"} /\ main' = main /\ Wanted' = Wanted
    BY <1>a DEF Shape, Base, MainOK, Wanted
  <1>2. /\ ~Over /\ Over' = Over
        /\ Pool = [i \in Wanted |-> Progress(i)]
        /\ Pool' = [i \in Wanted |-> Progress(i)']
    BY <1>1 DEF Pool, Over
  <1>3. CASE \A i \in Wanted : Progress(i)' = Progress(i)
    BY <1>2, <1>3
  <1>4. CASE \E i \in Wanted : Progress(i)' # Progress(i)
    <2>1. /\ at[t] \in Wanted
          /\ \/ Progress(at[t]) = "waiting" /\ Pool' = [Pool EXCEPT ![at[t]] = "busy"]
             \/ Progress(at[t]) = "busy" /\ Pool' = [Pool EXCEPT ![at[t]] = "done"]
      <3> PICK i \in Wanted : Progress(i)' # Progress(i)
        BY <1>4
      <3>1. /\ i = at[t]
            /\ \/ Progress(i) = "waiting" /\ Progress(i)' = "busy"
               \/ Progress(i) = "busy" /\ Progress(i)' = "done"
        BY Progressing
      <3>2. \A j \in Wanted \ {i} : Progress(j)' = Progress(j)
        BY <3>1, Progressing
      <3>3. Pool' = [Pool EXCEPT ![i] = Progress(i)']
        BY <1>2, <3>2
      <3> QED
        BY <3>1, <3>3
    <2>2. at[t] \in DOMAIN Pool /\ Pool[at[t]] = Progress(at[t])
      BY <1>2, <2>1
    <2>3. W!Begin(at[t]) \/ W!Finish(at[t])
      BY <1>2, <2>1, <2>2 DEF W!Begin, W!Finish, W!Move
    <2> QED
      BY <2>2, <2>3 DEF W!PoolNext
  <1> QED
    BY <1>3, <1>4

\* When all threads are over, all files are done.
LEMMA JoinInPool ==
  ASSUME Inv, Passed, JoinThreads
  PROVE  W!PoolNext
  <1>1. /\ main = "join" /\ main' = "end" /\ \A t \in Threads : pc[t] = "over"
        /\ UNCHANGED <<pc, at, inuse, opt>>
    BY DEF JoinThreads, startVars
  <1>2. PICK t \in Threads : at[t] = N + 1
    BY <1>1 DEF Passed
  <1>3. \A i \in Wanted : Progress(i) = "done"
    BY <1>1, <1>2 DEF Passed, Progress, IsBusy, Busy, Wanted, Files
  <1>4. Pool = [i \in Wanted |-> Progress(i)] /\ ~Over /\ Over'
    BY <1>1 DEF Pool, Over
  <1>5. Pool' = Pool
    BY <1>1, <1>4 DEF Pool, Progress, IsBusy, Wanted
  <1> QED
    BY <1>3, <1>4, <1>5 DEF W!PoolNext, W!End

\* A run starts with all files waiting.
LEMMA StartInPool ==
  ASSUME Start
  PROVE  W!PoolNext
  <1>1. main \in {"off", "end"} /\ main' = "create"
    BY DEF Start
  <1> PICK places \in [Threads -> {"new", "over"}] : Reset(places)
    BY Resetting
  <1>2. Wanted' \in SUBSET Files /\ \A i \in Wanted' : ~inuse'[i]
    BY DEF Wanted, Reset
  <1>3. \A u \in Threads : pc'[u] \notin Busy
    BY DEF Reset, Busy
  <1>4. Pool' = [i \in Wanted' |-> "waiting"]
    BY <1>1, <1>2, <1>3 DEF Pool, Progress, IsBusy
  <1> QED
    BY <1>1, <1>2, <1>4 DEF W!PoolNext, W!Start, Over

\* The threads, the mutexes and the helpers do not show: smokezip converts
\* each file of a run once, in one thread, and ends when all are converted.
THEOREM ImplementsPool == Spec => PoolSpec
  <1>1. Init => W!PoolInit
    BY DEF Init, W!PoolInit, W!Nothing, Pool, Over
  <1>2. Inv /\ Passed /\ [Next]_vars => [W!PoolNext]_<<Pool, Over>>
    <2> SUFFICES ASSUME Inv, Passed, [Next]_vars
                 PROVE  W!PoolNext \/ UNCHANGED <<Pool, Over>>
      OBVIOUS
    <2>a. ASSUME UNCHANGED <<pc, at, inuse, opt, main>> PROVE UNCHANGED <<Pool, Over>>
      BY <2>a DEF Pool, Over, Wanted, Progress, IsBusy
    <2>1. CASE UNCHANGED vars
      BY <2>1, <2>a DEF vars
    <2>2. CASE Start
      BY <2>2, StartInPool
    <2>3. CASE Kill
      BY <2>3 DEF Kill, Pool, Over, W!PoolNext, W!Killed, W!Nothing
    <2>4. CASE JoinThreads
      BY <2>4, JoinInPool
    <2>5. ASSUME NEW t \in Threads, CreateThread(t) PROVE UNCHANGED <<Pool, Over>>
      <3>1. /\ \A u \in Threads : pc[u] \notin Busy <=> pc'[u] \notin Busy
            /\ \A u \in Threads : pc[u] \in Busy => at'[u] = at[u]
            /\ UNCHANGED <<inuse, opt>> /\ main = "create" /\ main' \in {"create", "join"}
        BY <2>5, CreateShape DEF Inv, startVars, CreateThread, Busy
      <3> QED
        BY <3>1 DEF Pool, Over, Wanted, Progress, IsBusy
    <2>6. ASSUME NEW t \in Threads, ThreadStep(t) PROVE W!PoolNext \/ UNCHANGED <<Pool, Over>>
      BY <2>6, ThreadInPool DEF Inv
    <2>7. ASSUME NEW h \in Helpers, HelperStep(h) PROVE UNCHANGED <<Pool, Over>>
      BY <2>7, <2>a, HelpersShape DEF HelperShape, Inv
    <2> QED
      BY <2>1, <2>2, <2>3, <2>4, <2>5, <2>6, <2>7 DEF Next, Work, MainStep
  <1> QED
    BY <1>1, <1>2, PassedHolds, PTL DEF Spec, PoolSpec, W!PoolSpec, W!poolVars

-----------------------------------------------------------------------------
(* The disk.                                                               *)

\* The list of isosurfaces: what is claimed is about to be listed, or listed
\* after the list was truncated.
Listed ==
    /\ smvtiso \subseteq Of("part")
    /\ ~opt.clean => \A i \in Of("part") : inuse[i] =>
          \/ \E t \in Threads : at[t] = i /\ pc[t] = "open"
          \/ i \in smvtiso /\ ~firstIso

LEMMA ListShape ==
  ASSUME Base, NEW t \in Threads, ThreadStep(t)
  PROVE  \/ ListsIso(t)
         \/ /\ smvtiso' = smvtiso \/ (opt.clean /\ smvtiso' = {})
            /\ firstIso' = firstIso
            /\ ~(pc[t] = "open" /\ Kind[at[t]] = "part")
  BY DEF ThreadStep, EnterPhase, EnterVolslices, EnterSmoke3ds, First, FirstCleans, NotFirst,
         CopyPatchBounds, SpawnHelpers, MergeBounds, SetDoit, PassBy, ClaimLocks, ClaimTests,
         ClaimMarks, Refuses, CleansSmoke, Opens, OpensNot, ListsIso, Writes, Closes, ConvertKeeps,
         fileVars

LEMMA ThreadKeepsListed ==
  ASSUME Inv, Listed, NEW t \in Threads, ThreadStep(t)
  PROVE  Listed'
  <1>a. Base /\ Claims /\ Phases /\ Values /\ Shape(t)
    BY StepShape DEF Inv
  <1>b. /\ \A u \in Threads \ {t} : pc'[u] = pc[u] /\ at'[u] = at[u]
        /\ opt' = opt /\ at[t] \in Files /\ inuse \in [Files -> BOOLEAN]
    BY <1>a, BaseFacts DEF Shape, Base, TypeOK
  <1>c. \A i \in Of("part") : i \in Files /\ Kind[i] = "part"
    BY DEF Of
  <1>1. smvtiso' \subseteq Of("part")
    <2>1. CASE ListsIso(t)
      <3>1. at[t] \in Of("part") /\ smvtiso' \in {{at[t]}, smvtiso \cup {at[t]}}
        BY <1>b, <2>1 DEF ListsIso, Of
      <3> QED
        BY <3>1 DEF Listed
    <2>2. CASE ~ListsIso(t)
      BY <1>a, <2>2, ListShape DEF Listed
    <2> QED
      BY <2>1, <2>2
  <1>2. ASSUME NEW i \in Of("part"), ~opt.clean, inuse'[i]
        PROVE  (\E u \in Threads : at'[u] = i /\ pc'[u] = "open") \/ (i \in smvtiso' /\ ~firstIso')
    <2>1. CASE ListsIso(t)
      <3>1. /\ pc[t] = "open" /\ firstIso' = FALSE /\ inuse' = inuse
            /\ smvtiso' = IF firstIso THEN {at[t]} ELSE smvtiso \cup {at[t]}
        BY <2>1 DEF ListsIso, ConvertKeeps
      <3> QED
        BY <1>2, <1>b, <3>1 DEF Listed
    <2>2. CASE ~ListsIso(t)
      <3>1. smvtiso' = smvtiso /\ firstIso' = firstIso /\ ~(pc[t] = "open" /\ Kind[at[t]] = "part")
        BY <1>a, <1>2, <2>2, ListShape
      <3>2. CASE inuse[i]
        BY <1>2, <1>b, <1>c, <3>1, <3>2 DEF Listed
      <3>3. CASE ~inuse[i]
        <4>1. pc[t] = "mark" /\ at[t] = i
          BY <1>2, <1>a, <1>b, <1>c, <3>3 DEF Shape
        <4>2. i \in Wanted
          BY <1>2, <1>c DEF Wanted, Bounded
        <4> QED
          BY <1>a, <4>1, <4>2, MarksBegin
      <3> QED
        BY <3>2, <3>3
    <2> QED
      BY <2>1, <2>2
  <1> QED
    BY <1>1, <1>2, <1>b DEF Listed

LEMMA ListedStep ==
  ASSUME Inv, Listed, [Next]_vars
  PROVE  Listed'
  <1>a. ASSUME UNCHANGED <<pc, at, inuse, opt, smvtiso, firstIso>> PROVE Listed'
    BY <1>a DEF Listed
  <1>1. CASE UNCHANGED vars
    BY <1>1, <1>a DEF vars
  <1>2. CASE Start \/ Kill
    <2>1. smvtiso' = smvtiso /\ \A i \in Files : ~inuse'[i]
      BY <1>2, Resetting DEF Reset, Start, Kill, fileVars
    <2> QED
      BY <2>1 DEF Listed, Of
  <1>3. CASE JoinThreads
    BY <1>3, <1>a DEF JoinThreads, startVars, fileVars
  <1>4. ASSUME NEW t \in Threads, CreateThread(t) PROVE Listed'
    BY <1>4, CreateShape DEF Inv, Listed, startVars, fileVars
  <1>5. ASSUME NEW t \in Threads, ThreadStep(t) PROVE Listed'
    BY <1>5, ThreadKeepsListed
  <1>6. ASSUME NEW h \in Helpers, HelperStep(h) PROVE Listed'
    BY <1>6, <1>a, HelpersShape DEF Inv, HelperShape
  <1> QED
    BY <1>1, <1>2, <1>3, <1>4, <1>5, <1>6 DEF Next, Work, MainStep

\* At the end of a run the list names all particle files, although the threads
\* truncate and extend it in any order.
THEOREM IsoListAlwaysComplete == Spec => []IsoListComplete
  <1>1. Init => Listed
    BY DEF Init, Listed, Of
  <1>2. Inv /\ Listed /\ [Next]_vars => Listed'
    BY ListedStep
  <1>3. Inv /\ Passed /\ Listed => IsoListComplete
    <2> SUFFICES ASSUME Inv, Passed, Listed, main = "end", ~opt.clean PROVE Of("part") \subseteq smvtiso
      BY DEF IsoListComplete, Listed
    <2>1. \A t \in Threads : pc[t] = "over"
      BY DEF Inv, Base, MainOK
    <2>2. PICK t \in Threads : at[t] = N + 1
      BY <2>1 DEF Passed
    <2>3. \A i \in Of("part") : i \in Wanted /\ i < at[t]
      BY <2>2 DEF Of, Wanted, Bounded, Files
    <2> QED
      BY <2>1, <2>3 DEF Passed, Listed
  <1> QED
    BY <1>1, <1>2, <1>3, PassedHolds, PTL DEF Spec

\* A thread that closes an output has written it, and not in a run with -c.
WrittenOK ==
    \A t \in Threads :
        /\ pc[t] \in {"write", "close"} /\ Kind[at[t]] # "part" => ~opt.clean
        /\ pc[t] = "close" /\ Kind[at[t]] # "part" => disk[at[t]].written \in {"whole", "cut"}

\* What a step does to the outputs.
DiskShape(t) ==
    LET i == at[t]
    IN /\ \/ disk' = disk
          \/ opt.clean /\ \A j \in Files : disk'[j] \in {disk[j], NoFile}
          \/ /\ pc[t] = "open" /\ (opt.force \/ disk[i].written = "none")
             /\ disk' = [disk EXCEPT ![i] = [written |-> "part", completion |-> 0]]
          \/ /\ pc[t] = "write"
             /\ \E w \in {"whole", "cut"} : disk' = [disk EXCEPT ![i].written = w]
          \/ /\ pc[t] = "close" /\ pc'[t] # "close" /\ Kind[i] # "part"
             /\ disk' = [disk EXCEPT ![i].completion = 1]
       /\ pc'[t] = "write" => pc[t] = "open" /\ at' = at /\ (Kind[i] # "part" => ~opt.clean)
       /\ pc'[t] = "close" =>
             /\ pc[t] = "write" /\ at' = at
             /\ Kind[i] # "part" =>
                   \E w \in {"whole", "cut"} : disk' = [disk EXCEPT ![i].written = w]

LEMMA StepDiskShape ==
  ASSUME Base, NEW t \in Threads, ThreadStep(t)
  PROVE  DiskShape(t)
  <1>a. pc \in [Threads -> Spots] /\ (pc[t] \notin {"new", "over"} => at[t] \in Files)
    BY BaseFacts
  <1>b. ASSUME pc[t] \in Converts, GoOn(t) PROVE pc'[t] \notin {"write", "close"}
    BY <1>b, LeavesOn
  <1>c. ASSUME pc[t] \in {"enter", "first"}, GoPast(t) PROVE pc'[t] \notin {"write", "close"}
    BY <1>a, <1>c, GoingPast DEF Lands
  <1>1. CASE EnterPhase(t) \/ EnterVolslices(t) \/ EnterSmoke3ds(t)
    BY <1>1, <1>a, <1>c DEF EnterPhase, EnterVolslices, EnterSmoke3ds, DiskShape, fileVars
  <1>2. CASE First(t) \/ NotFirst(t)
    BY <1>2, <1>a, <1>c DEF First, NotFirst, DiskShape, fileVars
  <1>3. CASE FirstCleans(t)
    BY <1>3, <1>c DEF FirstCleans, DiskShape
  <1>4. CASE CopyPatchBounds(t) \/ SpawnHelpers(t) \/ MergeBounds(t) \/ SetDoit(t)
    BY <1>4, <1>a DEF CopyPatchBounds, SpawnHelpers, MergeBounds, SetDoit, DiskShape, fileVars
  <1>5. CASE PassBy(t) \/ ClaimLocks(t) \/ ClaimTests(t) \/ ClaimMarks(t)
    BY <1>5, <1>a, <1>b DEF PassBy, ClaimLocks, ClaimTests, ClaimMarks, DiskShape, fileVars, Converts,
           Claiming
  <1>6. CASE Refuses(t)
    BY <1>6, <1>b DEF Refuses, DiskShape, fileVars, Converts, Busy
  <1>7. CASE CleansSmoke(t)
    BY <1>7, <1>b DEF CleansSmoke, DiskShape, Converts, Busy, Base, TypeOK
  <1>8. CASE Opens(t)
    BY <1>8, <1>a DEF Opens, DiskShape
  <1>9. CASE OpensNot(t)
    BY <1>9, <1>b DEF OpensNot, DiskShape, Converts, Busy
  <1>10. CASE ListsIso(t)
    BY <1>10, <1>a DEF ListsIso, DiskShape
  <1>11. CASE Writes(t)
    <2>1. /\ pc[t] = "write" /\ at' = at /\ pc'[t] = "close"
          /\ \E w \in {"whole", "cut"} :
                disk' = IF Kind[at[t]] = "part" THEN disk ELSE [disk EXCEPT ![at[t]].written = w]
      BY <1>11, <1>a DEF Writes
    <2> QED
      BY <2>1 DEF DiskShape
  <1>12. CASE Closes(t)
    <2>1. /\ pc[t] = "close" /\ pc'[t] \notin {"write", "close"}
          /\ disk' = disk \/ (Kind[at[t]] # "part" /\ disk' = [disk EXCEPT ![at[t]].completion = 1])
      BY <1>12, <1>b DEF Closes, Converts, Busy
    <2> QED
      BY <2>1 DEF DiskShape
  <1> QED
    BY <1>1, <1>2, <1>3, <1>4, <1>5, <1>6, <1>7, <1>8, <1>9, <1>10, <1>11, <1>12 DEF ThreadStep

LEMMA ThreadKeepsWritten ==
  ASSUME Inv, CodeMeansClosed, WrittenOK, NEW t \in Threads, ThreadStep(t)
  PROVE  CodeMeansClosed' /\ WrittenOK'
  <1>a. Base /\ Claims /\ Shape(t) /\ DiskShape(t)
    BY StepShape, StepDiskShape DEF Inv
  <1>b. /\ \A u \in Threads \ {t} : pc'[u] = pc[u] /\ at'[u] = at[u]
        /\ opt' = opt /\ at[t] \in Files /\ disk \in [Files -> Zipped]
    BY <1>a, BaseFacts DEF Shape, Base, TypeOK
  <1>1. \A j \in Files \ {at[t]} : disk'[j] = disk[j] \/ (opt.clean /\ disk'[j] = NoFile)
    BY <1>a, <1>b DEF DiskShape
  <1>2. /\ \/ disk'[at[t]] = disk[at[t]]
           \/ disk'[at[t]] = NoFile
           \/ disk'[at[t]].completion = 0
           \/ disk'[at[t]].written \in {"whole", "cut"}
           \/ /\ pc[t] = "close" /\ Kind[at[t]] # "part"
              /\ disk'[at[t]].written = disk[at[t]].written
    <2>1. \A w \in {"whole", "cut"} :
             disk' = [disk EXCEPT ![at[t]].written = w] => disk'[at[t]].written = w
      BY <1>b DEF Zipped
    <2>2. disk' = [disk EXCEPT ![at[t]] = [written |-> "part", completion |-> 0]]
             => disk'[at[t]].completion = 0
      BY <1>b
    <2>3. disk' = [disk EXCEPT ![at[t]].completion = 1] => disk'[at[t]].written = disk[at[t]].written
      BY <1>b DEF Zipped
    <2> QED
      BY <1>a, <1>b, <2>1, <2>2, <2>3 DEF DiskShape
  <1>3. CodeMeansClosed'
    <2>1. ASSUME NEW j \in Files \ {at[t]}, disk'[j].completion = 1
          PROVE  disk'[j].written \in {"whole", "cut"}
      BY <1>1, <2>1 DEF CodeMeansClosed, NoFile
    <2>2. disk'[at[t]].completion = 1 => disk'[at[t]].written \in {"whole", "cut"}
      BY <1>2, <1>b DEF CodeMeansClosed, NoFile, WrittenOK
    <2> QED
      BY <2>1, <2>2 DEF CodeMeansClosed
  <1>4. WrittenOK'
    <2>1. ASSUME NEW u \in Threads \ {t}
          PROVE  /\ pc'[u] \in {"write", "close"} /\ Kind[at'[u]] # "part" => ~opt'.clean
                 /\ pc'[u] = "close" /\ Kind[at'[u]] # "part" =>
                       disk'[at'[u]].written \in {"whole", "cut"}
      <3>1. pc'[u] \in {"write", "close"} /\ Kind[at'[u]] # "part" => ~opt'.clean
        BY <1>b DEF WrittenOK
      <3>2. ASSUME pc[u] = "close", Kind[at[u]] # "part"
            PROVE  disk'[at[u]].written \in {"whole", "cut"}
        <4>1. at[u] \in Files /\ ~opt.clean /\ disk[at[u]].written \in {"whole", "cut"}
          BY <3>2, <1>a, BaseFacts DEF WrittenOK
        <4>2. CASE at[u] # at[t]
          BY <1>1, <4>1, <4>2
        <4>3. CASE at[u] = at[t]
          <5>1. pc[t] \notin Busy
            BY <3>2, <4>3, <1>a DEF Claims, ClaimsExclusive, IsBusy, Busy
          <5>2. disk' = disk
            BY <1>a, <4>1, <5>1 DEF DiskShape, Busy
          <5> QED
            BY <4>1, <5>2
        <4> QED
          BY <4>2, <4>3
      <3> QED
        BY <1>b, <3>1, <3>2
    <2>2. pc'[t] \in {"write", "close"} /\ Kind[at'[t]] # "part" => ~opt'.clean
      BY <1>a, <1>b DEF DiskShape, WrittenOK
    <2>3. pc'[t] = "close" /\ Kind[at'[t]] # "part" => disk'[at'[t]].written \in {"whole", "cut"}
      <3>1. \A w \in {"whole", "cut"} :
               disk' = [disk EXCEPT ![at[t]].written = w] => disk'[at[t]].written = w
        BY <1>b DEF Zipped
      <3> QED
        BY <1>a, <3>1 DEF DiskShape
    <2> QED
      BY <2>1, <2>2, <2>3 DEF WrittenOK
  <1> QED
    BY <1>3, <1>4

LEMMA WrittenStep ==
  ASSUME Inv, CodeMeansClosed, WrittenOK, [Next]_vars
  PROVE  CodeMeansClosed' /\ WrittenOK'
  <1>a. ASSUME UNCHANGED <<pc, at, opt, disk>> PROVE CodeMeansClosed' /\ WrittenOK'
    BY <1>a DEF CodeMeansClosed, WrittenOK
  <1>1. CASE UNCHANGED vars
    BY <1>1, <1>a DEF vars
  <1>2. CASE Start \/ Kill
    <2>1. disk' = disk
      BY <1>2 DEF Start, Kill, fileVars
    <2> PICK places \in [Threads -> {"new", "over"}] : Reset(places)
      BY <1>2, Resetting
    <2>2. \A t \in Threads : pc'[t] \in {"new", "over"}
      BY DEF Reset
    <2> QED
      BY <2>1, <2>2 DEF CodeMeansClosed, WrittenOK
  <1>3. CASE JoinThreads
    BY <1>3, <1>a DEF JoinThreads, startVars, fileVars
  <1>4. ASSUME NEW t \in Threads, CreateThread(t) PROVE CodeMeansClosed' /\ WrittenOK'
    BY <1>4, CreateShape DEF Inv, CodeMeansClosed, WrittenOK, startVars, fileVars
  <1>5. ASSUME NEW t \in Threads, ThreadStep(t) PROVE CodeMeansClosed' /\ WrittenOK'
    BY <1>5, ThreadKeepsWritten
  <1>6. ASSUME NEW h \in Helpers, HelperStep(h) PROVE CodeMeansClosed' /\ WrittenOK'
    BY <1>6, <1>a, HelpersShape DEF Inv, HelperShape
  <1> QED
    BY <1>1, <1>2, <1>3, <1>4, <1>5, <1>6 DEF Next, Work, MainStep

\* No half written slice file passes for a complete one, whenever smokezip is
\* killed.
THEOREM CodeAlwaysMeansClosed == Spec => []CodeMeansClosed
  <1>1. Init => CodeMeansClosed /\ WrittenOK
    BY DEF Init, CodeMeansClosed, WrittenOK, NoFile
  <1>2. Inv /\ CodeMeansClosed /\ WrittenOK /\ [Next]_vars => (CodeMeansClosed /\ WrittenOK)'
    BY WrittenStep
  <1> QED
    BY <1>1, <1>2, InvHolds, PTL DEF Spec

\* Without -f and -c no run touches the output of an earlier one.
THEOREM OldFilesAlwaysKept == Spec => OldFilesKept
  <1> DEFINE Keeps == \A i \in Files :
                         /\ disk[i].written # "none" /\ disk'[i] # disk[i]
                         => \/ opt.force \/ opt.clean
                            \/ \E t \in Threads : at[t] = i /\ pc[t] \in {"write", "close"}
  <1>1. Inv /\ [Next]_vars => Keeps
    <2> SUFFICES ASSUME Inv, [Next]_vars PROVE Keeps
      OBVIOUS
    <2>1. CASE disk' = disk
      BY <2>1
    <2>2. ASSUME NEW t \in Threads, ThreadStep(t) PROVE Keeps
      <3>1. DiskShape(t) /\ disk \in [Files -> Zipped]
        BY <2>2, StepDiskShape DEF Inv, Base, TypeOK
      <3> QED
        BY <3>1 DEF DiskShape
    <2>3. ASSUME NEW h \in Helpers, HelperStep(h) PROVE disk' = disk
      BY <2>3, HelpersShape DEF Inv, HelperShape
    <2> QED
      BY <2>1, <2>2, <2>3 DEF Next, Work, MainStep, Start, Kill, JoinThreads, CreateThread, fileVars, vars
  <1> QED
    BY <1>1, InvHolds, PTL DEF Spec, OldFilesKept
=============================================================================
