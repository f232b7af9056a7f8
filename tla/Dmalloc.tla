------------------------------- MODULE Dmalloc -------------------------------
(***************************************************************************)
(* The allocator of the C tools, shared/dmalloc.c in the release build     *)
(* with pp_THREAD (smokeview, smokezip): every block of the C library is   *)
(* linked into one doubly linked list between MMfirst and MMlast, and each *)
(* call works on the list while it holds mutexMEM (LOCK_MEM).              *)
(*                                                                         *)
(* malloc and realloc are external: they return any address that is not   *)
(* in use, or fail.  Callers are any threads; a thread frees or resizes a  *)
(* block it holds a pointer to, and only the thread UI, which loads        *)
(* geometry and isosurfaces, allocates under a memory id and frees by it.  *)
(*                                                                         *)
(* order is not in the program: it records which of two list entries comes *)
(* first, so that invariants can speak of the whole list.                  *)
(***************************************************************************)
EXTENDS FiniteSets, Integers

CONSTANTS
    Threads,    \* the threads of the process
    UI,         \* the thread of the user interface
    Addrs,      \* the addresses malloc and realloc may return
    Ids,        \* the memory ids, 0 (no group) among them
    MMfirst,    \* the list's head, a static block
    MMlast,     \* the list's tail, a static block
    Null,       \* the null pointer
    Nobody,     \* mutexMEM is not held
    Absent      \* used by Heap: no live block

ASSUME DmallocAssumption ==
    /\ UI \in Threads
    /\ Nobody \notin Threads
    /\ 0 \in Ids
    /\ Absent \notin Ids
    /\ MMfirst # MMlast
    /\ {MMfirst, MMlast} \cap Addrs = {}
    /\ Null \notin Addrs \cup {MMfirst, MMlast}

Nodes == Addrs \cup {MMfirst, MMlast}

VARIABLES
    mutexMEM,   \* the thread inside LOCK_MEM, or Nobody
    pc,         \* where each thread is
    this,       \* each thread's this_ptr (thisptr in FreeAllMemory)
    near,       \* each thread's next_ptr (nextptr in FreeAllMemory)
    id,         \* each thread's parameter memory_id
    used,       \* the addresses the C library has given out
    next,       \* the links of MMdata
    prev,
    memory_id,  \* the ids of MMdata
    held,       \* the pointers each thread may free or resize
    order       \* <<m, n>>: m comes before n in the list

callVars == <<mutexMEM, pc, this, near, id>>
listVars == <<used, next, prev, memory_id, order>>
vars == <<mutexMEM, pc, this, near, id, used, next, prev, memory_id, held, order>>

Waiting == {"new", "free", "resize", "freeall"}
Inside  == {"alloc", "link", "unlink", "realloc", "start", "sweep", "unlock"}

\* A block the C library has given out is in the list from the moment
\* _NewMemoryNOTHREAD has linked it.
Linking == {this[t] : t \in {u \in Threads : pc[u] = "link"}}
Linked  == used \ Linking
Listed  == Linked \cup {MMfirst, MMlast}

TypeOK ==
    /\ mutexMEM \in Threads \cup {Nobody}
    /\ pc \in [Threads -> {"idle"} \cup Waiting \cup Inside]
    /\ this \in [Threads -> Nodes \cup {Null}]
    /\ near \in [Threads -> Nodes \cup {Null}]
    /\ id \in [Threads -> Ids]
    /\ used \subseteq Addrs
    /\ next \in [Nodes -> Nodes \cup {Null}]
    /\ prev \in [Nodes -> Nodes \cup {Null}]
    /\ memory_id \in [Addrs -> Ids]
    /\ held \in [Threads -> SUBSET Addrs]
    /\ order \in SUBSET (Nodes \X Nodes)

\* initMALLOC, called first thing in main.
Init ==
    /\ mutexMEM = Nobody
    /\ pc = [t \in Threads |-> "idle"]
    /\ this = [t \in Threads |-> Null]
    /\ near = [t \in Threads |-> Null]
    /\ id = [t \in Threads |-> 0]
    /\ used = {}
    /\ next = [n \in Nodes |-> IF n = MMfirst THEN MMlast ELSE Null]
    /\ prev = [n \in Nodes |-> IF n = MMlast THEN MMfirst ELSE Null]
    /\ memory_id = [a \in Addrs |-> 0]
    /\ held = [t \in Threads |-> {}]
    /\ order = {<<MMfirst, MMlast>>}

-----------------------------------------------------------------------------
(* Calls.  The pointer given to a free or a resize leaves the caller's     *)
(* hands before the lock is taken.                                         *)

CallNew(t, m) ==
    /\ pc[t] = "idle"
    /\ m # 0 => t = UI
    /\ pc' = [pc EXCEPT ![t] = "new"]
    /\ id' = [id EXCEPT ![t] = m]
    /\ UNCHANGED <<mutexMEM, this, near, held, listVars>>

CallFree(t, a) ==
    /\ pc[t] = "idle"
    /\ a \in held[t]
    /\ pc' = [pc EXCEPT ![t] = "free"]
    /\ this' = [this EXCEPT ![t] = a]
    /\ held' = [held EXCEPT ![t] = @ \ {a}]
    /\ UNCHANGED <<mutexMEM, near, id, listVars>>

CallResize(t, a) ==
    /\ pc[t] = "idle"
    /\ a \in held[t]
    /\ pc' = [pc EXCEPT ![t] = "resize"]
    /\ this' = [this EXCEPT ![t] = a]
    /\ id' = [id EXCEPT ![t] = 0]
    /\ held' = [held EXCEPT ![t] = @ \ {a}]
    /\ UNCHANGED <<mutexMEM, near, listVars>>

\* FreeAllMemory of a group.  The id 0, for which the sweep frees every block
\* (dmalloc.c:211), is left out: isosurfaces and geometry have ids taken from
\* ++nmemory_ids (readsmv.c:3567, 7198, 7206).  A GEOMDIAG geometry has none (its
\* memory_id is never set, readsmv.c:3541) and is left out too.  That the caller
\* drops its pointers into the group, as readiso_geom does around the call
\* (IOiso.c:177-180), is assumed: nothing in dmalloc.c sees to it.
CallFreeAll(m) ==
    /\ pc[UI] = "idle"
    /\ pc' = [pc EXCEPT ![UI] = "freeall"]
    /\ id' = [id EXCEPT ![UI] = m]
    /\ held' = [held EXCEPT ![UI] = {a \in @ : memory_id[a] # m}]
    /\ UNCHANGED <<mutexMEM, this, near, listVars>>

\* A block passes from one thread to another, as the arrays a loader thread
\* fills are handed to the thread that draws them; groups stay with UI.
HandOver(t, u, a) ==
    /\ pc[t] = "idle"
    /\ t # u
    /\ a \in held[t]
    /\ memory_id[a] = 0
    /\ held' = [held EXCEPT ![t] = @ \ {a}, ![u] = @ \cup {a}]
    /\ UNCHANGED <<callVars, listVars>>

-----------------------------------------------------------------------------
(* LOCK_MEM and UNLOCK_MEM.                                                *)

EnterAt == [new |-> "alloc", free |-> "unlink", resize |-> "realloc", freeall |-> "start"]

LockMem(t) ==
    /\ pc[t] \in Waiting
    /\ mutexMEM = Nobody
    /\ mutexMEM' = t
    /\ pc' = [pc EXCEPT ![t] = EnterAt[pc[t]]]
    /\ UNCHANGED <<this, near, id, held, listVars>>

UnlockMem(t) ==
    /\ pc[t] = "unlock"
    /\ mutexMEM' = Nobody
    /\ pc' = [pc EXCEPT ![t] = "idle"]
    /\ this' = [this EXCEPT ![t] = Null]
    /\ near' = [near EXCEPT ![t] = Null]
    /\ UNCHANGED <<id, held, listVars>>

-----------------------------------------------------------------------------
(* _NewMemoryNOTHREAD: the C library's block, the read of MMfirst->next,   *)
(* then the block becomes the first of the list.                           *)

NewMalloc(t, a) ==
    /\ pc[t] = "alloc"
    /\ a \notin used
    /\ used' = used \cup {a}
    /\ this' = [this EXCEPT ![t] = a]
    /\ near' = [near EXCEPT ![t] = next[MMfirst]]
    /\ pc' = [pc EXCEPT ![t] = "link"]
    /\ UNCHANGED <<mutexMEM, id, next, prev, memory_id, held, order>>

\* Out of memory: the caller gets a null pointer.
NewFails(t) ==
    /\ pc[t] = "alloc"
    /\ pc' = [pc EXCEPT ![t] = "unlock"]
    /\ UNCHANGED <<mutexMEM, this, near, id, held, listVars>>

\* Where a new first entry stands.
InsertFirst(a) ==
    order \cup {<<MMfirst, a>>} \cup {<<a, n>> : n \in Listed \ {MMfirst, a}}

\* Mutant: the old first block keeps MMfirst as its predecessor.
NewLink_NoBackLink(t) ==
    /\ pc[t] = "link"
    /\ next' = [next EXCEPT ![MMfirst] = this[t], ![this[t]] = near[t]]
    /\ prev' = [prev EXCEPT ![this[t]] = MMfirst]
    /\ memory_id' = [memory_id EXCEPT ![this[t]] = id[t]]
    /\ order' = InsertFirst(this[t])
    /\ held' = [held EXCEPT ![t] = @ \cup {this[t]}]
    /\ pc' = [pc EXCEPT ![t] = "unlock"]
    /\ UNCHANGED <<mutexMEM, this, near, id, used>>

NewLink(t) ==
    /\ pc[t] = "link"
    /\ next' = [next EXCEPT ![MMfirst] = this[t], ![this[t]] = near[t]]
    /\ prev' = [prev EXCEPT ![near[t]] = this[t], ![this[t]] = MMfirst]
    /\ memory_id' = [memory_id EXCEPT ![this[t]] = id[t]]
    /\ order' = InsertFirst(this[t])
    /\ held' = [held EXCEPT ![t] = @ \cup {this[t]}]
    /\ pc' = [pc EXCEPT ![t] = "unlock"]
    /\ UNCHANGED <<mutexMEM, this, near, id, used>>

-----------------------------------------------------------------------------
(* FreeMemoryNOTHREAD: the neighbours are linked to each other, the block  *)
(* goes back to the C library, and what its fields held is lost.           *)

Unlink(a) ==
    /\ next' = [next EXCEPT ![prev[a]] = next[a], ![a] = Null]
    /\ prev' = [prev EXCEPT ![next[a]] = prev[a], ![a] = Null]
    /\ used' = used \ {a}
    /\ memory_id' = [memory_id EXCEPT ![a] = 0]
    /\ order' = {p \in order : a \notin {p[1], p[2]}}

FreeUnlink(t) ==
    /\ pc[t] = "unlink"
    /\ Unlink(this[t])
    /\ pc' = [pc EXCEPT ![t] = "unlock"]
    /\ UNCHANGED <<mutexMEM, this, near, id, held>>

-----------------------------------------------------------------------------
(* _ResizeMemoryNOTHREAD.                                                  *)

Renamed(n, a, b) == IF n = a THEN b ELSE n

\* realloc moves the block to b: its neighbours are relinked, it takes the
\* id of this call, and its place in the list stays.
Relink(a, b, m) ==
    /\ next' = [next EXCEPT ![prev[a]] = b, ![b] = next[a], ![a] = Null]
    /\ prev' = [prev EXCEPT ![next[a]] = b, ![b] = prev[a], ![a] = Null]
    /\ used' = (used \ {a}) \cup {b}
    /\ memory_id' = [memory_id EXCEPT ![b] = m, ![a] = 0]
    /\ order' = {<<Renamed(p[1], a, b), Renamed(p[2], a, b)>> : p \in order}

\* Mutant: the caller keeps the pointer to where the block was.
ResizeMoves_OldPointer(t, b) ==
    /\ pc[t] = "realloc"
    /\ b \notin used
    /\ Relink(this[t], b, id[t])
    /\ held' = [held EXCEPT ![t] = @ \cup {this[t]}]
    /\ pc' = [pc EXCEPT ![t] = "unlock"]
    /\ UNCHANGED <<mutexMEM, this, near, id>>

ResizeMoves(t, b) ==
    /\ pc[t] = "realloc"
    /\ b \notin used
    /\ Relink(this[t], b, id[t])
    /\ held' = [held EXCEPT ![t] = @ \cup {b}]
    /\ pc' = [pc EXCEPT ![t] = "unlock"]
    /\ UNCHANGED <<mutexMEM, this, near, id>>

\* Mutant: the result of a realloc that failed is stored.
ResizeStays_StoresNull(t) ==
    /\ pc[t] = "realloc"
    /\ held' = [held EXCEPT ![t] = @ \cup {Null}]
    /\ pc' = [pc EXCEPT ![t] = "unlock"]
    /\ UNCHANGED <<mutexMEM, this, near, id, listVars>>

\* realloc resizes the block where it is, or fails and leaves it alone: the
\* caller keeps the pointer, and the block its id.
ResizeStays(t) ==
    /\ pc[t] = "realloc"
    /\ held' = [held EXCEPT ![t] = @ \cup {this[t]}]
    /\ pc' = [pc EXCEPT ![t] = "unlock"]
    /\ UNCHANGED <<mutexMEM, this, near, id, listVars>>

-----------------------------------------------------------------------------
(* FreeAllMemory: a walk over the list that frees the blocks of one group. *)

FreeAllStart(t) ==
    /\ pc[t] = "start"
    /\ this' = [this EXCEPT ![t] = next[MMfirst]]
    /\ pc' = [pc EXCEPT ![t] = "sweep"]
    /\ UNCHANGED <<mutexMEM, near, id, held, listVars>>

\* nextptr is read before the block is freed.
FreeAllFrees(t) ==
    /\ pc[t] = "sweep"
    /\ this[t] # MMlast
    /\ memory_id[this[t]] = id[t]
    /\ Unlink(this[t])
    /\ near' = [near EXCEPT ![t] = next[this[t]]]
    /\ this' = [this EXCEPT ![t] = next[this[t]]]
    /\ UNCHANGED <<mutexMEM, pc, id, held>>

\* Mutant: the walk does not advance past a block it keeps.
FreeAllKeeps_Stuck(t) ==
    /\ pc[t] = "sweep"
    /\ this[t] # MMlast
    /\ memory_id[this[t]] # id[t]
    /\ near' = [near EXCEPT ![t] = next[this[t]]]
    /\ UNCHANGED <<mutexMEM, pc, this, id, held, listVars>>

FreeAllKeeps(t) ==
    /\ pc[t] = "sweep"
    /\ this[t] # MMlast
    /\ memory_id[this[t]] # id[t]
    /\ near' = [near EXCEPT ![t] = next[this[t]]]
    /\ this' = [this EXCEPT ![t] = next[this[t]]]
    /\ UNCHANGED <<mutexMEM, pc, id, held, listVars>>

\* Mutant: the walk ends at the first block of another group.
FreeAllEnds_OtherGroup(t) ==
    /\ pc[t] = "sweep"
    /\ this[t] # MMlast => memory_id[this[t]] # id[t]
    /\ pc' = [pc EXCEPT ![t] = "unlock"]
    /\ UNCHANGED <<mutexMEM, this, near, id, held, listVars>>

\* MMlast is the entry whose next is null.
FreeAllEnds(t) ==
    /\ pc[t] = "sweep"
    /\ this[t] = MMlast
    /\ pc' = [pc EXCEPT ![t] = "unlock"]
    /\ UNCHANGED <<mutexMEM, this, near, id, held, listVars>>

-----------------------------------------------------------------------------
InsideStep(t) ==
    \/ \E a \in Addrs : NewMalloc(t, a)
    \/ NewFails(t)
    \/ NewLink(t)
    \/ FreeUnlink(t)
    \/ \E b \in Addrs : ResizeMoves(t, b)
    \/ ResizeStays(t)
    \/ FreeAllStart(t)
    \/ FreeAllFrees(t)
    \/ FreeAllKeeps(t)
    \/ FreeAllEnds(t)
    \/ UnlockMem(t)

Next ==
    \/ \E t \in Threads, m \in Ids : CallNew(t, m)
    \/ \E t \in Threads, a \in Addrs : CallFree(t, a) \/ CallResize(t, a)
    \/ \E m \in Ids \ {0} : CallFreeAll(m)
    \/ \E t, u \in Threads, a \in Addrs : HandOver(t, u, a)
    \/ \E t \in Threads : LockMem(t) \/ InsideStep(t)

Spec == Init /\ [][Next]_vars

\* A thread inside the allocator is scheduled and waits for nothing else.
FairSpec == Spec /\ \A t \in Threads : WF_vars(InsideStep(t))

-----------------------------------------------------------------------------
(* Properties.                                                             *)

\* Two threads are never between LOCK_MEM and UNLOCK_MEM at a time, and the
\* lock is not left taken.
LockExcludes == \A t \in Threads : pc[t] \in Inside <=> mutexMEM = t

\* ord is a strict total order of the entries L from MMfirst to MMlast.
Ordered(L, ord) ==
    /\ \A p \in ord : p[1] \in L /\ p[2] \in L
    /\ \A m, n \in L : m = n \/ <<m, n>> \in ord \/ <<n, m>> \in ord
    /\ \A m, n \in L : ~(<<m, n>> \in ord /\ <<n, m>> \in ord)
    /\ \A l, m, n \in L : <<l, m>> \in ord /\ <<m, n>> \in ord => <<l, n>> \in ord
    /\ \A n \in L \ {MMfirst} : <<MMfirst, n>> \in ord
    /\ \A n \in L \ {MMlast} : <<n, MMlast>> \in ord

\* nx leads from each entry to the nearest one behind it, pv back again.
Chained(L, nx, pv, ord) ==
    /\ \A m \in L \ {MMlast} :
        /\ nx[m] \in L
        /\ <<m, nx[m]>> \in ord
        /\ pv[nx[m]] = m
        /\ \A n \in L : <<m, n>> \in ord => n = nx[m] \/ <<nx[m], n>> \in ord
    /\ \A n \in L \ {MMfirst} :
        /\ pv[n] \in L
        /\ <<pv[n], n>> \in ord
        /\ nx[pv[n]] = n
    /\ nx[MMlast] = Null

\* The list, read forwards or backwards, holds every block the program has
\* and nothing the C library has taken back.
ListOK == Ordered(Listed, order) /\ Chained(Listed, next, prev, order)

\* A pointer a thread holds, and one it has given to a free or a resize that
\* is still to be done, points to a block in the list, and no block is
\* anybody else's too: no call ever works on freed memory.
Pending(t) == IF pc[t] \in {"free", "resize", "unlink", "realloc"} THEN {this[t]} ELSE {}

HeldIsLive ==
    /\ \A t \in Threads : held[t] \cup Pending(t) \subseteq Linked
    /\ \A t \in Threads : held[t] \cap Pending(t) = {}
    /\ \A t, u \in Threads : t # u => (held[t] \cup Pending(t)) \cap (held[u] \cup Pending(u)) = {}

\* While FreeAllMemory sweeps, a block of its group that is left is still
\* ahead of it: at the end of the walk none is left.
SweepOK ==
    \A t \in Threads : pc[t] = "sweep" =>
        /\ this[t] \in Listed \ {MMfirst}
        /\ \A a \in Linked : memory_id[a] = id[t] => a = this[t] \/ <<this[t], a>> \in order

\* What the invariants above rest on: the values the calls keep in locals
\* across their steps, and the callers' use of memory ids.
LocalsOK ==
    \A t \in Threads : pc[t] = "link" => this[t] \in used /\ near[t] = next[MMfirst]

GroupsOK ==
    /\ \A t \in Threads \ {UI} :
        /\ id[t] = 0
        /\ pc[t] \notin {"freeall", "start", "sweep"}
        /\ \A a \in held[t] \cup Pending(t) : memory_id[a] = 0
    /\ pc[UI] \in {"freeall", "start", "sweep"} =>
        /\ id[UI] # 0
        /\ \A a \in held[UI] : memory_id[a] # id[UI]

\* A call that has the lock returns: the walk of FreeAllMemory comes to
\* MMlast whatever was freed on the way.
CallsReturn == \A t \in Threads : pc[t] \in Inside ~> pc[t] = "idle"

\* The blocks a caller can count on: those in the list, without the group
\* that FreeAllMemory has begun to free.
LiveBlocks ==
    [a \in Addrs |->
        IF a \in Linked /\ ~\E t \in Threads : pc[t] = "sweep" /\ memory_id[a] = id[t]
        THEN memory_id[a]
        ELSE Absent]

\* Seen from outside, every call is one step on the set of live blocks.
H == INSTANCE Heap WITH heap <- LiveBlocks

HeapSpec == H!HeapSpec
=============================================================================
