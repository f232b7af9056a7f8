-------------------------------- MODULE Heap --------------------------------
(***************************************************************************)
(* What shared/MALLOC.h promises to the C tools: blocks with distinct      *)
(* addresses, each carrying the memory id it was allocated under, freed    *)
(* one by one or all together by memory id.  Every call is one step.       *)
(***************************************************************************)
CONSTANTS
    Addrs,      \* the addresses malloc and realloc may return
    Ids,        \* the memory ids, 0 (no group) among them
    Absent      \* no block at this address

VARIABLE heap   \* address -> memory id of the live block there, or Absent

HeapTypeOK == heap \in [Addrs -> Ids \cup {Absent}]

HeapInit == heap = [a \in Addrs |-> Absent]

\* NewMemory and NewMemoryMemID: a block nobody has gets the id asked for.
Alloc(a, m) ==
    /\ heap[a] = Absent
    /\ heap' = [heap EXCEPT ![a] = m]

\* FreeMemory and FREEMEMORY: the block ceases to exist.
Free(a) ==
    /\ heap[a] # Absent
    /\ heap' = [heap EXCEPT ![a] = Absent]

\* ResizeMemory that moves the block from a to b, giving it the id m.
Move(a, b, m) ==
    /\ heap[a] # Absent
    /\ heap[b] = Absent
    /\ heap' = [heap EXCEPT ![a] = Absent, ![b] = m]

\* FreeAllMemory: the blocks of group m go, and no others.
FreeGroup(m) ==
    heap' = [a \in Addrs |-> IF heap[a] = m THEN Absent ELSE heap[a]]

HeapNext ==
    \/ \E a \in Addrs : Free(a)
    \/ \E a \in Addrs, m \in Ids : Alloc(a, m)
    \/ \E a, b \in Addrs, m \in Ids : Move(a, b, m)
    \/ \E m \in Ids \ {0} : FreeGroup(m)

HeapSpec == HeapInit /\ [][HeapNext]_heap
=============================================================================
