---------------------------- MODULE DmallocProofs ----------------------------
(***************************************************************************)
(* Theorems about Dmalloc for any threads, addresses and memory ids.       *)
(***************************************************************************)
EXTENDS Dmalloc, TLAPS

USE DmallocAssumption

-----------------------------------------------------------------------------
(* Types.                                                                  *)

LEMMA TypeInit == Init => TypeOK
  BY DEF Init, TypeOK, Nodes

\* The types of the list's variables.
ListType ==
    /\ used \subseteq Addrs
    /\ next \in [Nodes -> Nodes \cup {Null}]
    /\ prev \in [Nodes -> Nodes \cup {Null}]
    /\ memory_id \in [Addrs -> Ids]
    /\ order \in SUBSET (Nodes \X Nodes)

\* Taking an entry out of the list keeps the types.
LEMMA UnlinkType ==
  ASSUME TypeOK, NEW a \in Nodes \cup {Null}, Unlink(a), a \in Nodes
  PROVE  ListType'
  BY DEF TypeOK, Unlink, Nodes, ListType

\* Giving an entry another address keeps the types.
LEMMA RelinkType ==
  ASSUME TypeOK, NEW a \in Nodes, NEW b \in Addrs, NEW m \in Ids, Relink(a, b, m)
  PROVE  ListType'
  <1>1. order' \in SUBSET (Nodes \X Nodes)
    <2>1. ASSUME NEW p \in order
          PROVE  <<Renamed(p[1], a, b), Renamed(p[2], a, b)>> \in Nodes \X Nodes
      <3>1. p[1] \in Nodes /\ p[2] \in Nodes
        BY DEF TypeOK
      <3> QED
        BY <3>1 DEF Renamed, Nodes
    <2> QED
      BY <2>1 DEF Relink
  <1>2. used' \subseteq Addrs
    BY DEF TypeOK, Relink
  <1>3. next' \in [Nodes -> Nodes \cup {Null}]
    BY DEF TypeOK, Relink, Nodes
  <1>4. prev' \in [Nodes -> Nodes \cup {Null}]
    BY DEF TypeOK, Relink, Nodes
  <1>5. memory_id' \in [Addrs -> Ids]
    BY DEF TypeOK, Relink
  <1> QED
    BY <1>1, <1>2, <1>3, <1>4, <1>5 DEF ListType

-----------------------------------------------------------------------------
(* The three things the calls do to the list.                              *)

\* Nodes are distinct from null, and only MMfirst and MMlast are not blocks.
LEMMA ListedNodes ==
  ASSUME TypeOK
  PROVE  /\ Listed \subseteq Nodes
         /\ Linked \subseteq Addrs
         /\ Null \notin Nodes
  BY DEF TypeOK, Listed, Linked, Nodes

\* Lists as values: L is the set of entries, nx, pv and ord the links and
\* the order before, nx2, pv2 and ord2 those after.

\* A new entry a behind MMfirst keeps the order.
LEMMA InsertOrdered ==
  ASSUME NEW L, NEW ord, NEW ord2, NEW a, Ordered(L, ord), a \notin L,
         MMfirst \in L, MMlast \in L,
         \A p \in ord2 : p[1] \in L \cup {a} /\ p[2] \in L \cup {a},
         \A m, n \in L : <<m, n>> \in ord2 <=> <<m, n>> \in ord,
         \A n \in L : <<a, n>> \in ord2 <=> n # MMfirst,
         \A n \in L : <<n, a>> \in ord2 <=> n = MMfirst,
         <<a, a>> \notin ord2
  PROVE  Ordered(L \cup {a}, ord2)
  <1>1. \A n \in L : <<n, MMfirst>> \notin ord
    BY DEF Ordered
  <1>2. \A m, n \in L \cup {a} : m = n \/ <<m, n>> \in ord2 \/ <<n, m>> \in ord2
    BY DEF Ordered
  <1>3. \A m, n \in L \cup {a} : ~(<<m, n>> \in ord2 /\ <<n, m>> \in ord2)
    BY DEF Ordered
  <1>4. \A l, m, n \in L \cup {a} : <<l, m>> \in ord2 /\ <<m, n>> \in ord2 => <<l, n>> \in ord2
    BY <1>1 DEF Ordered
  <1>5. /\ \A n \in (L \cup {a}) \ {MMfirst} : <<MMfirst, n>> \in ord2
        /\ \A n \in (L \cup {a}) \ {MMlast} : <<n, MMlast>> \in ord2
    BY DEF Ordered
  <1> QED
    BY <1>2, <1>3, <1>4, <1>5 DEF Ordered

\* Linking it there keeps the chain.
LEMMA InsertChained ==
  ASSUME NEW L, NEW ord, NEW ord2, NEW nx, NEW pv, NEW nx2, NEW pv2, NEW a,
         Ordered(L, ord), Chained(L, nx, pv, ord), a \notin L,
         MMfirst \in L, MMlast \in L,
         \A m, n \in L : <<m, n>> \in ord2 <=> <<m, n>> \in ord,
         \A n \in L : <<a, n>> \in ord2 <=> n # MMfirst,
         \A n \in L : <<n, a>> \in ord2 <=> n = MMfirst,
         <<a, a>> \notin ord2,
         nx2[a] = nx[MMfirst], nx2[MMfirst] = a,
         \A m \in L \ {MMfirst} : nx2[m] = nx[m],
         pv2[a] = MMfirst, pv2[nx[MMfirst]] = a,
         \A m \in L \ {nx[MMfirst]} : pv2[m] = pv[m]
  PROVE  Chained(L \cup {a}, nx2, pv2, ord2)
  <1> DEFINE f == nx[MMfirst]
  <1>1. f \in L /\ <<MMfirst, f>> \in ord /\ f # MMfirst /\ f # a
    BY DEF Ordered, Chained
  <1>2. \A m \in L \ {MMfirst, MMlast} :
           nx[m] # f /\ nx[m] \in L /\ <<m, nx[m]>> \in ord /\ pv[nx[m]] = m
    BY <1>1 DEF Chained
  <1>3. \A m \in (L \cup {a}) \ {MMlast} :
           nx2[m] \in L \cup {a} /\ <<m, nx2[m]>> \in ord2 /\ pv2[nx2[m]] = m
    BY <1>1, <1>2
  <1>4. \A n \in L : <<a, n>> \in ord2 => n = f \/ <<f, n>> \in ord2
    BY <1>1 DEF Ordered, Chained
  <1>5. \A n \in L \cup {a} : <<MMfirst, n>> \in ord2 => n = a \/ <<a, n>> \in ord2
    BY DEF Ordered
  <1>6. ASSUME NEW m \in L \ {MMfirst, MMlast}, NEW n \in L \cup {a}, <<m, n>> \in ord2
        PROVE  n = nx[m] \/ <<nx[m], n>> \in ord2
    BY <1>2, <1>6 DEF Chained
  <1>7. \A m \in (L \cup {a}) \ {MMlast} : \A n \in L \cup {a} :
           <<m, n>> \in ord2 => n = nx2[m] \/ <<nx2[m], n>> \in ord2
    BY <1>1, <1>4, <1>5, <1>6
  <1>8. ASSUME NEW n \in L \ {MMfirst, f}
        PROVE  pv2[n] \in L \cup {a} /\ <<pv2[n], n>> \in ord2 /\ nx2[pv2[n]] = n
    <2>1. pv[n] \in L /\ <<pv[n], n>> \in ord /\ nx[pv[n]] = n /\ pv[n] # MMfirst
      BY <1>8 DEF Chained
    <2> QED
      BY <2>1, <1>8
  <1>9. \A n \in (L \cup {a}) \ {MMfirst} :
           pv2[n] \in L \cup {a} /\ <<pv2[n], n>> \in ord2 /\ nx2[pv2[n]] = n
    BY <1>1, <1>8
  <1>10. nx2[MMlast] = Null
    BY DEF Chained
  <1> QED
    BY <1>3, <1>7, <1>9, <1>10 DEF Chained

\* Without the entry a the order is still one.
LEMMA RemoveOrdered ==
  ASSUME NEW L, NEW ord, NEW ord2, NEW a, Ordered(L, ord), a \in L \ {MMfirst, MMlast},
         \A p \in ord2 : p[1] \in L \ {a} /\ p[2] \in L \ {a},
         \A m, n \in L \ {a} : <<m, n>> \in ord2 <=> <<m, n>> \in ord
  PROVE  Ordered(L \ {a}, ord2)
  BY DEF Ordered

\* Linking its neighbours to each other keeps the chain.
LEMMA RemoveChained ==
  ASSUME NEW L, NEW ord, NEW ord2, NEW nx, NEW pv, NEW nx2, NEW pv2, NEW a,
         Ordered(L, ord), Chained(L, nx, pv, ord), a \in L \ {MMfirst, MMlast},
         MMfirst \in L, MMlast \in L,
         \A m, n \in L \ {a} : <<m, n>> \in ord2 <=> <<m, n>> \in ord,
         nx2[pv[a]] = nx[a], \A m \in L \ {a, pv[a]} : nx2[m] = nx[m],
         pv2[nx[a]] = pv[a], \A m \in L \ {a, nx[a]} : pv2[m] = pv[m]
  PROVE  Chained(L \ {a}, nx2, pv2, ord2)
  <1> DEFINE b == pv[a]
  <1> DEFINE f == nx[a]
  <1>1. /\ b \in L \ {a} /\ <<b, a>> \in ord /\ nx[b] = a
        /\ f \in L \ {a} /\ <<a, f>> \in ord /\ pv[f] = a
    BY DEF Ordered, Chained
  <1>2. b # MMlast /\ f # MMfirst /\ <<b, f>> \in ord2
    BY <1>1 DEF Ordered
  <1>3. ASSUME NEW m \in L \ {a, b, MMlast}
        PROVE  nx[m] \in L \ {a, f} /\ <<m, nx[m]>> \in ord2 /\ pv[nx[m]] = m
    BY <1>1 DEF Chained
  <1>4. \A m \in (L \ {a}) \ {MMlast} :
           nx2[m] \in L \ {a} /\ <<m, nx2[m]>> \in ord2 /\ pv2[nx2[m]] = m
    BY <1>1, <1>2, <1>3
  <1>5. ASSUME NEW n \in L \ {a}, <<b, n>> \in ord2
        PROVE  n = f \/ <<f, n>> \in ord2
    <2>1. <<b, n>> \in ord /\ b \in L \ {MMlast}
      BY <1>5, <1>1, <1>2
    <2>2. <<a, n>> \in ord
      BY <2>1, <1>1 DEF Chained
    <2>3. n = f \/ <<f, n>> \in ord
      BY <2>2 DEF Chained
    <2> QED
      BY <2>3, <1>1
  <1>6. ASSUME NEW m \in L \ {a, b, MMlast}, NEW n \in L \ {a}, <<m, n>> \in ord2
        PROVE  n = nx[m] \/ <<nx[m], n>> \in ord2
    <2>1. <<m, n>> \in ord
      BY <1>6
    <2>2. n = nx[m] \/ <<nx[m], n>> \in ord
      BY <2>1 DEF Chained
    <2> QED
      BY <2>2, <1>3
  <1>7. \A m \in (L \ {a}) \ {MMlast} : \A n \in L \ {a} :
           <<m, n>> \in ord2 => n = nx2[m] \/ <<nx2[m], n>> \in ord2
    BY <1>1, <1>5, <1>6
  <1>8. ASSUME NEW n \in L \ {a, f, MMfirst}
        PROVE  pv[n] \in L \ {a, b} /\ <<pv[n], n>> \in ord2 /\ nx[pv[n]] = n
    BY <1>1 DEF Chained
  <1>9. \A n \in (L \ {a}) \ {MMfirst} :
           pv2[n] \in L \ {a} /\ <<pv2[n], n>> \in ord2 /\ nx2[pv2[n]] = n
    BY <1>1, <1>2, <1>8
  <1>10. nx2[MMlast] = Null
    BY <1>2 DEF Chained
  <1> QED
    BY <1>4, <1>7, <1>9, <1>10 DEF Chained

\* An entry b in the place of a keeps the order.
LEMMA RenameOrdered ==
  ASSUME NEW L, NEW ord, NEW ord2, NEW a, NEW b, Ordered(L, ord),
         a \in L \ {MMfirst, MMlast}, b \notin L, MMfirst \in L, MMlast \in L,
         \A p \in ord2 : p[1] \in (L \ {a}) \cup {b} /\ p[2] \in (L \ {a}) \cup {b},
         \A m, n \in L \ {a} : <<m, n>> \in ord2 <=> <<m, n>> \in ord,
         \A n \in L \ {a} : <<b, n>> \in ord2 <=> <<a, n>> \in ord,
         \A n \in L \ {a} : <<n, b>> \in ord2 <=> <<n, a>> \in ord,
         <<b, b>> \notin ord2
  PROVE  Ordered((L \ {a}) \cup {b}, ord2)
  <1> DEFINE M == (L \ {a}) \cup {b}
  <1> DEFINE Old(n) == IF n = b THEN a ELSE n
  <1>0. /\ \A n \in M : Old(n) \in L
        /\ \A m, n \in M : m = n <=> Old(m) = Old(n)
        /\ \A m, n \in M : <<m, n>> \in ord2 <=> <<Old(m), Old(n)>> \in ord
    BY DEF Ordered
  <1> HIDE DEF M, Old
  <1>1. \A m, n \in M : m = n \/ <<m, n>> \in ord2 \/ <<n, m>> \in ord2
    BY <1>0 DEF Ordered
  <1>2. \A m, n \in M : ~(<<m, n>> \in ord2 /\ <<n, m>> \in ord2)
    BY <1>0 DEF Ordered
  <1>3. \A l, m, n \in M : <<l, m>> \in ord2 /\ <<m, n>> \in ord2 => <<l, n>> \in ord2
    <2> TAKE l, m, n \in M
    <2>1. Old(l) \in L /\ Old(m) \in L /\ Old(n) \in L
      BY <1>0
    <2>2. <<Old(l), Old(m)>> \in ord /\ <<Old(m), Old(n)>> \in ord => <<Old(l), Old(n)>> \in ord
      BY <2>1 DEF Ordered
    <2> QED
      BY <1>0, <2>2
  <1> USE DEF M
  <1>4. /\ \A n \in M \ {MMfirst} : <<MMfirst, n>> \in ord2
        /\ \A n \in M \ {MMlast} : <<n, MMlast>> \in ord2
    BY DEF Ordered
  <1> QED
    BY <1>1, <1>2, <1>3, <1>4 DEF Ordered

\* Linking the neighbours of a to b keeps the chain.
LEMMA RenameChained ==
  ASSUME NEW L, NEW ord, NEW ord2, NEW nx, NEW pv, NEW nx2, NEW pv2, NEW a, NEW b,
         Ordered(L, ord), Chained(L, nx, pv, ord),
         a \in L \ {MMfirst, MMlast}, b \notin L, MMfirst \in L, MMlast \in L,
         \A m, n \in L \ {a} : <<m, n>> \in ord2 <=> <<m, n>> \in ord,
         \A n \in L \ {a} : <<b, n>> \in ord2 <=> <<a, n>> \in ord,
         \A n \in L \ {a} : <<n, b>> \in ord2 <=> <<n, a>> \in ord,
         <<b, b>> \notin ord2,
         nx2[pv[a]] = b, nx2[b] = nx[a], \A m \in L \ {a, pv[a]} : nx2[m] = nx[m],
         pv2[nx[a]] = b, pv2[b] = pv[a], \A m \in L \ {a, nx[a]} : pv2[m] = pv[m]
  PROVE  Chained((L \ {a}) \cup {b}, nx2, pv2, ord2)
  <1> DEFINE M == (L \ {a}) \cup {b}
  <1> DEFINE e == pv[a]
  <1> DEFINE f == nx[a]
  <1>1. /\ e \in L \ {a} /\ <<e, a>> \in ord /\ nx[e] = a
        /\ f \in L \ {a} /\ <<a, f>> \in ord /\ pv[f] = a
    BY DEF Ordered, Chained
  <1>2. e # MMlast /\ f # MMfirst
    BY <1>1 DEF Ordered
  <1>3. ASSUME NEW m \in L \ {a, e, MMlast}
        PROVE  nx[m] \in L \ {a, f} /\ <<m, nx[m]>> \in ord2 /\ pv[nx[m]] = m
    BY <1>1 DEF Chained
  <1>4. \A m \in M \ {MMlast} :
           nx2[m] \in M /\ <<m, nx2[m]>> \in ord2 /\ pv2[nx2[m]] = m
    BY <1>1, <1>2, <1>3
  <1>5. ASSUME NEW n \in M, <<b, n>> \in ord2
        PROVE  n = f \/ <<f, n>> \in ord2
    <2>1. n \in L \ {a} /\ <<a, n>> \in ord
      BY <1>5
    <2> QED
      BY <2>1, <1>1 DEF Chained
  <1>6. ASSUME NEW n \in M, <<e, n>> \in ord2
        PROVE  n = b \/ <<b, n>> \in ord2
    <2>1. CASE n # b
      <3>1. n \in L \ {a} /\ <<e, n>> \in ord /\ e \in L \ {MMlast}
        BY <2>1, <1>6, <1>1, <1>2
      <3>2. n = nx[e] \/ <<nx[e], n>> \in ord
        BY <3>1 DEF Chained
      <3> QED
        BY <3>1, <3>2, <1>1
    <2> QED
      BY <2>1
  <1>7. ASSUME NEW m \in L \ {a, e, MMlast}, NEW n \in M, <<m, n>> \in ord2
        PROVE  n = nx[m] \/ <<nx[m], n>> \in ord2
    <2>1. CASE n = b
      <3>1. <<m, a>> \in ord
        BY <1>7, <2>1
      <3>2. <<nx[m], a>> \in ord
        BY <3>1, <1>3 DEF Chained
      <3> QED
        BY <3>2, <1>3, <2>1
    <2>2. CASE n \in L \ {a}
      <3>1. <<m, n>> \in ord
        BY <1>7, <2>2
      <3>2. n = nx[m] \/ <<nx[m], n>> \in ord
        BY <3>1, <2>2 DEF Chained
      <3> QED
        BY <3>2, <1>3, <2>2
    <2> QED
      BY <2>1, <2>2
  <1>8. \A m \in M \ {MMlast} : \A n \in M :
           <<m, n>> \in ord2 => n = nx2[m] \/ <<nx2[m], n>> \in ord2
    BY <1>1, <1>5, <1>6, <1>7
  <1>9. ASSUME NEW n \in L \ {a, f, MMfirst}
        PROVE  pv[n] \in L \ {a, e} /\ <<pv[n], n>> \in ord2 /\ nx[pv[n]] = n
    BY <1>1 DEF Chained
  <1>10. \A n \in M \ {MMfirst} :
           pv2[n] \in M /\ <<pv2[n], n>> \in ord2 /\ nx2[pv2[n]] = n
    BY <1>1, <1>2, <1>9
  <1>11. nx2[MMlast] = Null
    BY <1>2 DEF Chained
  <1> QED
    BY <1>4, <1>8, <1>10, <1>11 DEF Chained

-----------------------------------------------------------------------------
(* The inductive invariant.                                                *)

IInv ==
    /\ TypeOK
    /\ LockExcludes
    /\ ListOK
    /\ HeldIsLive
    /\ SweepOK
    /\ LocalsOK
    /\ GroupsOK

\* Where the list stands while a thread is linking, and otherwise.
LEMMA LinkedWhen ==
  ASSUME TypeOK, LockExcludes
  PROVE  /\ \A t \in Threads : pc[t] = "link" => Linked = used \ {this[t]}
         /\ \A t \in Threads : pc[t] \in Inside \ {"link"} => Linked = used
  <1>1. \A t, u \in Threads : pc[t] \in Inside /\ pc[u] \in Inside => t = u
    BY DEF LockExcludes
  <1>2. "link" \in Inside
    BY DEF Inside
  <1>3. ASSUME NEW t \in Threads, pc[t] = "link"
        PROVE  Linked = used \ {this[t]}
    <2>1. \A u \in Threads : pc[u] = "link" => u = t
      BY <1>1, <1>2, <1>3
    <2>2. Linking = {this[t]}
      BY <2>1, <1>3 DEF Linking
    <2> QED
      BY <2>2 DEF Linked
  <1>4. ASSUME NEW t \in Threads, pc[t] \in Inside \ {"link"}
        PROVE  Linked = used
    <2>1. \A u \in Threads : pc[u] # "link"
      BY <1>1, <1>2, <1>4
    <2>2. Linking = {}
      BY <2>1 DEF Linking
    <2> QED
      BY <2>2 DEF Linked
  <1> QED
    BY <1>3, <1>4

LEMMA InitIInv == Init => IInv
  <1> SUFFICES ASSUME Init PROVE IInv
    OBVIOUS
  <1>1. TypeOK
    BY TypeInit
  <1>2. Linked = {} /\ Listed = {MMfirst, MMlast}
    BY DEF Init, Linked, Listed, Linking
  <1>3. LockExcludes /\ SweepOK /\ LocalsOK /\ GroupsOK
    BY DEF Init, LockExcludes, Inside, SweepOK, LocalsOK, GroupsOK, Pending
  <1>4. ListOK
    BY <1>2 DEF Init, ListOK, Ordered, Chained, Nodes
  <1>5. HeldIsLive
    BY <1>2 DEF Init, HeldIsLive, Pending
  <1> QED
    BY <1>1, <1>3, <1>4, <1>5 DEF IInv

-----------------------------------------------------------------------------
(* Steps that leave the list as it is.                                     *)

\* A step of t that neither begins nor ends a linking.
LEMMA QuietLinked ==
  ASSUME NEW t \in Threads, used' = used, pc[t] # "link", pc'[t] # "link",
         \A u \in Threads \ {t} : pc'[u] = pc[u] /\ this'[u] = this[u]
  PROVE  Linked' = Linked
  <1>1. Linking' = Linking
    BY DEF Linking
  <1> QED
    BY <1>1 DEF Linked

LEMMA QuietList ==
  ASSUME ListOK, UNCHANGED <<next, prev, order>>, Linked' = Linked
  PROVE  ListOK'
  <1>1. Listed' = Listed
    BY DEF Listed
  <1> QED
    BY <1>1 DEF ListOK, Ordered, Chained

LEMMA CallNewKeeps ==
  ASSUME IInv, NEW t \in Threads, NEW m \in Ids, CallNew(t, m)
  PROVE  IInv'
  <1> USE DEF IInv
  <1>1. TypeOK'
    BY DEF TypeOK, CallNew, listVars, Waiting, Inside, EnterAt, ListOK, Chained, Listed, Nodes
  <1>2. Linked' = Linked
    BY QuietLinked DEF TypeOK, CallNew, listVars, Waiting, EnterAt
  <1>3. LockExcludes'
    BY DEF TypeOK, LockExcludes, CallNew, Waiting, Inside, EnterAt
  <1>4. ListOK'
    BY <1>2, QuietList DEF CallNew, listVars
  <1>5. HeldIsLive'
    BY <1>2 DEF TypeOK, HeldIsLive, Pending, CallNew, Waiting, EnterAt
  <1>6. SweepOK'
    BY <1>2 DEF TypeOK, SweepOK, CallNew, listVars, Waiting, EnterAt, Listed
  <1>7. LocalsOK'
    BY DEF TypeOK, LocalsOK, CallNew, listVars, Waiting, EnterAt
  <1>8. GroupsOK'
    BY DEF TypeOK, GroupsOK, Pending, CallNew, listVars, Waiting, EnterAt
  <1> QED
    BY <1>1, <1>3, <1>4, <1>5, <1>6, <1>7, <1>8

LEMMA CallFreeKeeps ==
  ASSUME IInv, NEW t \in Threads, NEW a \in Addrs, CallFree(t, a)
  PROVE  IInv'
  <1> USE DEF IInv
  <1>1. TypeOK'
    BY DEF TypeOK, CallFree, listVars, Waiting, Inside, EnterAt, ListOK, Chained, Listed, Nodes
  <1>2. Linked' = Linked
    BY QuietLinked DEF TypeOK, CallFree, listVars, Waiting, EnterAt
  <1>3. LockExcludes'
    BY DEF TypeOK, LockExcludes, CallFree, Waiting, Inside, EnterAt
  <1>4. ListOK'
    BY <1>2, QuietList DEF CallFree, listVars
  <1>5. HeldIsLive'
    BY <1>2 DEF TypeOK, HeldIsLive, Pending, CallFree, Waiting, EnterAt
  <1>6. SweepOK'
    BY <1>2 DEF TypeOK, SweepOK, CallFree, listVars, Waiting, EnterAt, Listed
  <1>7. LocalsOK'
    BY DEF TypeOK, LocalsOK, CallFree, listVars, Waiting, EnterAt
  <1>8. GroupsOK'
    BY DEF TypeOK, GroupsOK, Pending, CallFree, listVars, Waiting, EnterAt
  <1> QED
    BY <1>1, <1>3, <1>4, <1>5, <1>6, <1>7, <1>8

LEMMA CallResizeKeeps ==
  ASSUME IInv, NEW t \in Threads, NEW a \in Addrs, CallResize(t, a)
  PROVE  IInv'
  <1> USE DEF IInv
  <1>1. TypeOK'
    BY DEF TypeOK, CallResize, listVars, Waiting, Inside, EnterAt, ListOK, Chained, Listed, Nodes
  <1>2. Linked' = Linked
    BY QuietLinked DEF TypeOK, CallResize, listVars, Waiting, EnterAt
  <1>3. LockExcludes'
    BY DEF TypeOK, LockExcludes, CallResize, Waiting, Inside, EnterAt
  <1>4. ListOK'
    BY <1>2, QuietList DEF CallResize, listVars
  <1>5. HeldIsLive'
    BY <1>2 DEF TypeOK, HeldIsLive, Pending, CallResize, Waiting, EnterAt
  <1>6. SweepOK'
    BY <1>2 DEF TypeOK, SweepOK, CallResize, listVars, Waiting, EnterAt, Listed
  <1>7. LocalsOK'
    BY DEF TypeOK, LocalsOK, CallResize, listVars, Waiting, EnterAt
  <1>8. GroupsOK'
    BY DEF TypeOK, GroupsOK, Pending, CallResize, listVars, Waiting, EnterAt
  <1> QED
    BY <1>1, <1>3, <1>4, <1>5, <1>6, <1>7, <1>8

LEMMA CallFreeAllKeeps ==
  ASSUME IInv, NEW t \in {UI}, NEW m \in Ids \ {0}, CallFreeAll(m)
  PROVE  IInv'
  <1> USE DEF IInv
  <1>1. TypeOK'
    BY DEF TypeOK, CallFreeAll, listVars, Waiting, Inside, EnterAt, ListOK, Chained, Listed, Nodes
  <1>2. Linked' = Linked
    BY QuietLinked DEF TypeOK, CallFreeAll, listVars, Waiting, EnterAt
  <1>3. LockExcludes'
    BY DEF TypeOK, LockExcludes, CallFreeAll, Waiting, Inside, EnterAt
  <1>4. ListOK'
    BY <1>2, QuietList DEF CallFreeAll, listVars
  <1>5. HeldIsLive'
    BY <1>2 DEF TypeOK, HeldIsLive, Pending, CallFreeAll, Waiting, EnterAt
  <1>6. SweepOK'
    BY <1>2 DEF TypeOK, SweepOK, CallFreeAll, listVars, Waiting, EnterAt, Listed
  <1>7. LocalsOK'
    BY DEF TypeOK, LocalsOK, CallFreeAll, listVars, Waiting, EnterAt
  <1>8. GroupsOK'
    BY DEF TypeOK, GroupsOK, Pending, CallFreeAll, listVars, Waiting, EnterAt
  <1> QED
    BY <1>1, <1>3, <1>4, <1>5, <1>6, <1>7, <1>8

LEMMA LockMemKeeps ==
  ASSUME IInv, NEW t \in Threads, LockMem(t)
  PROVE  IInv'
  <1> USE DEF IInv
  <1>1. TypeOK'
    BY DEF TypeOK, LockMem, listVars, Waiting, Inside, EnterAt, ListOK, Chained, Listed, Nodes
  <1>2. Linked' = Linked
    BY QuietLinked DEF TypeOK, LockMem, listVars, Waiting, EnterAt
  <1>3. LockExcludes'
    BY DEF TypeOK, LockExcludes, LockMem, Waiting, Inside, EnterAt
  <1>4. ListOK'
    BY <1>2, QuietList DEF LockMem, listVars
  <1>5. HeldIsLive'
    BY <1>2 DEF TypeOK, HeldIsLive, Pending, LockMem, Waiting, EnterAt
  <1>6. SweepOK'
    BY <1>2 DEF TypeOK, SweepOK, LockMem, listVars, Waiting, EnterAt, Listed
  <1>7. LocalsOK'
    BY DEF TypeOK, LocalsOK, LockMem, listVars, Waiting, EnterAt
  <1>8. GroupsOK'
    BY DEF TypeOK, GroupsOK, Pending, LockMem, listVars, Waiting, EnterAt
  <1> QED
    BY <1>1, <1>3, <1>4, <1>5, <1>6, <1>7, <1>8

LEMMA UnlockMemKeeps ==
  ASSUME IInv, NEW t \in Threads, UnlockMem(t)
  PROVE  IInv'
  <1> USE DEF IInv
  <1>1. TypeOK'
    BY DEF TypeOK, UnlockMem, listVars, Waiting, Inside, EnterAt, ListOK, Chained, Listed, Nodes
  <1>2. Linked' = Linked
    BY QuietLinked DEF TypeOK, UnlockMem, listVars, Waiting, EnterAt
  <1>3. LockExcludes'
    BY DEF TypeOK, LockExcludes, UnlockMem, Waiting, Inside, EnterAt
  <1>4. ListOK'
    BY <1>2, QuietList DEF UnlockMem, listVars
  <1>5. HeldIsLive'
    BY <1>2 DEF TypeOK, HeldIsLive, Pending, UnlockMem, Waiting, EnterAt
  <1>6. SweepOK'
    BY <1>2 DEF TypeOK, SweepOK, UnlockMem, listVars, Waiting, EnterAt, Listed
  <1>7. LocalsOK'
    BY DEF TypeOK, LocalsOK, UnlockMem, listVars, Waiting, EnterAt
  <1>8. GroupsOK'
    BY DEF TypeOK, GroupsOK, Pending, UnlockMem, listVars, Waiting, EnterAt
  <1> QED
    BY <1>1, <1>3, <1>4, <1>5, <1>6, <1>7, <1>8

LEMMA NewFailsKeeps ==
  ASSUME IInv, NEW t \in Threads, NewFails(t)
  PROVE  IInv'
  <1> USE DEF IInv
  <1>1. TypeOK'
    BY DEF TypeOK, NewFails, listVars, Waiting, Inside, EnterAt, ListOK, Chained, Listed, Nodes
  <1>2. Linked' = Linked
    BY QuietLinked DEF TypeOK, NewFails, listVars, Waiting, EnterAt
  <1>3. LockExcludes'
    BY DEF TypeOK, LockExcludes, NewFails, Waiting, Inside, EnterAt
  <1>4. ListOK'
    BY <1>2, QuietList DEF NewFails, listVars
  <1>5. HeldIsLive'
    BY <1>2 DEF TypeOK, HeldIsLive, Pending, NewFails, Waiting, EnterAt
  <1>6. SweepOK'
    BY <1>2 DEF TypeOK, SweepOK, NewFails, listVars, Waiting, EnterAt, Listed
  <1>7. LocalsOK'
    BY DEF TypeOK, LocalsOK, NewFails, listVars, Waiting, EnterAt
  <1>8. GroupsOK'
    BY DEF TypeOK, GroupsOK, Pending, NewFails, listVars, Waiting, EnterAt
  <1> QED
    BY <1>1, <1>3, <1>4, <1>5, <1>6, <1>7, <1>8

LEMMA ResizeStaysKeeps ==
  ASSUME IInv, NEW t \in Threads, ResizeStays(t)
  PROVE  IInv'
  <1> USE DEF IInv
  <1>1. TypeOK'
    <2>1. this[t] \in Addrs
      BY ListedNodes DEF HeldIsLive, Pending, ResizeStays
    <2> QED
      BY <2>1 DEF TypeOK, ResizeStays, listVars, Inside
  <1>2. Linked' = Linked
    BY QuietLinked DEF TypeOK, ResizeStays, listVars, Waiting, EnterAt
  <1>3. LockExcludes'
    BY DEF TypeOK, LockExcludes, ResizeStays, Waiting, Inside, EnterAt
  <1>4. ListOK'
    BY <1>2, QuietList DEF ResizeStays, listVars
  <1>5. HeldIsLive'
    BY <1>2 DEF TypeOK, HeldIsLive, Pending, ResizeStays, Waiting, EnterAt
  <1>6. SweepOK'
    BY <1>2 DEF TypeOK, SweepOK, ResizeStays, listVars, Waiting, EnterAt, Listed
  <1>7. LocalsOK'
    BY DEF TypeOK, LocalsOK, ResizeStays, listVars, Waiting, EnterAt
  <1>8. GroupsOK'
    BY DEF TypeOK, GroupsOK, Pending, ResizeStays, listVars, Waiting, EnterAt
  <1> QED
    BY <1>1, <1>3, <1>4, <1>5, <1>6, <1>7, <1>8

LEMMA FreeAllStartKeeps ==
  ASSUME IInv, NEW t \in Threads, FreeAllStart(t)
  PROVE  IInv'
  <1> USE DEF IInv
  <1>1. TypeOK'
    BY DEF TypeOK, FreeAllStart, listVars, Waiting, Inside, EnterAt, ListOK, Chained, Listed, Nodes
  <1>2. Linked' = Linked
    BY QuietLinked DEF TypeOK, FreeAllStart, listVars, Waiting, EnterAt
  <1>3. LockExcludes'
    BY DEF TypeOK, LockExcludes, FreeAllStart, Waiting, Inside, EnterAt
  <1>4. ListOK'
    BY <1>2, QuietList DEF FreeAllStart, listVars
  <1>5. HeldIsLive'
    BY <1>2 DEF TypeOK, HeldIsLive, Pending, FreeAllStart, Waiting, EnterAt
  <1>6. SweepOK'
    <2>1. MMfirst \in Listed \ {MMlast}
      BY DEF Listed
    <2>2. next[MMfirst] \in Listed \ {MMfirst}
      BY <2>1 DEF ListOK, Ordered, Chained
    <2>3. \A n \in Listed \ {MMfirst} : n = next[MMfirst] \/ <<next[MMfirst], n>> \in order
      BY <2>1 DEF ListOK, Ordered, Chained
    <2>4. \A a \in Linked : a \in Listed \ {MMfirst}
      BY ListedNodes DEF Listed
    <2>5. Listed' = Listed
      BY <1>2 DEF Listed
    <2>6. t = UI /\ \A u \in Threads \ {UI} : pc'[u] # "sweep"
      BY DEF GroupsOK, FreeAllStart, TypeOK
    <2> QED
      BY <1>2, <2>2, <2>3, <2>4, <2>5, <2>6 DEF SweepOK, FreeAllStart, listVars, TypeOK
  <1>7. LocalsOK'
    BY DEF TypeOK, LocalsOK, FreeAllStart, listVars, Waiting, EnterAt
  <1>8. GroupsOK'
    BY DEF TypeOK, GroupsOK, Pending, FreeAllStart, listVars, Waiting, EnterAt
  <1> QED
    BY <1>1, <1>3, <1>4, <1>5, <1>6, <1>7, <1>8

LEMMA FreeAllKeepsKeeps ==
  ASSUME IInv, NEW t \in Threads, FreeAllKeeps(t)
  PROVE  IInv'
  <1> USE DEF IInv
  <1>1. TypeOK'
    <2>1. this[t] \in Nodes
      BY ListedNodes DEF SweepOK, FreeAllKeeps
    <2> QED
      BY <2>1 DEF TypeOK, FreeAllKeeps, listVars
  <1>2. Linked' = Linked
    BY QuietLinked DEF TypeOK, FreeAllKeeps, listVars, Waiting, EnterAt
  <1>3. LockExcludes'
    BY DEF TypeOK, LockExcludes, FreeAllKeeps, Waiting, Inside, EnterAt
  <1>4. ListOK'
    BY <1>2, QuietList DEF FreeAllKeeps, listVars
  <1>5. HeldIsLive'
    BY <1>2 DEF TypeOK, HeldIsLive, Pending, FreeAllKeeps, Waiting, EnterAt
  <1>6. SweepOK'
    <2>1. this[t] \in Listed \ {MMfirst, MMlast}
      BY DEF SweepOK, FreeAllKeeps
    <2>2. next[this[t]] \in Listed \ {MMfirst}
      <3>1. next[this[t]] \in Listed /\ <<this[t], next[this[t]]>> \in order
        BY <2>1 DEF ListOK, Chained
      <3>2. MMfirst \in Listed /\ <<MMfirst, this[t]>> \in order
        BY <2>1 DEF ListOK, Ordered, Listed
      <3> QED
        BY <2>1, <3>1, <3>2 DEF ListOK, Ordered
    <2>3. \A n \in Listed : <<this[t], n>> \in order =>
             n = next[this[t]] \/ <<next[this[t]], n>> \in order
      BY <2>1 DEF ListOK, Chained
    <2>4. \A a \in Linked : memory_id[a] = id[t] => <<this[t], a>> \in order
      BY DEF SweepOK, FreeAllKeeps
    <2>5. Listed' = Listed /\ Linked \subseteq Listed
      BY <1>2 DEF Listed
    <2>6. t = UI /\ \A u \in Threads \ {UI} : pc'[u] # "sweep"
      BY DEF GroupsOK, FreeAllKeeps, TypeOK
    <2> QED
      BY <1>2, <2>2, <2>3, <2>4, <2>5, <2>6 DEF SweepOK, FreeAllKeeps, listVars, TypeOK
  <1>7. LocalsOK'
    BY DEF TypeOK, LocalsOK, FreeAllKeeps, listVars, Waiting, EnterAt
  <1>8. GroupsOK'
    BY DEF TypeOK, GroupsOK, Pending, FreeAllKeeps, listVars, Waiting, EnterAt
  <1> QED
    BY <1>1, <1>3, <1>4, <1>5, <1>6, <1>7, <1>8

LEMMA FreeAllEndsKeeps ==
  ASSUME IInv, NEW t \in Threads, FreeAllEnds(t)
  PROVE  IInv'
  <1> USE DEF IInv
  <1>1. TypeOK'
    BY DEF TypeOK, FreeAllEnds, listVars, Waiting, Inside, EnterAt, ListOK, Chained, Listed, Nodes
  <1>2. Linked' = Linked
    BY QuietLinked DEF TypeOK, FreeAllEnds, listVars, Waiting, EnterAt
  <1>3. LockExcludes'
    BY DEF TypeOK, LockExcludes, FreeAllEnds, Waiting, Inside, EnterAt
  <1>4. ListOK'
    BY <1>2, QuietList DEF FreeAllEnds, listVars
  <1>5. HeldIsLive'
    BY <1>2 DEF TypeOK, HeldIsLive, Pending, FreeAllEnds, Waiting, EnterAt
  <1>6. SweepOK'
    BY <1>2 DEF TypeOK, SweepOK, FreeAllEnds, listVars, Waiting, EnterAt, Listed
  <1>7. LocalsOK'
    BY DEF TypeOK, LocalsOK, FreeAllEnds, listVars, Waiting, EnterAt
  <1>8. GroupsOK'
    BY DEF TypeOK, GroupsOK, Pending, FreeAllEnds, listVars, Waiting, EnterAt
  <1> QED
    BY <1>1, <1>3, <1>4, <1>5, <1>6, <1>7, <1>8

LEMMA HandOverKeeps ==
  ASSUME IInv, NEW t \in Threads, NEW u \in Threads, NEW a \in Addrs, HandOver(t, u, a)
  PROVE  IInv'
  <1> USE DEF IInv
  <1>1. TypeOK'
    BY DEF TypeOK, HandOver, callVars, listVars
  <1>2. Linked' = Linked
    BY QuietLinked DEF TypeOK, HandOver, callVars, listVars
  <1>3. LockExcludes' /\ SweepOK' /\ LocalsOK'
    BY <1>2 DEF LockExcludes, SweepOK, LocalsOK, Listed, HandOver, callVars, listVars
  <1>4. ListOK'
    BY <1>2, QuietList DEF HandOver, listVars
  <1>5. \A v \in Threads : Pending(v)' = Pending(v)
    BY DEF Pending, HandOver, callVars
  <1>6. /\ held'[t] = held[t] \ {a}
        /\ held'[u] = held[u] \cup {a}
        /\ \A v \in Threads \ {t, u} : held'[v] = held[v]
    BY DEF TypeOK, HandOver
  <1>7. HeldIsLive'
    <2>1. a \in held[t] /\ t # u
      BY DEF HandOver
    <2>2. \A v \in Threads \ {t} : a \notin held[v] \cup Pending(v)
      BY <2>1 DEF HeldIsLive
    <2>3. a \in Linked /\ a \notin Pending(t)
      BY <2>1 DEF HeldIsLive
    <2>4. \A v \in Threads : held'[v] \cup Pending(v) \subseteq Linked /\ held'[v] \cap Pending(v) = {}
      BY <2>1, <2>2, <2>3, <1>6 DEF HeldIsLive
    <2>5. \A v, w \in Threads : v # w =>
             (held'[v] \cup Pending(v)) \cap (held'[w] \cup Pending(w)) = {}
      BY <2>1, <2>2, <2>3, <1>6 DEF HeldIsLive
    <2> QED
      BY <2>4, <2>5, <1>2, <1>5 DEF HeldIsLive
  <1>8. GroupsOK'
    <2>1. memory_id[a] = 0 /\ UNCHANGED <<pc, id, memory_id>>
      BY DEF HandOver, callVars, listVars
    <2>2. \A v \in Threads \ {UI} : \A b \in held'[v] \cup Pending(v) : memory_id[b] = 0
      BY <2>1, <1>6 DEF GroupsOK
    <2>3. pc[UI] \in {"freeall", "start", "sweep"} =>
             id[UI] # 0 /\ \A b \in held'[UI] : memory_id[b] # id[UI]
      BY <2>1, <1>6 DEF GroupsOK
    <2> QED
      BY <2>1, <2>2, <2>3, <1>5 DEF GroupsOK
  <1> QED
    BY <1>1, <1>3, <1>4, <1>7, <1>8

\* A block is not listed until it is linked.
LEMMA NewMallocLinked ==
  ASSUME IInv, NEW t \in Threads, NEW a \in Addrs, NewMalloc(t, a)
  PROVE  Linked' = Linked
  <1> USE DEF IInv
  <1>1. Linked = used
    BY LinkedWhen DEF NewMalloc, Inside
  <1>2. \A u \in Threads : pc'[u] = "link" <=> u = t
    BY DEF LockExcludes, Inside, TypeOK, NewMalloc
  <1>3. Linking' = {this'[t]}
    BY <1>2 DEF Linking
  <1> QED
    BY <1>1, <1>3 DEF Linked, NewMalloc, TypeOK

LEMMA NewMallocKeeps ==
  ASSUME IInv, NEW t \in Threads, NEW a \in Addrs, NewMalloc(t, a)
  PROVE  IInv'
  <1> USE DEF IInv
  <1>1. TypeOK'
    BY DEF TypeOK, NewMalloc, Nodes, Inside
  <1>2. LockExcludes'
    BY DEF TypeOK, LockExcludes, NewMalloc, Inside
  <1>3. Linked' = Linked
    BY NewMallocLinked
  <1>4. ListOK'
    BY <1>3, QuietList DEF NewMalloc
  <1>5. HeldIsLive'
    BY <1>3 DEF TypeOK, HeldIsLive, Pending, NewMalloc
  <1>6. SweepOK'
    BY <1>3 DEF TypeOK, SweepOK, Listed, NewMalloc
  <1>7. LocalsOK'
    BY DEF TypeOK, LocalsOK, LockExcludes, Inside, NewMalloc
  <1>8. GroupsOK'
    BY DEF TypeOK, GroupsOK, Pending, NewMalloc
  <1> QED
    BY <1>1, <1>2, <1>4, <1>5, <1>6, <1>7, <1>8

-----------------------------------------------------------------------------
(* Steps that change the list.                                             *)

\* A thread that links is alone in the allocator, and its block is new.
LEMMA NewLinkEntry ==
  ASSUME IInv, NEW t \in Threads, NewLink(t)
  PROVE  /\ this[t] \in Addrs /\ this[t] \notin Linked
         /\ Linked' = Linked \cup {this[t]}
         /\ ListType'
  <1> USE DEF IInv
  <1>1. this[t] \in used /\ Linked = used \ {this[t]} /\ this[t] \in Addrs
    BY LinkedWhen DEF NewLink, LocalsOK, TypeOK
  <1>2. \A u \in Threads : pc'[u] # "link"
    BY DEF TypeOK, LockExcludes, Inside, NewLink
  <1>3. Linked' = used'
    BY <1>2 DEF Linked, Linking
  <1>4. order' \in SUBSET (Nodes \X Nodes)
    BY <1>1, ListedNodes DEF TypeOK, NewLink, InsertFirst, Nodes
  <1>5. near[t] \in Nodes
    BY <1>1 DEF LocalsOK, NewLink, ListOK, Chained, Ordered, Listed, TypeOK, Nodes
  <1>6. ListType'
    BY <1>1, <1>4, <1>5 DEF TypeOK, NewLink, ListType, Nodes
  <1> QED
    BY <1>1, <1>3, <1>6 DEF NewLink

LEMMA NewLinkList ==
  ASSUME IInv, NEW t \in Threads, NewLink(t)
  PROVE  ListOK'
  <1> USE DEF IInv
  <1> DEFINE a == this[t]
  <1>1. /\ a \in Addrs /\ a \notin Linked /\ Linked' = Linked \cup {a}
    BY NewLinkEntry
  <1>2. /\ Listed' = Listed \cup {a} /\ a \notin Listed
        /\ a \in Nodes /\ MMfirst \in Nodes /\ MMlast \in Nodes /\ Listed \subseteq Nodes
        /\ MMfirst \in Listed /\ MMlast \in Listed /\ MMfirst # a
    BY <1>1, ListedNodes DEF Listed, Nodes
  <1>3. near[t] = next[MMfirst]
    BY DEF LocalsOK, NewLink
  <1>4. next[MMfirst] \in Listed /\ next[MMfirst] # a
    BY <1>2 DEF ListOK, Chained
  <1>5. order' = order \cup {<<MMfirst, a>>} \cup {<<a, n>> : n \in Listed \ {MMfirst, a}}
    BY DEF NewLink, InsertFirst
  <1>6. \A p \in order : p[1] \in Listed /\ p[2] \in Listed
    BY DEF ListOK, Ordered
  <1>7. \A m, n : <<m, n>> \in order => m \in Listed /\ n \in Listed
    BY <1>6
  <1>8. /\ \A p \in order' : p[1] \in Listed \cup {a} /\ p[2] \in Listed \cup {a}
        /\ \A m, n \in Listed : <<m, n>> \in order' <=> <<m, n>> \in order
        /\ \A n \in Listed : <<a, n>> \in order' <=> n # MMfirst
        /\ \A n \in Listed : <<n, a>> \in order' <=> n = MMfirst
        /\ <<a, a>> \notin order'
    BY <1>2, <1>5, <1>6, <1>7
  <1>9. /\ next'[a] = next[MMfirst] /\ next'[MMfirst] = a
        /\ \A m \in Listed \ {MMfirst} : next'[m] = next[m]
    BY <1>2, <1>3 DEF NewLink, TypeOK
  <1>10. /\ prev'[a] = MMfirst /\ prev'[next[MMfirst]] = a
         /\ \A m \in Listed \ {next[MMfirst]} : prev'[m] = prev[m]
    BY <1>2, <1>3, <1>4 DEF NewLink, TypeOK
  <1>11. Ordered(Listed \cup {a}, order')
    BY <1>2, <1>8, InsertOrdered DEF ListOK
  <1>12. Chained(Listed \cup {a}, next', prev', order')
    BY <1>2, <1>8, <1>9, <1>10, InsertChained DEF ListOK
  <1> QED
    BY <1>2, <1>11, <1>12 DEF ListOK

LEMMA NewLinkKeeps ==
  ASSUME IInv, NEW t \in Threads, NewLink(t)
  PROVE  IInv'
  <1> USE DEF IInv
  <1>1. /\ this[t] \in Addrs /\ this[t] \notin Linked
        /\ Linked' = Linked \cup {this[t]}
    BY NewLinkEntry
  <1>2. TypeOK'
    <2>1. ListType'
      BY NewLinkEntry
    <2>2. /\ mutexMEM' \in Threads \cup {Nobody}
          /\ pc' \in [Threads -> {"idle"} \cup Waiting \cup Inside]
          /\ held' \in [Threads -> SUBSET Addrs]
          /\ UNCHANGED <<this, near, id>>
      BY <1>1 DEF TypeOK, NewLink, Inside
    <2> QED
      BY <2>1, <2>2 DEF TypeOK, ListType
  <1>3. LockExcludes' /\ LocalsOK'
    BY DEF TypeOK, LockExcludes, LocalsOK, NewLink, Inside
  <1>4. ListOK'
    BY NewLinkList
  <1>5. HeldIsLive'
    BY <1>1 DEF TypeOK, HeldIsLive, Pending, NewLink
  <1>6. SweepOK'
    <2>1. \A u \in Threads : pc'[u] # "sweep"
      BY DEF TypeOK, LockExcludes, Inside, NewLink
    <2> QED
      BY <2>1 DEF SweepOK
  <1>7. GroupsOK'
    <2>1. \A u \in Threads : this[t] \notin held[u] \cup Pending(u)
      BY <1>1 DEF HeldIsLive
    <2>2. \A u \in Threads : Pending(u)' = Pending(u)
      BY DEF TypeOK, Pending, NewLink
    <2>3. pc'[UI] \notin {"freeall", "start", "sweep"} \/ t # UI
      BY DEF TypeOK, NewLink
    <2>4. \A u \in Threads : u # t => held'[u] = held[u] /\ pc'[u] = pc[u]
      BY DEF TypeOK, NewLink
    <2>5. /\ held'[t] = held[t] \cup {this[t]} /\ pc'[t] = "unlock" /\ id' = id
          /\ memory_id'[this[t]] = id[t]
          /\ \A a \in Addrs \ {this[t]} : memory_id'[a] = memory_id[a]
      BY <1>1 DEF TypeOK, NewLink
    <2>6. \A u \in Threads : held[u] \cup Pending(u) \subseteq Addrs
      BY ListedNodes DEF HeldIsLive
    <2> QED
      BY <2>1, <2>2, <2>3, <2>4, <2>5, <2>6, <1>1 DEF GroupsOK
  <1> QED
    BY <1>2, <1>3, <1>4, <1>5, <1>6, <1>7

\* Where a thread takes a block out of the list, or gives it another
\* address, it is alone in the allocator and every block in use is listed.
LEMMA AloneAndListed ==
  ASSUME IInv, NEW t \in Threads, pc[t] \in Inside \ {"link"}
  PROVE  /\ Linked = used
         /\ \A u \in Threads \ {t} : pc[u] \notin Inside
  BY LinkedWhen DEF IInv, LockExcludes

LEMMA UnlinkList ==
  ASSUME TypeOK, ListOK, NEW a \in Linked, Unlink(a), Linked' = Linked \ {a}
  PROVE  ListOK'
  <1>1. /\ Listed' = Listed \ {a}
        /\ a \in Listed \ {MMfirst, MMlast}
        /\ MMfirst \in Listed /\ MMlast \in Listed /\ Listed \subseteq Nodes
    BY ListedNodes DEF Listed, Nodes
  <1>2. order' = {p \in order : a \notin {p[1], p[2]}}
    BY DEF Unlink
  <1>3. \A p \in order : p[1] \in Listed /\ p[2] \in Listed
    BY DEF ListOK, Ordered
  <1>4. \A p \in order' : p[1] \in Listed \ {a} /\ p[2] \in Listed \ {a}
    BY <1>2, <1>3
  <1>5. \A m, n \in Listed \ {a} : <<m, n>> \in order' <=> <<m, n>> \in order
    BY <1>2
  <1>6. prev[a] \in Listed \ {a} /\ next[a] \in Listed \ {a}
    BY <1>1 DEF ListOK, Ordered, Chained
  <1>7. next'[prev[a]] = next[a] /\ \A m \in Listed \ {a, prev[a]} : next'[m] = next[m]
    BY <1>1, <1>6 DEF Unlink, TypeOK
  <1>8. prev'[next[a]] = prev[a] /\ \A m \in Listed \ {a, next[a]} : prev'[m] = prev[m]
    BY <1>1, <1>6 DEF Unlink, TypeOK
  <1>9. Ordered(Listed \ {a}, order')
    BY <1>1, <1>4, <1>5, RemoveOrdered DEF ListOK
  <1>10. Chained(Listed \ {a}, next', prev', order')
    BY <1>1, <1>5, <1>7, <1>8, RemoveChained DEF ListOK
  <1> QED
    BY <1>1, <1>9, <1>10 DEF ListOK

LEMMA FreeUnlinkKeeps ==
  ASSUME IInv, NEW t \in Threads, FreeUnlink(t)
  PROVE  IInv'
  <1> USE DEF IInv
  <1> DEFINE a == this[t]
  <1>1. /\ a \in Linked /\ a \in Addrs /\ a \in Nodes
        /\ Linked = used /\ \A u \in Threads \ {t} : pc[u] \notin Inside
    BY AloneAndListed, ListedNodes DEF HeldIsLive, Pending, FreeUnlink, Inside, Nodes
  <1>2. \A u \in Threads : pc'[u] # "link"
    BY <1>1 DEF TypeOK, FreeUnlink, Inside
  <1>3. Linked' = Linked \ {a}
    BY <1>1, <1>2 DEF Linked, Linking, FreeUnlink, Unlink
  <1>4. TypeOK'
    <2>1. ListType'
      BY <1>1, UnlinkType DEF FreeUnlink
    <2>2. /\ pc' \in [Threads -> {"idle"} \cup Waiting \cup Inside]
          /\ UNCHANGED <<mutexMEM, this, near, id, held>>
      BY DEF TypeOK, FreeUnlink, Inside
    <2> QED
      BY <2>1, <2>2 DEF TypeOK, ListType
  <1>5. LockExcludes' /\ LocalsOK'
    BY <1>2 DEF TypeOK, LockExcludes, LocalsOK, FreeUnlink, Inside
  <1>6. ListOK'
    BY <1>1, <1>3, UnlinkList DEF FreeUnlink
  <1>7. /\ \A u \in Threads \ {t} : Pending(u)' = Pending(u)
        /\ Pending(t)' = {} /\ Pending(t) = {a}
    BY DEF TypeOK, Pending, FreeUnlink
  <1>8. /\ \A u \in Threads \ {t} : a \notin held[u] \cup Pending(u)
        /\ a \notin held[t]
    BY <1>7 DEF HeldIsLive
  <1>9. HeldIsLive'
    BY <1>3, <1>7, <1>8 DEF HeldIsLive, FreeUnlink
  <1>10. SweepOK'
    <2>1. \A u \in Threads : pc'[u] # "sweep"
      BY <1>1 DEF TypeOK, FreeUnlink, Inside
    <2> QED
      BY <2>1 DEF SweepOK
  <1>11. GroupsOK'
    <2>1. \A b \in Addrs \ {a} : memory_id'[b] = memory_id[b]
      BY <1>1 DEF TypeOK, FreeUnlink, Unlink
    <2>2. \A u \in Threads : held[u] \cup Pending(u)' \subseteq Addrs \ {a}
      BY <1>7, <1>8, <1>1, ListedNodes DEF HeldIsLive
    <2>3. /\ \A u \in Threads : pc'[u] # pc[u] => pc'[u] = "unlock"
          /\ UNCHANGED <<id, held>>
      BY DEF TypeOK, FreeUnlink
    <2> QED
      BY <2>1, <2>2, <2>3, <1>7 DEF GroupsOK
  <1> QED
    BY <1>4, <1>5, <1>6, <1>9, <1>10, <1>11

LEMMA FreeAllFreesKeeps ==
  ASSUME IInv, NEW t \in Threads, FreeAllFrees(t)
  PROVE  IInv'
  <1> USE DEF IInv
  <1> DEFINE a == this[t]
  <1>1. /\ a \in Linked /\ a \in Addrs /\ a \in Nodes
        /\ Linked = used /\ \A u \in Threads \ {t} : pc[u] \notin Inside
    BY AloneAndListed, ListedNodes DEF SweepOK, Listed, FreeAllFrees, Inside, Nodes
  <1>2. t = UI /\ id[t] # 0 /\ \A b \in held[t] : memory_id[b] # id[t]
    BY DEF GroupsOK, FreeAllFrees
  <1>3. \A u \in Threads : pc'[u] # "link"
    BY <1>1 DEF TypeOK, FreeAllFrees, Inside
  <1>4. Linked' = Linked \ {a}
    BY <1>1, <1>3 DEF Linked, Linking, FreeAllFrees, Unlink
  <1>5. /\ next[a] \in Listed \ {a, MMfirst}
        /\ \A n \in Listed : <<a, n>> \in order => n = next[a] \/ <<next[a], n>> \in order
    <2>1. a \in Listed \ {MMfirst, MMlast} /\ MMfirst \in Listed
      BY <1>1 DEF Listed
    <2>2. /\ next[a] \in Listed /\ <<a, next[a]>> \in order
          /\ \A n \in Listed : <<a, n>> \in order => n = next[a] \/ <<next[a], n>> \in order
      BY <2>1 DEF ListOK, Chained
    <2>3. <<a, a>> \notin order /\ <<a, MMfirst>> \notin order
      BY <2>1 DEF ListOK, Ordered
    <2> QED
      BY <2>2, <2>3
  <1>6. TypeOK'
    <2>1. ListType'
      BY <1>1, UnlinkType DEF FreeAllFrees
    <2>2. next[a] \in Nodes
      BY <1>5, ListedNodes
    <2>3. /\ this' \in [Threads -> Nodes \cup {Null}]
          /\ near' \in [Threads -> Nodes \cup {Null}]
          /\ UNCHANGED <<mutexMEM, pc, id, held>>
      BY <2>2 DEF TypeOK, FreeAllFrees
    <2> QED
      BY <2>1, <2>3 DEF TypeOK, ListType
  <1>7. LockExcludes' /\ LocalsOK'
    BY <1>3 DEF TypeOK, LockExcludes, LocalsOK, FreeAllFrees, Inside
  <1>8. ListOK'
    BY <1>1, <1>4, UnlinkList DEF FreeAllFrees
  <1>9. \A u \in Threads : Pending(u)' = Pending(u)
    BY DEF TypeOK, Pending, FreeAllFrees
  <1>10. \A u \in Threads : a \notin held[u] \cup Pending(u)
    <2>1. memory_id[a] = id[t]
      BY DEF FreeAllFrees
    <2>2. \A u \in Threads \ {UI} : a \notin held[u] \cup Pending(u)
      BY <2>1, <1>2 DEF GroupsOK
    <2>3. Pending(t) = {}
      BY DEF Pending, FreeAllFrees
    <2> QED
      BY <2>1, <2>2, <2>3, <1>2
  <1>11. HeldIsLive'
    BY <1>4, <1>9, <1>10 DEF HeldIsLive, FreeAllFrees
  <1>12. SweepOK'
    <2>1. \A u \in Threads : pc'[u] = "sweep" => u = t
      BY <1>1 DEF TypeOK, FreeAllFrees, Inside
    <2>2. this'[t] = next[a] /\ id' = id
      BY DEF TypeOK, FreeAllFrees
    <2>3. next[a] \in Listed' \ {MMfirst}
      BY <1>4, <1>5 DEF Listed
    <2>4. ASSUME NEW b \in Linked', memory_id'[b] = id[t]
          PROVE  b = next[a] \/ <<next[a], b>> \in order'
      <3>1. b \in Linked \ {a} /\ memory_id[b] = id[t]
        BY <2>4, <1>4, <1>1, ListedNodes DEF TypeOK, FreeAllFrees, Unlink
      <3>2. <<a, b>> \in order
        BY <3>1 DEF SweepOK, FreeAllFrees
      <3>3. b = next[a] \/ <<next[a], b>> \in order
        BY <3>1, <3>2, <1>5 DEF Listed
      <3> QED
        BY <3>1, <3>3, <1>5 DEF FreeAllFrees, Unlink
    <2> QED
      BY <2>1, <2>2, <2>3, <2>4 DEF SweepOK
  <1>13. GroupsOK'
    <2>1. \A b \in Addrs \ {a} : memory_id'[b] = memory_id[b]
      BY <1>1 DEF TypeOK, FreeAllFrees, Unlink
    <2>2. \A u \in Threads : held[u] \cup Pending(u)' \subseteq Addrs \ {a}
      BY <1>9, <1>10, ListedNodes DEF HeldIsLive
    <2>3. UNCHANGED <<pc, id, held>>
      BY DEF FreeAllFrees
    <2> QED
      BY <2>1, <2>2, <2>3, <1>9 DEF GroupsOK
  <1> QED
    BY <1>6, <1>7, <1>8, <1>11, <1>12, <1>13

LEMMA RelinkList ==
  ASSUME TypeOK, ListOK, NEW a \in Linked, NEW b \in Addrs \ Linked, NEW m \in Ids,
         Relink(a, b, m), Linked' = (Linked \ {a}) \cup {b}
  PROVE  ListOK'
  <1>1. /\ Listed' = (Listed \ {a}) \cup {b}
        /\ a \in Listed \ {MMfirst, MMlast} /\ b \notin Listed /\ b \in Nodes /\ a # b
        /\ MMfirst \in Listed /\ MMlast \in Listed /\ Listed \subseteq Nodes
    BY ListedNodes DEF Listed, Nodes
  <1>2. order' = {<<Renamed(p[1], a, b), Renamed(p[2], a, b)>> : p \in order}
    BY DEF Relink
  <1>3. \A p \in order : p[1] \in Listed /\ p[2] \in Listed /\ p = <<p[1], p[2]>>
    BY DEF ListOK, Ordered, TypeOK
  <1>4. \A m1, n1 : <<m1, n1>> \in order =>
           m1 \in Listed /\ n1 \in Listed /\ <<Renamed(m1, a, b), Renamed(n1, a, b)>> \in order'
    BY <1>2, <1>3
  <1>5. \A p \in order' : p[1] \in (Listed \ {a}) \cup {b} /\ p[2] \in (Listed \ {a}) \cup {b}
    BY <1>1, <1>2, <1>3 DEF Renamed
  <1>6. \A x, y : <<x, y>> \in order' =>
           \E p \in order : x = Renamed(p[1], a, b) /\ y = Renamed(p[2], a, b)
    <2> SUFFICES ASSUME NEW x, NEW y, <<x, y>> \in order'
                 PROVE  \E p \in order : x = Renamed(p[1], a, b) /\ y = Renamed(p[2], a, b)
      OBVIOUS
    <2>1. PICK p \in order : <<x, y>> = <<Renamed(p[1], a, b), Renamed(p[2], a, b)>>
      BY <1>2
    <2> QED
      BY <2>1
  <1>7. <<a, a>> \notin order
    BY <1>1 DEF ListOK, Ordered
  <1>8. \A x, y \in Listed \ {a} : <<x, y>> \in order' <=> <<x, y>> \in order
    <2>1. ASSUME NEW x \in Listed \ {a}, NEW y \in Listed \ {a}, <<x, y>> \in order'
          PROVE  <<x, y>> \in order
      <3>1. PICK p \in order : x = Renamed(p[1], a, b) /\ y = Renamed(p[2], a, b)
        BY <2>1, <1>6
      <3>2. x = p[1] /\ y = p[2]
        BY <3>1, <2>1, <1>1 DEF Renamed
      <3> QED
        BY <3>1, <3>2, <1>3
    <2>2. ASSUME NEW x \in Listed \ {a}, NEW y \in Listed \ {a}, <<x, y>> \in order
          PROVE  <<x, y>> \in order'
      <3>1. Renamed(x, a, b) = x /\ Renamed(y, a, b) = y
        BY DEF Renamed
      <3> QED
        BY <2>2, <3>1, <1>4
    <2> QED
      BY <2>1, <2>2
  <1>9. \A n \in Listed \ {a} : <<b, n>> \in order' <=> <<a, n>> \in order
    <2>1. ASSUME NEW y \in Listed \ {a}, <<b, y>> \in order'
          PROVE  <<a, y>> \in order
      <3>1. PICK p \in order : b = Renamed(p[1], a, b) /\ y = Renamed(p[2], a, b)
        BY <2>1, <1>6
      <3>2. a = p[1] /\ y = p[2]
        BY <3>1, <2>1, <1>1, <1>3 DEF Renamed
      <3> QED
        BY <3>1, <3>2, <1>3
    <2>2. ASSUME NEW y \in Listed \ {a}, <<a, y>> \in order
          PROVE  <<b, y>> \in order'
      <3>1. Renamed(a, a, b) = b /\ Renamed(y, a, b) = y
        BY DEF Renamed
      <3> QED
        BY <2>2, <3>1, <1>4
    <2> QED
      BY <2>1, <2>2
  <1>10. \A n \in Listed \ {a} : <<n, b>> \in order' <=> <<n, a>> \in order
    <2>1. ASSUME NEW y \in Listed \ {a}, <<y, b>> \in order'
          PROVE  <<y, a>> \in order
      <3>1. PICK p \in order : y = Renamed(p[1], a, b) /\ b = Renamed(p[2], a, b)
        BY <2>1, <1>6
      <3>2. y = p[1] /\ a = p[2]
        BY <3>1, <2>1, <1>1, <1>3 DEF Renamed
      <3> QED
        BY <3>1, <3>2, <1>3
    <2>2. ASSUME NEW y \in Listed \ {a}, <<y, a>> \in order
          PROVE  <<y, b>> \in order'
      <3>1. Renamed(a, a, b) = b /\ Renamed(y, a, b) = y
        BY DEF Renamed
      <3> QED
        BY <2>2, <3>1, <1>4
    <2> QED
      BY <2>1, <2>2
  <1>11. <<b, b>> \notin order'
    <2> SUFFICES ASSUME <<b, b>> \in order' PROVE FALSE
      OBVIOUS
    <2>1. PICK p \in order : b = Renamed(p[1], a, b) /\ b = Renamed(p[2], a, b)
      BY <1>6
    <2>2. p[1] = a /\ p[2] = a
      BY <2>1, <1>1, <1>3 DEF Renamed
    <2> QED
      BY <2>1, <2>2, <1>3, <1>7
  <1>12. prev[a] \in Listed \ {a} /\ next[a] \in Listed \ {a}
    BY <1>1 DEF ListOK, Ordered, Chained
  <1>13. /\ next'[prev[a]] = b /\ next'[b] = next[a]
         /\ \A n \in Listed \ {a, prev[a]} : next'[n] = next[n]
    BY <1>1, <1>12 DEF Relink, TypeOK
  <1>14. /\ prev'[next[a]] = b /\ prev'[b] = prev[a]
         /\ \A n \in Listed \ {a, next[a]} : prev'[n] = prev[n]
    BY <1>1, <1>12 DEF Relink, TypeOK
  <1>15. Ordered((Listed \ {a}) \cup {b}, order')
    BY <1>1, <1>5, <1>8, <1>9, <1>10, <1>11, RenameOrdered DEF ListOK
  <1>16. Chained((Listed \ {a}) \cup {b}, next', prev', order')
    BY <1>1, <1>8, <1>9, <1>10, <1>11, <1>13, <1>14, RenameChained DEF ListOK
  <1> QED
    BY <1>1, <1>15, <1>16 DEF ListOK

LEMMA ResizeMovesKeeps ==
  ASSUME IInv, NEW t \in Threads, NEW b \in Addrs, ResizeMoves(t, b)
  PROVE  IInv'
  <1> USE DEF IInv
  <1> DEFINE a == this[t]
  <1>1. /\ a \in Linked /\ a \in Addrs /\ a \in Nodes
        /\ Linked = used /\ \A u \in Threads \ {t} : pc[u] \notin Inside
    BY AloneAndListed, ListedNodes DEF HeldIsLive, Pending, ResizeMoves, Inside, Nodes
  <1>2. b \notin Linked /\ id[t] \in Ids
    BY <1>1 DEF ResizeMoves, TypeOK
  <1>3. \A u \in Threads : pc'[u] # "link"
    BY <1>1 DEF TypeOK, ResizeMoves, Inside
  <1>4. Linked' = (Linked \ {a}) \cup {b}
    BY <1>1, <1>3 DEF Linked, Linking, ResizeMoves, Relink
  <1>5. TypeOK'
    <2>1. ListType'
      BY <1>1, <1>2, RelinkType DEF ResizeMoves
    <2>2. /\ pc' \in [Threads -> {"idle"} \cup Waiting \cup Inside]
          /\ held' \in [Threads -> SUBSET Addrs]
          /\ UNCHANGED <<mutexMEM, this, near, id>>
      BY DEF TypeOK, ResizeMoves, Inside
    <2> QED
      BY <2>1, <2>2 DEF TypeOK, ListType
  <1>6. LockExcludes' /\ LocalsOK'
    BY <1>3 DEF TypeOK, LockExcludes, LocalsOK, ResizeMoves, Inside
  <1>7. ListOK'
    BY <1>1, <1>2, <1>4, RelinkList DEF ResizeMoves
  <1>8. /\ \A u \in Threads \ {t} : Pending(u)' = Pending(u) /\ held'[u] = held[u]
        /\ Pending(t)' = {} /\ Pending(t) = {a} /\ held'[t] = held[t] \cup {b}
    BY DEF TypeOK, Pending, ResizeMoves
  <1>9. \A u \in Threads : a \notin held[u] /\ b \notin held[u] \cup Pending(u)
    BY <1>2, <1>8 DEF HeldIsLive
  <1>10. \A u \in Threads \ {t} : a \notin Pending(u)
    BY <1>8 DEF HeldIsLive
  <1>11. HeldIsLive'
    <2>1. \A u \in Threads : held'[u] \cup Pending(u)' \subseteq Linked'
      BY <1>4, <1>8, <1>9, <1>10 DEF HeldIsLive
    <2>2. \A u \in Threads : held'[u] \cap Pending(u)' = {}
      BY <1>8 DEF HeldIsLive
    <2>3. \A u, v \in Threads : u # v =>
             (held'[u] \cup Pending(u)') \cap (held'[v] \cup Pending(v)') = {}
      BY <1>8, <1>9 DEF HeldIsLive
    <2> QED
      BY <2>1, <2>2, <2>3 DEF HeldIsLive
  <1>12. SweepOK'
    <2>1. \A u \in Threads : pc'[u] # "sweep"
      BY <1>1 DEF TypeOK, ResizeMoves, Inside
    <2> QED
      BY <2>1 DEF SweepOK
  <1>13. GroupsOK'
    <2>1. /\ \A c \in Addrs \ {a, b} : memory_id'[c] = memory_id[c]
          /\ a # b /\ memory_id'[b] = id[t]
      BY <1>1, <1>2 DEF TypeOK, ResizeMoves, Relink
    <2>2. \A u \in Threads : held[u] \cup Pending(u)' \subseteq Addrs \ {a, b}
      BY <1>1, <1>8, <1>9, <1>10, ListedNodes DEF HeldIsLive
    <2>3. /\ \A u \in Threads \ {t} : pc'[u] = pc[u]
          /\ pc'[t] = "unlock" /\ id' = id
      BY DEF TypeOK, ResizeMoves
    <2> QED
      BY <2>1, <2>2, <2>3, <1>8 DEF GroupsOK
  <1> QED
    BY <1>5, <1>6, <1>7, <1>11, <1>12, <1>13

-----------------------------------------------------------------------------
(* The theorems.                                                           *)

\* The invariants of Dmalloc hold for any threads, addresses and memory ids.
THEOREM Invariance == Spec => []IInv
  <1>1. IInv /\ [Next]_vars => IInv'
    <2> SUFFICES ASSUME IInv, [Next]_vars
                 PROVE  IInv'
      OBVIOUS
    <2>1. CASE UNCHANGED vars
      <3>1. /\ Linked' = Linked /\ Listed' = Listed
            /\ \A t \in Threads : Pending(t)' = Pending(t)
        BY <2>1 DEF vars, Linked, Linking, Listed, Pending
      <3>2. TypeOK' /\ LockExcludes' /\ LocalsOK'
        BY <2>1 DEF vars, IInv, TypeOK, LockExcludes, LocalsOK
      <3>3. ListOK'
        BY <2>1, <3>1, QuietList DEF vars, IInv
      <3>4. HeldIsLive' /\ SweepOK' /\ GroupsOK'
        BY <2>1, <3>1 DEF vars, IInv, HeldIsLive, SweepOK, GroupsOK
      <3> QED
        BY <3>2, <3>3, <3>4 DEF IInv
    <2>2. ASSUME NEW t \in Threads, NEW m \in Ids, CallNew(t, m) PROVE IInv'
      BY <2>2, CallNewKeeps
    <2>3. ASSUME NEW t \in Threads, NEW a \in Addrs, CallFree(t, a) \/ CallResize(t, a) PROVE IInv'
      BY <2>3, CallFreeKeeps, CallResizeKeeps
    <2>4. ASSUME NEW m \in Ids \ {0}, CallFreeAll(m) PROVE IInv'
      BY <2>4, CallFreeAllKeeps
    <2>5. ASSUME NEW t \in Threads, NEW u \in Threads, NEW a \in Addrs, HandOver(t, u, a) PROVE IInv'
      BY <2>5, HandOverKeeps
    <2>6. ASSUME NEW t \in Threads, LockMem(t) PROVE IInv'
      BY <2>6, LockMemKeeps
    <2>7. ASSUME NEW t \in Threads, InsideStep(t) PROVE IInv'
      <3>1. ASSUME NEW a \in Addrs, NewMalloc(t, a) PROVE IInv'
        BY <3>1, NewMallocKeeps
      <3>2. ASSUME NEW b \in Addrs, ResizeMoves(t, b) PROVE IInv'
        BY <3>2, ResizeMovesKeeps
      <3>3. CASE NewFails(t) \/ ResizeStays(t) \/ UnlockMem(t)
        BY <3>3, NewFailsKeeps, ResizeStaysKeeps, UnlockMemKeeps
      <3>4. CASE NewLink(t) \/ FreeUnlink(t)
        BY <3>4, NewLinkKeeps, FreeUnlinkKeeps
      <3>5. CASE FreeAllStart(t) \/ FreeAllFrees(t) \/ FreeAllKeeps(t) \/ FreeAllEnds(t)
        BY <3>5, FreeAllStartKeeps, FreeAllFreesKeeps, FreeAllKeepsKeeps, FreeAllEndsKeeps
      <3> QED
        BY <2>7, <3>1, <3>2, <3>3, <3>4, <3>5 DEF InsideStep
    <2> QED
      BY <2>1, <2>2, <2>3, <2>4, <2>5, <2>6, <2>7 DEF Next
  <1> QED
    BY InitIInv, <1>1, PTL DEF Spec

\* Every block in use is in the list, read either way, and nothing else is.
THEOREM ListAlwaysOK == Spec => []ListOK
  <1>1. IInv => ListOK
    BY DEF IInv
  <1> QED
    BY <1>1, Invariance, PTL

\* The variables keep their types.
THEOREM TypeAlwaysOK == Spec => []TypeOK
  <1>1. IInv => TypeOK
    BY DEF IInv
  <1> QED
    BY <1>1, Invariance, PTL

\* LOCK_MEM admits one thread at a time.
THEOREM LockAlwaysExcludes == Spec => []LockExcludes
  <1>1. IInv => LockExcludes
    BY DEF IInv
  <1> QED
    BY <1>1, Invariance, PTL

\* No pointer in a thread's hands or on its way to a free or a resize ever
\* dangles, FreeAllMemory and moving blocks included.
THEOREM PointersAlwaysLive == Spec => []HeldIsLive
  <1>1. IInv => HeldIsLive
    BY DEF IInv
  <1> QED
    BY <1>1, Invariance, PTL

\* FreeAllMemory never leaves a block of its group behind.
THEOREM SweepMissesNone == Spec => []SweepOK
  <1>1. IInv => SweepOK
    BY DEF IInv
  <1> QED
    BY <1>1, Invariance, PTL

-----------------------------------------------------------------------------
(* Dmalloc implements Heap.                                                *)

\* A block is live unless FreeAllMemory has begun to free its group.
Swept(a) == \E t \in Threads : pc[t] = "sweep" /\ memory_id[a] = id[t]

LEMMA LiveBlocksIs ==
  ASSUME NEW a \in Addrs
  PROVE  LiveBlocks[a] = IF a \in Linked /\ ~Swept(a) THEN memory_id[a] ELSE Absent
  BY DEF LiveBlocks, Swept

\* LiveBlocks is a function, which its values determine.
LEMMA LiveBlocksFunction ==
  /\ LiveBlocks = [a \in Addrs |-> LiveBlocks[a]]
  /\ LiveBlocks' = [a \in Addrs |-> LiveBlocks'[a]]
  BY DEF LiveBlocks

\* Nothing changes for the callers when the blocks, their ids and the
\* sweeping group stay.
LEMMA SameBlocks ==
  ASSUME Linked' = Linked, memory_id' = memory_id,
         \A a \in Addrs : Swept(a)' <=> Swept(a)
  PROVE  UNCHANGED LiveBlocks
  BY DEF LiveBlocks, Swept

\* A step that leaves the blocks, and the sweeping threads and their groups.
LEMMA QuietBlocks ==
  ASSUME Linked' = Linked, memory_id' = memory_id,
         \A u \in Threads : /\ pc'[u] = "sweep" <=> pc[u] = "sweep"
                            /\ pc[u] = "sweep" => id'[u] = id[u]
  PROVE  UNCHANGED LiveBlocks
  <1>1. \A a \in Addrs : Swept(a)' <=> Swept(a)
    BY DEF Swept
  <1> QED
    BY <1>1, SameBlocks

LEMMA HeapInitial == Init => H!HeapInit
  BY DEF Init, H!HeapInit, LiveBlocks, Linked, Linking

LEMMA CallsAreQuiet ==
  ASSUME IInv, NEW t \in Threads, NEW m \in Ids, NEW a \in Addrs, NEW u \in Threads,
         CallNew(t, m) \/ CallFree(t, a) \/ CallResize(t, a) \/ HandOver(t, u, a)
         \/ LockMem(t) \/ UnlockMem(t)
  PROVE  UNCHANGED LiveBlocks
  <1>1. /\ used' = used /\ memory_id' = memory_id
        /\ pc[t] # "link" /\ pc'[t] # "link"
        /\ pc[t] # "sweep" /\ pc'[t] # "sweep"
        /\ \A v \in Threads \ {t} : pc'[v] = pc[v] /\ this'[v] = this[v] /\ id'[v] = id[v]
    BY DEF IInv, TypeOK, CallNew, CallFree, CallResize, HandOver, LockMem, UnlockMem,
           listVars, callVars, Waiting, EnterAt
  <1>2. Linked' = Linked
    BY <1>1, QuietLinked
  <1> QED
    BY <1>1, <1>2, QuietBlocks

LEMMA WorkIsQuiet ==
  ASSUME IInv, NEW t \in Threads, NewFails(t) \/ ResizeStays(t) \/ FreeAllKeeps(t)
  PROVE  UNCHANGED LiveBlocks
  <1>1. /\ used' = used /\ memory_id' = memory_id /\ id' = id
        /\ pc[t] # "link" /\ pc'[t] # "link"
        /\ pc[t] = "sweep" <=> pc'[t] = "sweep"
        /\ \A v \in Threads \ {t} : pc'[v] = pc[v] /\ this'[v] = this[v]
    BY DEF IInv, TypeOK, NewFails, ResizeStays, FreeAllKeeps, listVars
  <1>2. Linked' = Linked
    BY <1>1, QuietLinked
  <1> QED
    BY <1>1, <1>2, QuietBlocks

LEMMA FreeAllCallIsQuiet ==
  ASSUME IInv, NEW m \in Ids \ {0}, CallFreeAll(m)
  PROVE  UNCHANGED LiveBlocks
  <1>1. /\ used' = used /\ memory_id' = memory_id
        /\ pc[UI] = "idle" /\ pc'[UI] = "freeall"
        /\ \A v \in Threads \ {UI} : pc'[v] = pc[v] /\ this'[v] = this[v] /\ id'[v] = id[v]
    BY DEF IInv, TypeOK, CallFreeAll, listVars
  <1>2. Linked' = Linked
    BY <1>1, QuietLinked
  <1> QED
    BY <1>1, <1>2, QuietBlocks

LEMMA MallocIsQuiet ==
  ASSUME IInv, NEW t \in Threads, NEW a \in Addrs, NewMalloc(t, a)
  PROVE  UNCHANGED LiveBlocks
  <1>1. /\ memory_id' = memory_id /\ id' = id
        /\ \A v \in Threads : pc'[v] = "sweep" <=> pc[v] = "sweep"
    BY DEF IInv, TypeOK, NewMalloc
  <1> QED
    BY <1>1, NewMallocLinked, QuietBlocks

\* While a thread allocates, frees or resizes nobody sweeps.
LEMMA NobodySweeps ==
  ASSUME IInv, NEW t \in Threads, pc[t] \in Inside \ {"sweep"}
  PROVE  \A a \in Addrs : ~Swept(a)
  BY DEF IInv, LockExcludes, Swept, Inside

LEMMA LinkIsAlloc ==
  ASSUME IInv, NEW t \in Threads, NewLink(t)
  PROVE  H!Alloc(this[t], id[t])
  <1> DEFINE a == this[t]
  <1>1. a \in Addrs /\ a \notin Linked /\ Linked' = Linked \cup {a}
    BY NewLinkEntry
  <1>2. \A c \in Addrs : ~Swept(c)
    BY NobodySweeps DEF NewLink, Inside
  <1>3. \A c \in Addrs : ~Swept(c)'
    BY DEF IInv, TypeOK, LockExcludes, Inside, NewLink, Swept
  <1>4. /\ memory_id'[a] = id[t]
        /\ \A c \in Addrs \ {a} : memory_id'[c] = memory_id[c]
    BY <1>1 DEF IInv, TypeOK, NewLink
  <1>5. LiveBlocks[a] = Absent
    BY <1>1, LiveBlocksIs
  <1>6. \A c \in Addrs : LiveBlocks'[c] = IF c = a THEN id[t] ELSE LiveBlocks[c]
    <2>1. \A c \in Addrs : LiveBlocks[c] = IF c \in Linked THEN memory_id[c] ELSE Absent
      BY <1>2, LiveBlocksIs
    <2>2. \A c \in Addrs : LiveBlocks'[c] = IF c \in Linked' THEN memory_id'[c] ELSE Absent
      BY <1>3 DEF LiveBlocks, Swept
    <2> QED
      BY <2>1, <2>2, <1>1, <1>4
  <1>7. LiveBlocks' = [LiveBlocks EXCEPT ![a] = id[t]]
    BY <1>1, <1>6, LiveBlocksFunction
  <1> QED
    BY <1>5, <1>7 DEF H!Alloc

LEMMA UnlinkIsFree ==
  ASSUME IInv, NEW t \in Threads, FreeUnlink(t)
  PROVE  H!Free(this[t]) /\ this[t] \in Addrs
  <1> DEFINE a == this[t]
  <1>1. a \in Linked /\ a \in Addrs /\ Linked = used
    BY AloneAndListed, ListedNodes DEF IInv, HeldIsLive, Pending, FreeUnlink, Inside
  <1>2. /\ \A u \in Threads : pc'[u] # "link"
        /\ \A c \in Addrs : ~Swept(c)'
    BY DEF IInv, TypeOK, LockExcludes, Inside, FreeUnlink, Swept
  <1>3. Linked' = Linked \ {a}
    BY <1>1, <1>2 DEF Linked, Linking, FreeUnlink, Unlink
  <1>4. \A c \in Addrs \ {a} : memory_id'[c] = memory_id[c]
    BY <1>1 DEF IInv, TypeOK, FreeUnlink, Unlink
  <1>5. \A c \in Addrs : LiveBlocks[c] = IF c \in Linked THEN memory_id[c] ELSE Absent
    BY NobodySweeps, LiveBlocksIs DEF FreeUnlink, Inside
  <1>6. \A c \in Addrs : LiveBlocks'[c] = IF c \in Linked' THEN memory_id'[c] ELSE Absent
    BY <1>2 DEF LiveBlocks, Swept
  <1>7. LiveBlocks[a] # Absent
    BY <1>1, <1>5 DEF IInv, TypeOK
  <1>8. \A c \in Addrs : LiveBlocks'[c] = IF c = a THEN Absent ELSE LiveBlocks[c]
    BY <1>3, <1>4, <1>5, <1>6
  <1>9. LiveBlocks' = [LiveBlocks EXCEPT ![a] = Absent]
    <2>1. LiveBlocks' = [c \in Addrs |-> IF c = a THEN Absent ELSE LiveBlocks[c]]
      BY <1>8 DEF LiveBlocks
    <2> QED
      BY <2>1, <1>1 DEF LiveBlocks
  <1> QED
    BY <1>1, <1>7, <1>9 DEF H!Free

LEMMA RelinkIsMove ==
  ASSUME IInv, NEW t \in Threads, NEW b \in Addrs, ResizeMoves(t, b)
  PROVE  H!Move(this[t], b, id[t]) /\ this[t] \in Addrs
  <1> DEFINE a == this[t]
  <1>1. a \in Linked /\ a \in Addrs /\ Linked = used /\ b \notin Linked /\ a # b
    BY AloneAndListed, ListedNodes DEF IInv, HeldIsLive, Pending, ResizeMoves, Inside
  <1>2. /\ \A u \in Threads : pc'[u] # "link"
        /\ \A c \in Addrs : ~Swept(c)'
    BY DEF IInv, TypeOK, LockExcludes, Inside, ResizeMoves, Swept
  <1>3. Linked' = (Linked \ {a}) \cup {b}
    BY <1>1, <1>2 DEF Linked, Linking, ResizeMoves, Relink
  <1>4. /\ memory_id'[b] = id[t]
        /\ \A c \in Addrs \ {a, b} : memory_id'[c] = memory_id[c]
    BY <1>1 DEF IInv, TypeOK, ResizeMoves, Relink
  <1>5. \A c \in Addrs : LiveBlocks[c] = IF c \in Linked THEN memory_id[c] ELSE Absent
    BY NobodySweeps, LiveBlocksIs DEF ResizeMoves, Inside
  <1>6. \A c \in Addrs : LiveBlocks'[c] = IF c \in Linked' THEN memory_id'[c] ELSE Absent
    BY <1>2 DEF LiveBlocks, Swept
  <1>7. LiveBlocks[a] # Absent /\ LiveBlocks[b] = Absent
    BY <1>1, <1>5 DEF IInv, TypeOK
  <1>8. \A c \in Addrs : LiveBlocks'[c] =
           IF c = b THEN id[t] ELSE IF c = a THEN Absent ELSE LiveBlocks[c]
    BY <1>1, <1>3, <1>4, <1>5, <1>6
  <1>9. LiveBlocks' = [LiveBlocks EXCEPT ![a] = Absent, ![b] = id[t]]
    BY <1>1, <1>8, LiveBlocksFunction
  <1> QED
    BY <1>1, <1>7, <1>9 DEF H!Move

LEMMA StartIsFreeGroup ==
  ASSUME IInv, NEW t \in Threads, FreeAllStart(t)
  PROVE  id[t] \in Ids \ {0} /\ H!FreeGroup(id[t])
  <1>1. id[t] \in Ids \ {0}
    BY DEF IInv, GroupsOK, TypeOK, FreeAllStart
  <1>2. /\ used' = used /\ memory_id' = memory_id /\ id' = id
        /\ pc[t] = "start" /\ pc'[t] = "sweep"
        /\ \A u \in Threads \ {t} : pc'[u] = pc[u] /\ this'[u] = this[u]
    BY DEF IInv, TypeOK, FreeAllStart, listVars
  <1>3. Linked' = Linked
    BY <1>2, QuietLinked
  <1>4. \A c \in Addrs : ~Swept(c)
    BY NobodySweeps DEF FreeAllStart, Inside
  <1>5. \A u \in Threads : pc'[u] = "sweep" <=> u = t
    BY <1>2 DEF IInv, LockExcludes, Inside
  <1>6. \A c \in Addrs : Swept(c)' <=> memory_id[c] = id[t]
    BY <1>2, <1>5 DEF Swept
  <1>7. \A c \in Addrs : LiveBlocks[c] = IF c \in Linked THEN memory_id[c] ELSE Absent
    BY <1>4, LiveBlocksIs
  <1>8. \A c \in Addrs : LiveBlocks'[c] =
           IF c \in Linked /\ memory_id[c] # id[t] THEN memory_id[c] ELSE Absent
    BY <1>2, <1>3, <1>6 DEF LiveBlocks, Swept
  <1>9. id[t] # Absent
    BY <1>1
  <1>10. \A c \in Addrs : LiveBlocks'[c] = IF LiveBlocks[c] = id[t] THEN Absent ELSE LiveBlocks[c]
    BY <1>7, <1>8, <1>9
  <1>11. LiveBlocks' = [c \in Addrs |-> IF LiveBlocks[c] = id[t] THEN Absent ELSE LiveBlocks[c]]
    BY <1>10 DEF LiveBlocks
  <1> QED
    BY <1>1, <1>11 DEF H!FreeGroup

\* The block the sweep frees was not live any more.
LEMMA SweepFreesIsQuiet ==
  ASSUME IInv, NEW t \in Threads, FreeAllFrees(t)
  PROVE  UNCHANGED LiveBlocks
  <1> DEFINE a == this[t]
  <1>1. a \in Linked /\ a \in Addrs /\ Linked = used
    BY AloneAndListed, ListedNodes DEF IInv, SweepOK, Listed, FreeAllFrees, Inside
  <1>2. /\ \A u \in Threads : pc'[u] # "link"
        /\ pc' = pc /\ id' = id
    BY DEF IInv, TypeOK, LockExcludes, Inside, FreeAllFrees
  <1>3. Linked' = Linked \ {a}
    BY <1>1, <1>2 DEF Linked, Linking, FreeAllFrees, Unlink
  <1>4. \A c \in Addrs \ {a} : memory_id'[c] = memory_id[c]
    BY <1>1 DEF IInv, TypeOK, FreeAllFrees, Unlink
  <1>5. Swept(a)
    BY DEF Swept, FreeAllFrees
  <1>6. \A c \in Addrs \ {a} : Swept(c)' <=> Swept(c)
    BY <1>2, <1>4 DEF Swept
  <1>7. \A c \in Addrs : LiveBlocks[c] = IF c \in Linked /\ ~Swept(c) THEN memory_id[c] ELSE Absent
    BY LiveBlocksIs
  <1>8. \A c \in Addrs :
           LiveBlocks'[c] = IF c \in Linked' /\ ~Swept(c)' THEN memory_id'[c] ELSE Absent
    BY DEF LiveBlocks, Swept
  <1>9. \A c \in Addrs : LiveBlocks'[c] = LiveBlocks[c]
    BY <1>3, <1>4, <1>5, <1>6, <1>7, <1>8
  <1> QED
    BY <1>9 DEF LiveBlocks

\* At MMlast no block of the group is left: ending the sweep shows nothing.
LEMMA SweepEndIsQuiet ==
  ASSUME IInv, NEW t \in Threads, FreeAllEnds(t)
  PROVE  UNCHANGED LiveBlocks
  <1>1. \A c \in Linked : memory_id[c] # id[t]
    <2>1. \A c \in Linked : c # MMlast /\ c \in Listed /\ MMlast \in Listed
      BY ListedNodes DEF IInv, Listed
    <2>2. \A c \in Linked : <<MMlast, c>> \notin order
      BY <2>1 DEF IInv, ListOK, Ordered
    <2> QED
      BY <2>1, <2>2 DEF IInv, SweepOK, FreeAllEnds
  <1>2. /\ used' = used /\ memory_id' = memory_id /\ id' = id
        /\ pc[t] = "sweep" /\ pc'[t] = "unlock"
        /\ \A u \in Threads \ {t} : pc'[u] = pc[u] /\ this'[u] = this[u]
    BY DEF IInv, TypeOK, FreeAllEnds, listVars
  <1>3. Linked' = Linked
    BY <1>2, QuietLinked
  <1>4. \A u \in Threads \ {t} : pc[u] # "sweep"
    BY <1>2 DEF IInv, LockExcludes, Inside
  <1>5. \A c \in Linked : ~Swept(c) /\ ~Swept(c)'
    BY <1>1, <1>2, <1>4 DEF Swept
  <1>6. \A c \in Addrs : LiveBlocks'[c] = LiveBlocks[c]
    BY <1>2, <1>3, <1>5 DEF LiveBlocks, Swept
  <1> QED
    BY <1>6 DEF LiveBlocks

\* Seen by its callers the allocator is a heap: whatever the threads do at
\* the same time, every call has the effect of one step of Heap.
THEOREM ImplementsHeap == Spec => HeapSpec
  <1>1. IInv /\ [Next]_vars => [H!HeapNext]_LiveBlocks
    <2> SUFFICES ASSUME IInv, [Next]_vars
                 PROVE  H!HeapNext \/ UNCHANGED LiveBlocks
      OBVIOUS
    <2>1. CASE UNCHANGED vars
      BY <2>1 DEF vars, LiveBlocks, Linked, Linking
    <2>2. ASSUME NEW t \in Threads, NEW m \in Ids, CallNew(t, m) PROVE UNCHANGED LiveBlocks
      <3>1. CASE Addrs = {}
        BY <3>1 DEF LiveBlocks
      <3> QED
        BY <2>2, <3>1, CallsAreQuiet
    <2>3. ASSUME NEW t \in Threads, NEW a \in Addrs, CallFree(t, a) \/ CallResize(t, a)
          PROVE UNCHANGED LiveBlocks
      BY <2>3, CallsAreQuiet
    <2>4. ASSUME NEW m \in Ids \ {0}, CallFreeAll(m) PROVE UNCHANGED LiveBlocks
      BY <2>4, FreeAllCallIsQuiet
    <2>5. ASSUME NEW t \in Threads, NEW u \in Threads, NEW a \in Addrs, HandOver(t, u, a)
          PROVE UNCHANGED LiveBlocks
      BY <2>5, CallsAreQuiet
    <2>6. ASSUME NEW t \in Threads, LockMem(t) \/ UnlockMem(t) PROVE UNCHANGED LiveBlocks
      <3>1. CASE Addrs = {}
        BY <3>1 DEF LiveBlocks
      <3> QED
        BY <2>6, <3>1, CallsAreQuiet
    <2>7. ASSUME NEW t \in Threads, InsideStep(t) PROVE H!HeapNext \/ UNCHANGED LiveBlocks
      <3>1. ASSUME NEW a \in Addrs, NewMalloc(t, a) PROVE UNCHANGED LiveBlocks
        BY <3>1, MallocIsQuiet
      <3>2. CASE NewFails(t) \/ ResizeStays(t) \/ FreeAllKeeps(t)
        BY <3>2, WorkIsQuiet
      <3>3. CASE NewLink(t)
        <4>1. this[t] \in Addrs /\ id[t] \in Ids
          BY <3>3, NewLinkEntry DEF IInv, TypeOK
        <4> QED
          BY <3>3, <4>1, LinkIsAlloc DEF H!HeapNext
      <3>4. CASE FreeUnlink(t)
        BY <3>4, UnlinkIsFree DEF H!HeapNext
      <3>5. ASSUME NEW b \in Addrs, ResizeMoves(t, b) PROVE H!HeapNext
        BY <3>5, RelinkIsMove DEF H!HeapNext, IInv, TypeOK
      <3>6. CASE FreeAllStart(t)
        BY <3>6, StartIsFreeGroup DEF H!HeapNext
      <3>7. CASE FreeAllFrees(t) \/ FreeAllEnds(t)
        BY <3>7, SweepFreesIsQuiet, SweepEndIsQuiet
      <3>8. CASE UnlockMem(t)
        BY <3>8, <2>6
      <3> QED
        BY <2>7, <3>1, <3>2, <3>3, <3>4, <3>5, <3>6, <3>7, <3>8 DEF InsideStep
    <2> QED
      BY <2>1, <2>2, <2>3, <2>4, <2>5, <2>6, <2>7 DEF Next
  <1> QED
    BY <1>1, HeapInitial, Invariance, PTL DEF Spec, HeapSpec, H!HeapSpec
=============================================================================
