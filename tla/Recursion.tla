------------------------------ MODULE Recursion ------------------------------
(***************************************************************************)
(* Facts about recursive functions for the proofs of the other modules.    *)
(* They are stated with sets and functions instead of operators, so that   *)
(* the provers can use them: a predicate is the set of the values it holds *)
(* for, and the body of a recursive definition is a function on functions. *)
(***************************************************************************)
EXTENDS Integers, TLAPS, WellFoundedInduction

(* Every set of natural numbers that is not empty has a least element.       *)
LEMMA LeastNumber ==
  ASSUME NEW S \in SUBSET Nat, S # {}
  PROVE  \E x \in S : \A y \in S : x <= y
<1> DEFINE Less == {pair \in Nat \X Nat : pair[1] < pair[2]}
<1>1. IsWellFoundedOn(Less, Nat)
  BY NatLessThanWellFounded DEF OpToRel
<1> HIDE DEF Less
<1>2. PICK x \in S : \A y \in S : <<y, x>> \notin Less
  BY <1>1, WFMin
<1>3. ASSUME NEW y \in S PROVE x <= y
  <2>1. x \in Nat /\ y \in Nat
    OBVIOUS
  <2>2. ~(y < x)
    BY <1>2, <2>1 DEF Less
  <2> QED BY <2>1, <2>2
<1> QED BY <1>3

(* Induction from 0 to n.                                                    *)
LEMMA UpTo ==
  ASSUME NEW n \in Nat, NEW S, 0 \in S,
         \A k \in 1..n : k - 1 \in S => k \in S
  PROVE  0..n \subseteq S
<1> DEFINE Bad == (0..n) \ S
<1>1. SUFFICES ASSUME Bad # {} PROVE FALSE
  OBVIOUS
<1>2. PICK k \in Bad : \A j \in Bad : k <= j
  <2>1. Bad \in SUBSET Nat
    OBVIOUS
  <2> QED BY <1>1, <2>1, LeastNumber
<1>3. k \in 1..n /\ k - 1 \in 0..n
  BY <1>2
<1>4. k - 1 \in S
  BY <1>2, <1>3
<1> QED BY <1>2, <1>3, <1>4

(* Induction over the ranks of the elements of I.                            *)
LEMMA ByRank ==
  ASSUME NEW I, NEW rank \in [I -> Nat], NEW S,
         \A c \in I : (\A i \in I : rank[i] < rank[c] => i \in S) => c \in S
  PROVE  I \subseteq S
<1> DEFINE Bad == {rank[c] : c \in I \ S}
<1>1. SUFFICES ASSUME I \ S # {} PROVE FALSE
  OBVIOUS
<1>2. PICK k \in Bad : \A j \in Bad : k <= j
  <2>1. Bad \in SUBSET Nat /\ Bad # {}
    BY <1>1
  <2> QED BY <2>1, LeastNumber
<1>3. PICK c \in I \ S : k = rank[c]
  BY <1>2
<1>4. \A i \in I : rank[i] < rank[c] => i \in S
  <2> SUFFICES ASSUME NEW i \in I, rank[i] < rank[c], i \notin S PROVE FALSE
    OBVIOUS
  <2>1. rank[i] \in Bad /\ rank[i] \in Nat /\ rank[c] \in Nat
    OBVIOUS
  <2>2. rank[c] <= rank[i]
    BY <2>1, <1>2, <1>3
  <2> HIDE DEF Bad
  <2> QED BY <2>1, <2>2
<1> QED BY <1>3, <1>4

(* The value for c only depends on the values of lower rank.                 *)
Recurses(I, V, rank, Body) ==
  /\ Body \in [[I -> V] -> [I -> V]]
  /\ \A g, h \in [I -> V], c \in I :
       (\A i \in I : rank[i] < rank[c] => g[i] = h[i]) => Body[g][c] = Body[h][c]

(* Then the recursive definition has a solution.                             *)
LEMMA FixedPoint ==
  ASSUME NEW I, NEW V, NEW v \in V, NEW N \in Nat, NEW rank \in [I -> 0..N],
         NEW Body, Recurses(I, V, rank, Body)
  PROVE  \E f \in [I -> V] : f = Body[f]
<1> USE DEF Recurses
<1> DEFINE Solves(g, n) == \A c \in I : rank[c] < n => g[c] = Body[g][c]
           S == {n \in Nat : \E g \in [I -> V] : Solves(g, n)}
<1>1. 0 \in S
  <2>1. [c \in I |-> v] \in [I -> V]
    OBVIOUS
  <2>2. \A c \in I : ~(rank[c] < 0)
    OBVIOUS
  <2> QED BY <2>1, <2>2
<1>2. \A n \in 1..(N + 1) : n - 1 \in S => n \in S
  <2> SUFFICES ASSUME NEW n \in 1..(N + 1), n - 1 \in S PROVE n \in S
    OBVIOUS
  <2>1. PICK g \in [I -> V] : Solves(g, n - 1)
    OBVIOUS
  <2>2. PICK h \in [I -> V] : h = Body[g]
    OBVIOUS
  <2>3. ASSUME NEW c \in I, rank[c] < n
        PROVE  h[c] = Body[h][c]
    <3>1. ASSUME NEW i \in I, rank[i] < rank[c]
          PROVE  g[i] = h[i]
      <4>1. rank[i] \in Nat /\ rank[c] \in Nat /\ rank[i] < n - 1
        BY <2>3, <3>1
      <4> QED BY <4>1, <2>1, <2>2
    <3>2. Body[g][c] = Body[h][c]
      BY <3>1
    <3> QED BY <3>2, <2>2
  <2> QED BY <2>3
<1>3. N + 1 \in S
  <2> HIDE DEF S
  <2>1. 0..(N + 1) \subseteq S
    BY <1>1, <1>2, UpTo
  <2> QED BY <2>1
<1>4. PICK f \in [I -> V] : Solves(f, N + 1)
  BY <1>3
<1>5. \A c \in I : f[c] = Body[f][c]
  <2>1. \A c \in I : rank[c] < N + 1
    OBVIOUS
  <2> QED BY <1>4, <2>1
<1>6. Body[f] \in [I -> V]
  OBVIOUS
<1> QED BY <1>5, <1>6

(* f starts from v and makes one step after the other.                       *)
Iterates(f, n, v, Step) == f[0] = v /\ \A k \in 1..n : f[k] = Step[k][f[k - 1]]

(* There is such an f.                                                       *)
LEMMA Iteration ==
  ASSUME NEW n \in Nat, NEW V, NEW v \in V, NEW Step \in [1..n -> [V -> V]]
  PROVE  \E f \in [0..n -> V] : Iterates(f, n, v, Step)
<1> DEFINE I == 0..n
           rank == [k \in I |-> k]
           Value(g, k) == IF k = 0 THEN v ELSE Step[k][g[k - 1]]
           Body == [g \in [I -> V] |-> [k \in I |-> Value(g, k)]]
<1>1. rank \in [I -> 0..n]
  OBVIOUS
<1>2. ASSUME NEW g \in [I -> V], NEW k \in I
      PROVE  Value(g, k) \in V
  <2>1. CASE k = 0
    BY <2>1
  <2>2. CASE k # 0
    <3>1. k \in 1..n /\ k - 1 \in I
      BY <2>2
    <3> QED BY <3>1, <2>2
  <2> QED BY <2>1, <2>2
<1>3. Body \in [[I -> V] -> [I -> V]]
  <2> HIDE DEF Value
  <2> QED BY <1>2
<1>4. ASSUME NEW g \in [I -> V], NEW h \in [I -> V], NEW k \in I,
             \A i \in I : rank[i] < rank[k] => g[i] = h[i]
      PROVE  Body[g][k] = Body[h][k]
  <2>1. CASE k = 0
    BY <2>1
  <2>2. CASE k # 0
    <3>1. k - 1 \in I /\ k - 1 < k
      BY <2>2
    <3>2. g[k - 1] = h[k - 1]
      BY <1>4, <3>1
    <3> QED BY <3>2
  <2> QED BY <2>1, <2>2
<1>5. \E f \in [I -> V] : f = Body[f]
  <2> HIDE DEF Body, rank, I
  <2>1. Recurses(I, V, rank, Body)
    BY <1>3, <1>4 DEF Recurses
  <2> QED BY <1>1, <2>1, FixedPoint
<1>6. PICK f \in [I -> V] : f = Body[f]
  BY <1>5
<1>7. \A k \in I : f[k] = Value(f, k)
  BY <1>6
<1> QED BY <1>7 DEF Iterates
=============================================================================
