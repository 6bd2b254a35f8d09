---------------------------- MODULE QueuesProofs ----------------------------
(***************************************************************************)
(* What deleting entries from a queue preserves.  The rank of a position   *)
(* is injective and bounded by the number of kept positions, so it is a    *)
(* bijection: every k names exactly one kept position (no induction).      *)
(* And what a loop computes, as a function of the rounds it has made.      *)
(***************************************************************************)
EXTENDS Queues, Integers, FiniteSetTheorems, WellFoundedInduction, TLAPS

(* A kept position's rank lies between 1 and the number of kept positions. *)
LEMMA RankInRange ==
  ASSUME NEW n \in Nat, NEW K \in SUBSET (1 .. n), NEW i \in K
  PROVE  Rank(K, i) \in 1 .. Cardinality(K)
<1> DEFINE L == {j \in K : j <= i}
<1>1. IsFiniteSet(1 .. n)
  BY FS_Interval
<1>2. IsFiniteSet(K) /\ Cardinality(K) \in Nat
  BY <1>1, FS_Subset, FS_CardinalityType
<1>3. L \in SUBSET K /\ i \in L
  OBVIOUS
<1>4. IsFiniteSet(L) /\ Cardinality(L) <= Cardinality(K)
  BY <1>2, <1>3, FS_Subset
<1>5. Cardinality(L) \in Nat /\ Cardinality(L) # 0
  BY <1>3, <1>4, FS_CardinalityType, FS_EmptySet
<1> QED
  BY <1>2, <1>4, <1>5 DEF Rank

(* The rank grows strictly with the position. *)
LEMMA RankMonotone ==
  ASSUME NEW n \in Nat, NEW K \in SUBSET (1 .. n), NEW i \in K, NEW j \in K,
         i < j
  PROVE  Rank(K, i) < Rank(K, j)
<1> DEFINE L == {x \in K : x <= i}
           M == {x \in K : x <= j}
<1>1. IsFiniteSet(M)
  <2>1. IsFiniteSet(1 .. n)
    BY FS_Interval
  <2>2. M \in SUBSET (1 .. n)
    OBVIOUS
  <2> QED
    BY <2>1, <2>2, FS_Subset
<1>2. L \in SUBSET M /\ j \in M /\ j \notin L
  <2>1. i \in Int /\ j \in Int /\ \A x \in K : x \in Int
    OBVIOUS
  <2>2. j <= j /\ ~(j <= i) /\ \A x \in K : x <= i => x <= j
    BY <2>1
  <2> QED
    BY <2>2
<1>3. Cardinality(L) <= Cardinality(M) /\ Cardinality(L) # Cardinality(M)
  BY <1>1, <1>2, FS_Subset
<1>4. Cardinality(L) \in Nat /\ Cardinality(M) \in Nat
  BY <1>1, <1>2, FS_Subset, FS_CardinalityType
<1> QED
  BY <1>3, <1>4 DEF Rank

(* Different kept positions have different ranks. *)
LEMMA RankInjective ==
  ASSUME NEW n \in Nat, NEW K \in SUBSET (1 .. n), NEW i \in K, NEW j \in K,
         Rank(K, i) = Rank(K, j)
  PROVE  i = j
<1>1. Rank(K, i) \in Int /\ i \in Int /\ j \in Int
  <2>1. Rank(K, i) \in 1 .. Cardinality(K)
    BY RankInRange
  <2> QED
    BY <2>1
<1>2. ~(i < j)
  <2>1. i < j => Rank(K, i) < Rank(K, j)
    BY RankMonotone
  <2> QED
    BY <1>1, <2>1
<1>3. ~(j < i)
  <2>1. j < i => Rank(K, j) < Rank(K, i)
    BY RankMonotone
  <2> QED
    BY <1>1, <2>1
<1> QED
  BY <1>1, <1>2, <1>3

(* Every k up to the number of kept positions is the rank of one of them. *)
LEMMA NthExists ==
  ASSUME NEW n \in Nat, NEW K \in SUBSET (1 .. n),
         NEW k \in 1 .. Cardinality(K)
  PROVE  Nth(K, k) \in K /\ Rank(K, Nth(K, k)) = k
<1> DEFINE m == Cardinality(K)
           f == [i \in K |-> Rank(K, i)]
<1>1. IsFiniteSet(1 .. n)
  BY FS_Interval
<1>2. IsFiniteSet(K) /\ m \in Nat
  BY <1>1, FS_Subset, FS_CardinalityType
<1>3. IsFiniteSet(1 .. m) /\ Cardinality(1 .. m) = m
  BY <1>2, FS_Interval
<1>4. f \in [K -> 1 .. m]
  BY RankInRange
<1>5. \A i, j \in K : f[i] = f[j] => i = j
  BY RankInjective
<1>6. f \in Injection(K, 1 .. m)
  BY <1>4, <1>5 DEF Injection, IsInjective
<1>7. f \in Surjection(K, 1 .. m)
  BY <1>2, <1>3, <1>6, FS_Injection
<1>8. \E i \in K : f[i] = k
  BY <1>7 DEF Surjection
<1>9. \E i \in K : Rank(K, i) = k
  BY <1>8
<1> QED
  BY <1>9 DEF Nth

(* The kept positions are taken in order. *)
LEMMA NthMonotone ==
  ASSUME NEW n \in Nat, NEW K \in SUBSET (1 .. n),
         NEW k \in 1 .. Cardinality(K), NEW l \in 1 .. Cardinality(K), k < l
  PROVE  Nth(K, k) < Nth(K, l)
<1> DEFINE i == Nth(K, k)
           j == Nth(K, l)
<1>1. i \in K /\ Rank(K, i) = k
  BY NthExists
<1>2. j \in K /\ Rank(K, j) = l
  BY NthExists
<1>3. i # j
  BY <1>1, <1>2
<1>4. ~(j < i)
  <2> SUFFICES ASSUME j < i PROVE FALSE
    OBVIOUS
  <2>1. l < k
    BY <1>1, <1>2, RankMonotone
  <2> QED
    BY <2>1
<1> HIDE DEF i, j
<1>5. i \in Int /\ j \in Int
  BY <1>1, <1>2
<1>6. i < j
  BY <1>3, <1>4, <1>5
<1> QED
  BY <1>6 DEF i, j

(* A queue with some positions dropped is a queue of the same values. *)
LEMMA KeptType ==
  ASSUME NEW S, NEW q \in Seq(S), NEW K \in SUBSET (DOMAIN q)
  PROVE  /\ Kept(q, K) \in Seq(S)
         /\ Len(Kept(q, K)) = Cardinality(K)
         /\ Cardinality(K) \in Nat
         /\ DOMAIN Kept(q, K) = 1 .. Cardinality(K)
<1>1. Len(q) \in Nat /\ DOMAIN q = 1 .. Len(q)
  OBVIOUS
<1>2. K \in SUBSET (1 .. Len(q))
  BY <1>1
<1>3. Cardinality(K) \in Nat
  <2>1. IsFiniteSet(1 .. Len(q))
    BY <1>1, FS_Interval
  <2> QED
    BY <1>2, <2>1, FS_Subset, FS_CardinalityType
<1>4. \A k \in 1 .. Cardinality(K) : q[Nth(K, k)] \in S
  <2> TAKE k \in 1 .. Cardinality(K)
  <2>1. Nth(K, k) \in K
    BY <1>1, <1>2, NthExists
  <2> QED
    BY <2>1
<1>5. Kept(q, K) \in [1 .. Cardinality(K) -> S]
  BY <1>4 DEF Kept
<1> QED
  BY <1>3, <1>5

(* The k-th entry left is the entry at the k-th kept position. *)
LEMMA KeptEntry ==
  ASSUME NEW S, NEW q \in Seq(S), NEW K \in SUBSET (DOMAIN q),
         NEW k \in DOMAIN Kept(q, K)
  PROVE  /\ Nth(K, k) \in K
         /\ Kept(q, K)[k] = q[Nth(K, k)]
<1>1. k \in 1 .. Cardinality(K) /\ Len(q) \in Nat /\ K \in SUBSET (1 .. Len(q))
  BY KeptType
<1> QED
  BY <1>1, NthExists DEF Kept

(* Two entries left are in the order they had before the deletion. *)
LEMMA KeptOrder ==
  ASSUME NEW S, NEW q \in Seq(S), NEW K \in SUBSET (DOMAIN q),
         NEW k \in DOMAIN Kept(q, K), NEW l \in DOMAIN Kept(q, K), k < l
  PROVE  Nth(K, k) < Nth(K, l)
<1>1. /\ k \in 1 .. Cardinality(K) /\ l \in 1 .. Cardinality(K)
      /\ Len(q) \in Nat /\ K \in SUBSET (1 .. Len(q))
  BY KeptType
<1> QED
  BY <1>1, NthMonotone

(* Nothing at a kept position is lost. *)
LEMMA KeptHeld ==
  ASSUME NEW S, NEW q \in Seq(S), NEW K \in SUBSET (DOMAIN q)
  PROVE  Held(Kept(q, K)) = {q[i] : i \in K}
<1>1. Held(Kept(q, K)) \subseteq {q[i] : i \in K}
  BY KeptEntry DEF Held
<1>2. ASSUME NEW i \in K PROVE q[i] \in Held(Kept(q, K))
  <2> DEFINE k == Rank(K, i)
  <2>1. Len(q) \in Nat /\ K \in SUBSET (1 .. Len(q))
    OBVIOUS
  <2>2. k \in 1 .. Cardinality(K)
    BY <2>1, RankInRange
  <2>3. Nth(K, k) \in K /\ Rank(K, Nth(K, k)) = k
    BY <2>1, <2>2, NthExists
  <2>4. Nth(K, k) = i
    BY <2>1, <2>3, RankInjective
  <2>5. k \in DOMAIN Kept(q, K) /\ Kept(q, K)[k] = q[i]
    BY <2>2, <2>4, KeptType DEF Kept
  <2> QED
    BY <2>5 DEF Held
<1> QED
  BY <1>1, <1>2

(* The smallest position of a set of positions exists. *)
LEMMA FirstIsLeast ==
  ASSUME NEW n \in Nat, NEW K \in SUBSET (1 .. n), K # {}
  PROVE  First(K) \in K /\ \A j \in K : First(K) <= j
<1>1. Cardinality(K) \in Nat /\ Cardinality(K) # 0
  <2>1. IsFiniteSet(1 .. n)
    BY FS_Interval
  <2> QED
    BY <2>1, FS_Subset, FS_CardinalityType, FS_EmptySet
<1>2. Nth(K, 1) \in K /\ Rank(K, Nth(K, 1)) = 1
  <2>1. 1 \in 1 .. Cardinality(K)
    BY <1>1
  <2> QED
    BY <2>1, NthExists
<1>3. ASSUME NEW j \in K PROVE Nth(K, 1) <= j
  <2>1. Nth(K, 1) \in Int /\ j \in Int
    <3>1. \A x \in K : x \in Int
      OBVIOUS
    <3> QED
      BY <1>2, <3>1
  <2>2. Rank(K, j) \in 1 .. Cardinality(K)
    BY RankInRange
  <2>3. ~(Rank(K, j) < 1)
    BY <1>1, <2>2
  <2>4. ~(j < Nth(K, 1))
    BY <1>2, <2>3, RankMonotone
  <2> QED
    BY <2>1, <2>4
<1> QED
  BY <1>2, <1>3 DEF First

(* Of two queues joined, all the values are there. *)
LEMMA JoinedHeld ==
  ASSUME NEW S, NEW x \in Seq(S), NEW y \in Seq(S)
  PROVE  Held(x \o y) = Held(x) \cup Held(y)
<1> DEFINE z == x \o y
<1>1. /\ Len(x) \in Nat /\ Len(y) \in Nat
      /\ DOMAIN x = 1 .. Len(x) /\ DOMAIN y = 1 .. Len(y)
      /\ DOMAIN z = 1 .. Len(x) + Len(y)
  OBVIOUS
<1>2. \A i \in DOMAIN x : i \in DOMAIN z /\ z[i] = x[i]
  OBVIOUS
<1>3. \A i \in DOMAIN y : i + Len(x) \in DOMAIN z /\ z[i + Len(x)] = y[i]
  OBVIOUS
<1> HIDE DEF z
<1>4. \A i \in DOMAIN z :
        \/ i \in DOMAIN x /\ z[i] = x[i]
        \/ i - Len(x) \in DOMAIN y /\ z[i] = y[i - Len(x)]
  <2> SUFFICES ASSUME NEW i \in DOMAIN z, i \notin DOMAIN x
               PROVE  i - Len(x) \in DOMAIN y /\ z[i] = y[i - Len(x)]
    BY <1>2
  <2>1. i \in Nat /\ ~(i <= Len(x)) /\ i <= Len(x) + Len(y) /\ i >= 1
    BY <1>1
  <2>2. i - Len(x) \in DOMAIN y /\ i = (i - Len(x)) + Len(x)
    BY <1>1, <2>1
  <2> QED
    BY <1>3, <2>2
<1>5. Held(z) \subseteq Held(x) \cup Held(y)
  BY <1>4 DEF Held
<1>6. Held(x) \subseteq Held(z)
  BY <1>2 DEF Held
<1>7. Held(y) \subseteq Held(z)
  BY <1>3 DEF Held
<1> QED
  BY <1>5, <1>6, <1>7 DEF z

(* Induction along a loop: what holds of the first value and is kept by each *)
(* round holds of every value.  Q gives the set of what is allowed after n   *)
(* rounds.                                                                   *)
LEMMA Rounds ==
  ASSUME NEW N \in Nat, NEW f, NEW Q, f[0] \in Q[0],
         \A n \in 1 .. N : f[n - 1] \in Q[n - 1] => f[n] \in Q[n]
  PROVE  \A n \in 0 .. N : f[n] \in Q[n]
<1> DEFINE T == {n \in 0 .. N : f[n] \notin Q[n]}
           R == {ss \in Nat \X Nat : ss[1] < ss[2]}
<1> SUFFICES ASSUME T # {} PROVE FALSE
  OBVIOUS
<1>1. IsWellFoundedOn(R, Nat)
  BY NatLessThanWellFounded DEF OpToRel
<1>2. T \subseteq Nat
  OBVIOUS
<1>3. PICK m \in T : \A y \in T : ~ (<<y, m>> \in R)
  <2> HIDE DEF R, T
  <2> QED
    BY <1>1, <1>2, WFMin
<1>4. m # 0 /\ m - 1 \in 0 .. N
  OBVIOUS
<1>5. m - 1 \notin T
  <2>1. m \in Nat /\ m - 1 \in Nat /\ <<m - 1, m>> \in R
    BY <1>2, <1>4
  <2> HIDE DEF R, T
  <2> QED
    BY <1>3, <2>1
<1>6. m \in 1 .. N /\ f[m - 1] \in Q[m - 1] /\ f[m] \notin Q[m]
  BY <1>4, <1>5
<1> QED
  BY <1>6

(* A loop of N rounds has a value after each. *)
Loops(S, N, c, G) ==
  {f \in [0 .. N -> S] : f[0] = c /\ \A n \in 1 .. N : f[n] = G[n][f[n - 1]]}

LEMMA LoopRuns ==
  ASSUME NEW S, NEW N \in Nat, NEW c \in S, NEW G,
         \A n \in 1 .. N : \A x \in S : G[n][x] \in S
  PROVE  Loops(S, N, c, G) # {}
<1> DEFINE Fine(m, f) == f[0] = c /\ \A n \in 1 .. m : f[n] = G[n][f[n - 1]]
           T == {m \in 0 .. N : \E f \in [0 .. m -> S] : Fine(m, f)}
           id == [m \in 0 .. N |-> m]
           Q == [m \in 0 .. N |-> T]
<1>1. id[0] \in Q[0]
  <2>1. [i \in 0 .. 0 |-> c] \in [0 .. 0 -> S] /\ Fine(0, [i \in 0 .. 0 |-> c])
    OBVIOUS
  <2>2. 0 \in T
    <3> HIDE DEF Fine
    <3> QED
      BY <2>1
  <2> QED
    BY <2>2
<1>2. \A m \in 1 .. N : id[m - 1] \in Q[m - 1] => id[m] \in Q[m]
  <2> SUFFICES ASSUME NEW m \in 1 .. N, m - 1 \in T PROVE m \in T
    <3> HIDE DEF T
    <3> QED
      OBVIOUS
  <2>1. PICK f \in [0 .. m - 1 -> S] : Fine(m - 1, f)
    OBVIOUS
  <2> DEFINE g == [i \in 0 .. m |-> IF i = m THEN G[m][f[m - 1]] ELSE f[i]]
  <2>2. g \in [0 .. m -> S]
    <3>1. f[m - 1] \in S
      OBVIOUS
    <3>2. G[m][f[m - 1]] \in S
      BY <3>1
    <3> QED
      BY <3>2
  <2>3. Fine(m, g)
    <3>1. g[0] = c
      BY <2>1
    <3>2. ASSUME NEW n \in 1 .. m PROVE g[n] = G[n][g[n - 1]]
      <4>1. CASE n = m
        BY <4>1
      <4>2. CASE n # m
        BY <2>1, <4>2
      <4> QED
        BY <4>1, <4>2
    <3> QED
      BY <3>1, <3>2
  <2> HIDE DEF Fine, g
  <2> QED
    BY <2>2, <2>3
<1>3. \A m \in 0 .. N : id[m] \in Q[m]
  <2> HIDE DEF id, Q
  <2> QED
    BY <1>1, <1>2, Rounds
<1>4. N \in T
  BY <1>3
<1> QED
  BY <1>4 DEF Loops
=============================================================================
