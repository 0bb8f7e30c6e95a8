------------------------ MODULE ParkingLotTableProofs ------------------------
(***************************************************************************)
(* Proofs about the hashtable of WTF::ParkingLot, for any finite sets of    *)
(* threads and addresses, any hash function, load and growth factors.       *)
(***************************************************************************)
EXTENDS ParkingLotTable, FiniteSetTheorems, SequenceTheorems, WellFoundedInduction, TLAPS

-----------------------------------------------------------------------------
(* Induction on positions, stated for sets: the provers cannot use the      *)
(* library's theorems that take a predicate.                                *)

LEMMA Least ==
    ASSUME NEW B \in SUBSET Nat, B # {}
    PROVE  \E b \in B : \A c \in B : b <= c
<1>1. PICK b \in B : \A c \in B : ~(<<c, b>> \in OpToRel(<, Nat))
  BY WFMin, NatLessThanWellFounded
<1>2. ASSUME NEW c \in B, c < b PROVE FALSE
  <2>1. <<c, b>> \in Nat \X Nat /\ <<c, b>>[1] < <<c, b>>[2]
    BY <1>2
  <2>2. <<c, b>> \in OpToRel(<, Nat)
    BY <2>1 DEF OpToRel
  <2>3. QED
    BY <1>1, <2>2
<1>3. QED
  BY <1>2

LEMMA Largest ==
    ASSUME NEW n \in Nat, NEW B \in SUBSET (0..n), B # {}
    PROVE  \E b \in B : \A c \in B : c <= b
<1> DEFINE C == {n - b : b \in B}
<1>1. C \in SUBSET Nat /\ C # {}
  <2>1. \A b \in B : n - b \in Nat
    OBVIOUS
  <2>2. QED
    BY <2>1
<1>2. PICK c \in C : \A d \in C : c <= d
  <2> HIDE DEF C
  <2>1. QED
    BY <1>1, Least
<1>3. PICK b \in B : c = n - b
  OBVIOUS
<1>4. ASSUME NEW d \in B PROVE d <= b
  BY <1>2, <1>3
<1>5. QED
  BY <1>4

LEMMA Induction ==
    ASSUME NEW n \in Nat, NEW P, 0 \in P, \A k \in 1..n : k - 1 \in P => k \in P
    PROVE  \A k \in 0..n : k \in P
<1> DEFINE B == (0..n) \ P
<1>1. SUFFICES ASSUME B # {} PROVE FALSE
  OBVIOUS
<1>2. B \in SUBSET Nat
  OBVIOUS
<1>3. PICK b \in B : \A c \in B : b <= c
  <2> HIDE DEF B
  <2>1. QED
    BY <1>1, <1>2, Least
<1>4. b \in 1..n /\ b - 1 \in 0..n
  OBVIOUS
<1>5. b - 1 \notin B
  BY <1>3, <1>4
<1>6. QED
  BY <1>4, <1>5

\* The bodies of a loop of n rounds whose state is in S, and what the loop goes through.
Steps(S, n) == [S \X (1..n) -> S]
LoopRun(run, S, n, step, s) ==
    run \in [0..n -> S] /\ run[0] = s /\ \A k \in 1..n : run[k] = step[<<run[k - 1], k>>]

(* A loop whose body keeps its state in S runs to its end.                  *)
LEMMA LoopRuns ==
    ASSUME NEW S, NEW n \in Nat, NEW step \in Steps(S, n), NEW s \in S
    PROVE  \E run : LoopRun(run, S, n, step, s)
<1> USE DEF Steps
<1> DEFINE Runs(m) == {run \in [0..m -> S] :
                         run[0] = s /\ \A k \in 1..m : run[k] = step[<<run[k - 1], k>>]}
           P == {m \in 0..n : Runs(m) # {}}
<1>1. 0 \in P
  <2>1. [k \in 0..0 |-> s] \in Runs(0)
    OBVIOUS
  <2>2. QED
    BY <2>1
<1>2. ASSUME NEW k \in 1..n, k - 1 \in P PROVE k \in P
  <2>1. PICK run : run \in Runs(k - 1)
    BY <1>2
  <2>2. /\ run \in [0..(k - 1) -> S] /\ run[0] = s
        /\ \A j \in 1..(k - 1) : run[j] = step[<<run[j - 1], j>>]
    BY <2>1
  <2> DEFINE r == [j \in 0..k |-> IF j = k THEN step[<<run[k - 1], k>>] ELSE run[j]]
  <2>3. k - 1 \in 0..(k - 1) /\ k \in Nat /\ run[k - 1] \in S
    BY <2>2
  <2>4. step[<<run[k - 1], k>>] \in S
    BY <2>3
  <2>5. r \in [0..k -> S] /\ r[0] = s
    BY <2>2, <2>3, <2>4
  <2>6. ASSUME NEW j \in 1..k PROVE r[j] = step[<<r[j - 1], j>>]
    <3>1. r[j - 1] = run[j - 1] /\ j - 1 \in 0..(k - 1)
      BY <2>3
    <3>2. CASE j = k
      <4>1. r[k] = step[<<run[k - 1], k>>]
        BY <2>3
      <4> HIDE DEF r
      <4>2. QED
        BY <3>1, <3>2, <4>1
    <3>3. CASE j # k
      <4>1. j \in 1..(k - 1) /\ r[j] = run[j]
        BY <2>3, <3>3
      <4> HIDE DEF r
      <4>2. QED
        BY <2>2, <3>1, <4>1
    <3>4. QED
      BY <3>2, <3>3
  <2> HIDE DEF r
  <2>7. r \in Runs(k)
    BY <2>5, <2>6
  <2>8. QED
    BY <2>7
<1> HIDE DEF P
<1>3. \A k \in 0..n : k \in P
  BY <1>1, <1>2, Induction
<1>4. n \in P
  BY <1>3
<1>5. QED
  BY <1>4 DEF P, LoopRun

-----------------------------------------------------------------------------
(* Sequences in a given order                                               *)

LEMMA IsSequence ==
    ASSUME NEW T, NEW n \in Nat, NEW f \in [1..n -> T]
    PROVE  f \in Seq(T) /\ Len(f) = n
OBVIOUS

LEMMA RankedInOrder ==
    ASSUME NEW P, IsFiniteSet(P), NEW upTo \in [P -> SUBSET P],
           \A p \in P : p \in upTo[p],
           \A p, q \in P : p \in upTo[q] \/ q \in upTo[p],
           \A p, q \in P : p \in upTo[q] => upTo[p] \subseteq upTo[q],
           \A p, q \in P : p \in upTo[q] /\ q \in upTo[p] => p = q
    PROVE  /\ Cardinality(P) \in Nat
           /\ Ranked(P, upTo) \in [1..Cardinality(P) -> P]
           /\ \A p \in P : \E j \in 1..Cardinality(P) : Ranked(P, upTo)[j] = p
           /\ \A i, j \in 1..Cardinality(P) : Ranked(P, upTo)[i] \in upTo[Ranked(P, upTo)[j]] <=> i <= j
<1> DEFINE n == Cardinality(P)
           rank == [p \in P |-> Cardinality(upTo[p])]
           r == Ranked(P, upTo)
<1>1. n \in Nat
  BY FS_CardinalityType
<1>2. ASSUME NEW p \in P PROVE IsFiniteSet(upTo[p]) /\ rank[p] \in 1..n
  <2>1. IsFiniteSet(upTo[p]) /\ Cardinality(upTo[p]) <= n
    BY FS_Subset
  <2>2. Cardinality(upTo[p]) \in Nat
    BY <2>1, FS_CardinalityType
  <2>3. Cardinality(upTo[p]) # 0
    BY <2>1, FS_EmptySet
  <2> HIDE DEF n
  <2>4. QED
    BY <1>1, <2>1, <2>2, <2>3
<1>3. ASSUME NEW p \in P, NEW q \in P, p \in upTo[q], p # q PROVE rank[p] < rank[q]
  <2>1. upTo[p] \in SUBSET upTo[q] /\ upTo[p] # upTo[q]
    BY <1>3
  <2>2. Cardinality(upTo[p]) <= Cardinality(upTo[q]) /\ Cardinality(upTo[q]) # Cardinality(upTo[p])
    BY <1>2, <2>1, FS_Subset
  <2>3. rank[p] \in Nat /\ rank[q] \in Nat
    BY <1>1, <1>2
  <2>4. QED
    BY <2>2, <2>3
<1>4. rank \in [P -> 1..n]
  BY <1>2
<1> HIDE DEF rank, n
<1>5. \A p, q \in P : rank[p] = rank[q] => p = q
  <2>1. \A p \in P : rank[p] \in Nat
    BY <1>1, <1>4
  <2>2. QED
    BY <1>3, <2>1
<1>6. rank \in Injection(P, 1..n)
  BY <1>4, <1>5 DEF Injection, IsInjective
<1>7. IsFiniteSet(1..n) /\ Cardinality(1..n) = n
  BY <1>1, FS_Interval
<1>8. rank \in Surjection(P, 1..n)
  BY <1>6, <1>7, FS_Injection DEF n
<1>9. \A j \in 1..n : \E p \in P : rank[p] = j
  BY <1>8 DEF Surjection
<1>10. r = [j \in 1..n |-> CHOOSE p \in P : rank[p] = j]
  BY DEF Ranked, n, rank
<1>11. ASSUME NEW j \in 1..n PROVE r[j] \in P /\ rank[r[j]] = j
  BY <1>9, <1>10
<1>12. r \in [1..n -> P]
  BY <1>10, <1>11
<1> HIDE DEF r
<1>13. ASSUME NEW p \in P PROVE \E j \in 1..n : r[j] = p
  <2>1. rank[p] \in 1..n
    BY <1>4
  <2>2. QED
    BY <1>5, <1>11, <2>1
<1>14. ASSUME NEW i \in 1..n, NEW j \in 1..n PROVE r[i] \in upTo[r[j]] <=> i <= j
  <2>1. CASE r[i] = r[j]
    <3>1. i = j
      BY <1>11, <2>1
    <3>2. QED
      BY <1>1, <1>11, <2>1, <3>1
  <2>2. CASE r[i] # r[j]
    <3>1. r[i] \in upTo[r[j]] => i < j
      BY <1>3, <1>11, <2>2
    <3>2. r[j] \in upTo[r[i]] => j < i
      BY <1>3, <1>11, <2>2
    <3>3. r[i] \in upTo[r[j]] \/ r[j] \in upTo[r[i]]
      BY <1>11
    <3>4. QED
      BY <1>1, <3>1, <3>2, <3>3
  <2>3. QED
    BY <2>1, <2>2
<1>15. QED
  BY <1>1, <1>12, <1>13, <1>14 DEF n, r

Distinct(q) == \A i, j \in 1..Len(q) : q[i] = q[j] => i = j

\* v comes before w in q.
Before(q, v, w) == \E i, j \in 1..Len(q) : i < j /\ q[i] = v /\ q[j] = w

(* A sequence without repetitions is its members and their order.           *)
LEMMA SameSequence ==
    ASSUME NEW p \in Seq(Threads), NEW q \in Seq(Threads), Distinct(p), Distinct(q),
           Members(p) = Members(q),
           \A v, w \in Members(p) : Before(p, v, w) => Before(q, v, w)
    PROVE  p = q
<1>1. /\ Len(p) \in Nat /\ Len(q) \in Nat /\ p \in [1..Len(p) -> Threads] /\ q \in [1..Len(q) -> Threads]
  OBVIOUS
<1>2. ASSUME NEW i \in Nat \ {0}, i <= Len(p) \/ i <= Len(q),
             \A j \in 1..(i - 1) : j <= Len(p) /\ j <= Len(q) /\ p[j] = q[j]
      PROVE  i <= Len(p) /\ i <= Len(q) /\ p[i] = q[i]
  <2>1. i <= Len(p) => \E j \in 1..Len(q) : q[j] = p[i] /\ j >= i
    <3>1. SUFFICES ASSUME i <= Len(p) PROVE \E j \in 1..Len(q) : q[j] = p[i] /\ j >= i
      OBVIOUS
    <3>2. i \in 1..Len(p)
      BY <1>1, <3>1
    <3>3. PICK j \in 1..Len(q) : q[j] = p[i]
      BY <3>2 DEF Members
    <3>4. j >= i
      <4>1. SUFFICES ASSUME j < i PROVE FALSE
        BY <1>1
      <4>2. j \in 1..(i - 1) /\ p[j] = p[i] /\ j \in 1..Len(p)
        BY <1>1, <1>2, <3>3, <4>1
      <4>3. QED
        BY <1>1, <3>2, <4>2 DEF Distinct
    <3>5. QED
      BY <3>3, <3>4
  <2>2. i <= Len(q) => \E j \in 1..Len(p) : p[j] = q[i] /\ j >= i
    <3>1. SUFFICES ASSUME i <= Len(q) PROVE \E j \in 1..Len(p) : p[j] = q[i] /\ j >= i
      OBVIOUS
    <3>2. i \in 1..Len(q)
      BY <1>1, <3>1
    <3>3. PICK j \in 1..Len(p) : p[j] = q[i]
      BY <3>2 DEF Members
    <3>4. j >= i
      <4>1. SUFFICES ASSUME j < i PROVE FALSE
        BY <1>1
      <4>2. j \in 1..(i - 1) /\ q[j] = q[i] /\ j \in 1..Len(q)
        BY <1>1, <1>2, <3>3, <4>1
      <4>3. QED
        BY <1>1, <3>2, <4>2 DEF Distinct
    <3>5. QED
      BY <3>3, <3>4
  <2>3. i <= Len(p) /\ i <= Len(q)
    BY <1>1, <1>2, <2>1, <2>2
  <2>4. ASSUME p[i] # q[i] PROVE FALSE
    <3>1. PICK j \in 1..Len(q) : q[j] = p[i] /\ j > i
      BY <1>1, <2>1, <2>3, <2>4
    <3>2. PICK k \in 1..Len(p) : p[k] = q[i] /\ k > i
      BY <1>1, <2>2, <2>3, <2>4
    <3>3. i \in 1..Len(p) /\ i \in 1..Len(q)
      BY <1>1, <2>3
    <3>4. Before(p, p[i], p[k])
      BY <3>2, <3>3 DEF Before
    <3>5. p[i] \in Members(p) /\ p[k] \in Members(p)
      BY <3>2, <3>3 DEF Members
    <3>6. Before(q, p[i], p[k])
      BY <3>4, <3>5
    <3>7. PICK l \in 1..Len(q), m \in 1..Len(q) : l < m /\ q[l] = p[i] /\ q[m] = p[k]
      BY <3>6 DEF Before
    <3>8. l = j /\ m = i
      BY <3>1, <3>2, <3>3, <3>7 DEF Distinct
    <3>9. QED
      BY <3>1, <3>7, <3>8
  <2>5. QED
    BY <2>3, <2>4
<1>3. \A i \in Nat \ {0} : i <= Len(p) \/ i <= Len(q) => i <= Len(p) /\ i <= Len(q) /\ p[i] = q[i]
  <2> DEFINE B == {i \in Nat \ {0} : ~(i <= Len(p) \/ i <= Len(q) => i <= Len(p) /\ i <= Len(q) /\ p[i] = q[i])}
  <2>1. SUFFICES ASSUME B # {} PROVE FALSE
    OBVIOUS
  <2>2. B \in SUBSET Nat
    OBVIOUS
  <2>3. PICK b \in B : \A c \in B : b <= c
    <3> HIDE DEF B
    <3>1. QED
      BY <2>1, <2>2, Least
  <2>4. b \in Nat \ {0} /\ (b <= Len(p) \/ b <= Len(q))
    OBVIOUS
  <2>5. ASSUME NEW j \in 1..(b - 1) PROVE j <= Len(p) /\ j <= Len(q) /\ p[j] = q[j]
    <3>1. j \notin B /\ j \in Nat \ {0} /\ j < b
      BY <2>3, <2>4
    <3>2. j <= Len(p) \/ j <= Len(q)
      BY <1>1, <2>4, <3>1
    <3>3. QED
      BY <3>1, <3>2
  <2>6. b <= Len(p) /\ b <= Len(q) /\ p[b] = q[b]
    BY <1>2, <2>4, <2>5
  <2>7. QED
    BY <2>6
<1>4. Len(p) = Len(q)
  <2>1. Len(p) # 0 => Len(p) <= Len(q)
    BY <1>1, <1>3
  <2>2. Len(q) # 0 => Len(q) <= Len(p)
    BY <1>1, <1>3
  <2>3. \A m, n \in Nat : (m # 0 => m <= n) /\ (n # 0 => n <= m) => m = n
    OBVIOUS
  <2>4. QED
    BY <1>1, <2>1, <2>2, <2>3, Zenon
<1>5. \A i \in 1..Len(p) : p[i] = q[i]
  BY <1>1, <1>3
<1>6. QED
  BY <1>1, <1>4, <1>5

(* A walk keeps the order of what it keeps.                                 *)
LEMMA KeptInOrder ==
    ASSUME NEW q \in Seq(Threads), Distinct(q), NEW S
    PROVE  /\ Kept(q, S) \in Seq(Threads) /\ Distinct(Kept(q, S))
           /\ Members(Kept(q, S)) = Members(q) \cap S
           /\ \A v, w \in Members(q) \cap S : Before(Kept(q, S), v, w) <=> Before(q, v, w)
<1> DEFINE K == {i \in 1..Len(q) : q[i] \in S}
           upTo == [i \in K |-> {k \in K : k <= i}]
           n == Cardinality(K)
           r == Ranked(K, upTo)
           kept == Kept(q, S)
<1>1. Len(q) \in Nat /\ q \in [1..Len(q) -> Threads]
  OBVIOUS
<1>2. IsFiniteSet(K) /\ K \subseteq Nat
  <2>1. IsFiniteSet(1..Len(q))
    BY <1>1, FS_Interval
  <2>2. K \in SUBSET (1..Len(q))
    OBVIOUS
  <2>3. 1..Len(q) \subseteq Nat
    BY <1>1
  <2> HIDE DEF K
  <2>4. IsFiniteSet(K)
    BY <2>1, <2>2, FS_Subset
  <2>5. QED
    BY <2>2, <2>3, <2>4
<1>3. /\ n \in Nat /\ r \in [1..n -> K]
      /\ \A i \in K : \E j \in 1..n : r[j] = i
      /\ \A i, j \in 1..n : r[i] \in upTo[r[j]] <=> i <= j
  <2> HIDE DEF K
  <2>1. upTo \in [K -> SUBSET K]
    OBVIOUS
  <2>2. \A i, j \in K : i \in upTo[j] <=> i <= j
    OBVIOUS
  <2> HIDE DEF upTo
  <2>3. /\ \A i \in K : i \in upTo[i]
        /\ \A i, j \in K : i \in upTo[j] \/ j \in upTo[i]
        /\ \A i, j \in K : i \in upTo[j] /\ j \in upTo[i] => i = j
    BY <1>2, <2>2
  <2>4. \A i, j \in K : i \in upTo[j] => upTo[i] \subseteq upTo[j]
    <3>1. ASSUME NEW i \in K, NEW j \in K, NEW m \in K, i \in upTo[j], m \in upTo[i] PROVE m \in upTo[j]
      <4>1. m <= i /\ i <= j
        BY <2>2, <3>1
      <4>2. m <= j
        BY <1>2, <4>1
      <4>3. QED
        BY <2>2, <4>2
    <3>2. QED
      BY <2>1, <3>1
  <2>5. QED
    <3>1. PICK P, o : P = K /\ o = upTo
      OBVIOUS
    <3>2. /\ IsFiniteSet(P) /\ o \in [P -> SUBSET P]
          /\ \A i \in P : i \in o[i]
          /\ \A i, j \in P : i \in o[j] \/ j \in o[i]
          /\ \A i, j \in P : i \in o[j] => o[i] \subseteq o[j]
          /\ \A i, j \in P : i \in o[j] /\ j \in o[i] => i = j
      BY <1>2, <2>1, <2>3, <2>4, <3>1, Zenon
    <3>3. /\ Cardinality(P) \in Nat
          /\ Ranked(P, o) \in [1..Cardinality(P) -> P]
          /\ \A p \in P : \E j \in 1..Cardinality(P) : Ranked(P, o)[j] = p
          /\ \A i, j \in 1..Cardinality(P) : Ranked(P, o)[i] \in o[Ranked(P, o)[j]] <=> i <= j
      BY <3>2, RankedInOrder
    <3>4. QED
      BY <3>1, <3>3, Zenon
<1>4. \A i, j \in 1..n : r[i] <= r[j] <=> i <= j
  <2>1. \A i, j \in K : i \in upTo[j] <=> i <= j
    OBVIOUS
  <2> HIDE DEF K, upTo, r, n
  <2>2. QED
    BY <1>3, <2>1
<1>5. kept = [j \in 1..n |-> q[r[j]]]
  <2> DEFINE place(j) == CHOOSE i \in K : Cardinality({k \in K : k <= i}) = j
  <2>1. \A j \in 1..n : r[j] = place(j)
    BY DEF Ranked
  <2>2. kept = [j \in 1..n |-> q[place(j)]]
    BY DEF Kept
  <2> HIDE DEF K, n, r, kept, place
  <2>3. QED
    BY <2>1, <2>2
<1> HIDE DEF kept, r, n, upTo
<1>6. \A i \in K : i \in 1..Len(q) /\ q[i] \in S /\ q[i] \in Threads
  BY <1>1
<1>7. /\ kept \in Seq(Threads) /\ Len(kept) = n
      /\ \A j \in 1..n : kept[j] = q[r[j]]
  <2> HIDE DEF K
  <2>1. kept \in [1..n -> Threads]
    BY <1>3, <1>5, <1>6
  <2>2. QED
    BY <1>3, <1>5, <2>1
<1>8. \A i, j \in 1..n : r[i] = r[j] => i = j
  <2>1. \A i \in 1..n : r[i] \in Nat
    BY <1>2, <1>3
  <2>2. \A i, j \in 1..n : r[i] = r[j] => i <= j /\ j <= i
    BY <1>4, <2>1
  <2>3. QED
    BY <1>3, <2>2
<1>9. Distinct(kept)
  <2> HIDE DEF K
  <2>1. QED
    BY <1>3, <1>6, <1>7, <1>8 DEF Distinct
<1>10. Members(kept) = Members(q) \cap S
  <2>1. Members(kept) \subseteq Members(q) \cap S
    <3> HIDE DEF K
    <3>1. QED
      BY <1>3, <1>6, <1>7 DEF Members
  <2>2. ASSUME NEW w \in Members(q), w \in S PROVE w \in Members(kept)
    <3>1. PICK i \in 1..Len(q) : q[i] = w
      BY DEF Members
    <3>2. i \in K
      BY <2>2, <3>1
    <3>3. PICK j \in 1..n : r[j] = i
      BY <1>3, <3>2
    <3>4. QED
      BY <1>7, <3>1, <3>3 DEF Members
  <2>3. QED
    BY <2>1, <2>2
<1>11. ASSUME NEW v \in Members(q) \cap S, NEW w \in Members(q) \cap S
       PROVE  Before(kept, v, w) <=> Before(q, v, w)
  <2>1. ASSUME Before(kept, v, w) PROVE Before(q, v, w)
    <3>1. PICK i \in 1..n, j \in 1..n : i < j /\ kept[i] = v /\ kept[j] = w
      BY <1>7, <2>1 DEF Before
    <3>2. r[i] \in 1..Len(q) /\ r[j] \in 1..Len(q) /\ q[r[i]] = v /\ q[r[j]] = w
      <4> HIDE DEF K
      <4>1. QED
        BY <1>3, <1>6, <1>7, <3>1
    <3>3. r[i] < r[j]
      BY <1>1, <1>3, <1>4, <3>1, <3>2
    <3>4. QED
      BY <3>2, <3>3 DEF Before
  <2>2. ASSUME Before(q, v, w) PROVE Before(kept, v, w)
    <3>1. PICK k \in 1..Len(q), l \in 1..Len(q) : k < l /\ q[k] = v /\ q[l] = w
      BY <2>2 DEF Before
    <3>2. k \in K /\ l \in K
      BY <3>1
    <3>3. PICK i \in 1..n : r[i] = k
      BY <1>3, <3>2
    <3>4. PICK j \in 1..n : r[j] = l
      BY <1>3, <3>2
    <3>5. i < j
      BY <1>1, <1>3, <1>4, <3>1, <3>3, <3>4
    <3>6. QED
      BY <1>7, <3>1, <3>3, <3>4, <3>5 DEF Before
  <2>3. QED
    BY <2>1, <2>2
<1>12. QED
  BY <1>7, <1>9, <1>10, <1>11 DEF kept

LEMMA AppendInOrder ==
    ASSUME NEW q \in Seq(Threads), Distinct(q), NEW t \in Threads, t \notin Members(q)
    PROVE  /\ Append(q, t) \in Seq(Threads) /\ Distinct(Append(q, t))
           /\ Members(Append(q, t)) = Members(q) \cup {t}
           /\ \A v, w : Before(Append(q, t), v, w) <=> Before(q, v, w) \/ (v \in Members(q) /\ w = t)
<1>1. /\ Append(q, t) \in Seq(Threads) /\ Len(Append(q, t)) = Len(q) + 1 /\ Len(q) \in Nat
      /\ \A i \in 1..Len(q) : Append(q, t)[i] = q[i]
      /\ Append(q, t)[Len(q) + 1] = t
  BY AppendProperties
<1>2. Members(Append(q, t)) = Members(q) \cup {t}
  BY <1>1 DEF Members
<1>3. Distinct(Append(q, t))
  BY <1>1 DEF Members, Distinct
<1>4. ASSUME NEW v, NEW w, Before(Append(q, t), v, w)
      PROVE  Before(q, v, w) \/ (v \in Members(q) /\ w = t)
  <2>1. PICK i \in 1..(Len(q) + 1), j \in 1..(Len(q) + 1) :
               i < j /\ Append(q, t)[i] = v /\ Append(q, t)[j] = w
    BY <1>1, <1>4 DEF Before
  <2>2. i \in 1..Len(q) /\ q[i] = v
    BY <1>1, <2>1
  <2>3. CASE j = Len(q) + 1
    BY <1>1, <2>1, <2>2, <2>3 DEF Members
  <2>4. CASE j # Len(q) + 1
    <3>1. j \in 1..Len(q) /\ q[j] = w
      BY <1>1, <2>1, <2>4
    <3>2. QED
      BY <2>1, <2>2, <3>1 DEF Before
  <2>5. QED
    BY <2>3, <2>4
<1>5. ASSUME NEW v, NEW w, Before(q, v, w) PROVE Before(Append(q, t), v, w)
  <2>1. PICK i \in 1..Len(q), j \in 1..Len(q) : i < j /\ q[i] = v /\ q[j] = w
    BY <1>5 DEF Before
  <2>2. i \in 1..(Len(q) + 1) /\ j \in 1..(Len(q) + 1) /\ Append(q, t)[i] = v /\ Append(q, t)[j] = w
    BY <1>1, <2>1
  <2>3. QED
    BY <1>1, <2>1, <2>2 DEF Before
<1>6. ASSUME NEW v \in Members(q) PROVE Before(Append(q, t), v, t)
  <2>1. PICK i \in 1..Len(q) : q[i] = v
    BY DEF Members
  <2>2. i \in 1..(Len(q) + 1) /\ Len(q) + 1 \in 1..(Len(q) + 1) /\ i < Len(q) + 1 /\ Append(q, t)[i] = v
    BY <1>1, <2>1
  <2>3. QED
    BY <1>1, <2>2 DEF Before
<1>7. QED
  BY <1>1, <1>2, <1>3, <1>4, <1>5, <1>6

LEMMA TailInOrder ==
    ASSUME NEW q \in Seq(Threads), Distinct(q), q # <<>>
    PROVE  /\ Tail(q) \in Seq(Threads) /\ Distinct(Tail(q))
           /\ q[1] \in Members(q) /\ Members(Tail(q)) = Members(q) \ {q[1]}
           /\ \A v, w \in Members(Tail(q)) : Before(q, v, w) => Before(Tail(q), v, w)
<1>1. /\ Tail(q) \in Seq(Threads) /\ Len(Tail(q)) = Len(q) - 1 /\ Len(q) \in Nat /\ Len(q) >= 1
      /\ \A i \in 1..(Len(q) - 1) : Tail(q)[i] = q[i + 1]
  OBVIOUS
<1>2. Distinct(Tail(q)) /\ q[1] \in Members(q)
  BY <1>1 DEF Distinct, Members
<1>3. Members(Tail(q)) \subseteq Members(q) \ {q[1]}
  BY <1>1 DEF Members, Distinct
<1>4. ASSUME NEW i \in 1..Len(q), q[i] # q[1] PROVE i - 1 \in 1..Len(Tail(q)) /\ Tail(q)[i - 1] = q[i]
  BY <1>1, <1>4
<1>5. ASSUME NEW w \in Members(q), w # q[1] PROVE w \in Members(Tail(q))
  <2>1. PICK i \in 1..Len(q) : q[i] = w
    BY DEF Members
  <2>2. i - 1 \in 1..Len(Tail(q)) /\ Tail(q)[i - 1] = w
    BY <1>4, <1>5, <2>1
  <2>3. QED
    BY <2>2 DEF Members
<1>6. ASSUME NEW v \in Members(Tail(q)), NEW w \in Members(Tail(q)), Before(q, v, w)
      PROVE  Before(Tail(q), v, w)
  <2>1. PICK i \in 1..Len(q), j \in 1..Len(q) : i < j /\ q[i] = v /\ q[j] = w
    BY <1>6 DEF Before
  <2>2. v # q[1] /\ w # q[1]
    BY <1>3
  <2>3. /\ i - 1 \in 1..Len(Tail(q)) /\ Tail(q)[i - 1] = v
        /\ j - 1 \in 1..Len(Tail(q)) /\ Tail(q)[j - 1] = w /\ i - 1 < j - 1
    BY <1>1, <1>4, <2>1, <2>2
  <2>4. QED
    BY <2>3 DEF Before
<1>7. QED
  BY <1>1, <1>2, <1>3, <1>5, <1>6

LEMMA EmptyInOrder ==
    /\ <<>> \in Seq(Threads) /\ Distinct(<<>>) /\ Members(<<>>) = {}
    /\ \A q \in Seq(Threads) : Members(q) = {} => q = <<>>
BY DEF Members, Distinct

(* The vector of the locked buckets has each of them once.                  *)
LEMMA SortedOnce ==
    ASSUME NEW bs \in SUBSET Nat, IsFiniteSet(bs)
    PROVE  /\ Sorted(bs) \in Seq(bs)
           /\ \A i, j \in 1..Len(Sorted(bs)) : Sorted(bs)[i] = Sorted(bs)[j] => i = j
           /\ \A b \in bs : \E j \in 1..Len(Sorted(bs)) : Sorted(bs)[j] = b
<1> DEFINE upTo == [b \in bs |-> {c \in bs : c <= b}]
           n == Cardinality(bs)
           r == Ranked(bs, upTo)
<1>1. upTo \in [bs -> SUBSET bs] /\ \A b, c \in bs : b \in upTo[c] <=> b <= c
  OBVIOUS
<1> HIDE DEF upTo
<1>2. /\ \A b \in bs : b \in upTo[b]
      /\ \A b, c \in bs : b \in upTo[c] \/ c \in upTo[b]
      /\ \A b, c \in bs : b \in upTo[c] /\ c \in upTo[b] => b = c
  BY <1>1
<1>3. \A b, c \in bs : b \in upTo[c] => upTo[b] \subseteq upTo[c]
  <2>1. ASSUME NEW b \in bs, NEW c \in bs, NEW d \in bs, b \in upTo[c], d \in upTo[b] PROVE d \in upTo[c]
    BY <1>1, <2>1
  <2>2. QED
    BY <1>1, <2>1
<1>4. /\ n \in Nat /\ r \in [1..n -> bs]
      /\ \A b \in bs : \E j \in 1..n : r[j] = b
      /\ \A i, j \in 1..n : r[i] \in upTo[r[j]] <=> i <= j
  BY <1>1, <1>2, <1>3, RankedInOrder
<1>5. r = Sorted(bs)
  BY DEF Sorted, upTo
<1> HIDE DEF r, n
<1>6. \A i, j \in 1..n : r[i] = r[j] => i <= j /\ j <= i
  BY <1>2, <1>4
<1>7. r \in Seq(bs) /\ Len(r) = n
  BY <1>4
<1>8. QED
  BY <1>4, <1>5, <1>6, <1>7

\* No thread is linked twice.
LinkedOnce ==
    \A b, c \in 1..Len(bucketQueue) :
        \A i \in 1..Len(bucketQueue[b]), j \in 1..Len(bucketQueue[c]) :
            bucketQueue[b][i] = bucketQueue[c][j] => b = c /\ i = j

(* The vector of threads has each linked thread once, those of a bucket in  *)
(* the order of its queue.                                                  *)
LEMMA GatheredInOrder ==
    ASSUME bucketQueue \in Seq(Seq(Threads)), IsFiniteSet(Threads), LinkedOnce,
           NEW bs, bs = 1..Len(bucketQueue)
    PROVE  /\ Gathered(bs) \in Seq(Threads) /\ Distinct(Gathered(bs))
           /\ \A b \in bs : \A i \in 1..Len(bucketQueue[b]) : bucketQueue[b][i] \in Members(Gathered(bs))
           /\ \A w \in Members(Gathered(bs)) : \E b \in bs : w \in Members(bucketQueue[b])
           /\ \A b \in bs : \A v, w \in Members(bucketQueue[b]) :
                 Before(bucketQueue[b], v, w) => Before(Gathered(bs), v, w)
<1> DEFINE P == Linked(bs)
           thread == [p \in P |-> bucketQueue[p[1]][p[2]]]
           upTo == [p \in P |-> {l \in P : l[1] < p[1] \/ (l[1] = p[1] /\ l[2] <= p[2])}]
           n == Cardinality(P)
           r == Ranked(P, upTo)
           g == Gathered(bs)
<1>1. \A b \in bs : bucketQueue[b] \in Seq(Threads) /\ Len(bucketQueue[b]) \in Nat
  OBVIOUS
<1>2. \A p : p \in P <=> \E b \in bs : \E i \in 1..Len(bucketQueue[b]) : p = <<b, i>>
  <2>1. \A b \in bs : DOMAIN bucketQueue[b] = 1..Len(bucketQueue[b])
    BY <1>1
  <2>2. QED
    BY <2>1 DEF Linked
<1>3. bs \subseteq Nat
  OBVIOUS
<1> HIDE DEF P
<1>4. \A p \in P : /\ p[1] \in bs /\ p[1] \in Nat /\ p[2] \in Nat /\ p[2] \in 1..Len(bucketQueue[p[1]])
                   /\ p = <<p[1], p[2]>>
  BY <1>1, <1>2, <1>3
<1>5. /\ thread \in [P -> Threads]
      /\ \A p, l \in P : thread[p] = thread[l] => p = l
  <2>1. \A p \in P : thread[p] \in Threads
    BY <1>1, <1>4
  <2>2. \A p, l \in P : thread[p] = thread[l] => p[1] = l[1] /\ p[2] = l[2]
    BY <1>4 DEF LinkedOnce
  <2> HIDE DEF thread
  <2>3. \A p, l \in P : p[1] = l[1] /\ p[2] = l[2] => p = l
    BY <1>4
  <2>4. thread \in [P -> Threads]
    BY <2>1 DEF thread
  <2>5. QED
    BY <2>2, <2>3, <2>4
<1>6. IsFiniteSet(P)
  <2>1. thread \in Injection(P, Threads)
    <3> HIDE DEF thread
    <3>1. QED
      BY <1>5 DEF Injection, IsInjective
  <2> HIDE DEF thread
  <2>2. QED
    BY <2>1, FS_Injection
<1>7. upTo \in [P -> SUBSET P] /\ \A p, l \in P : l \in upTo[p] <=> l[1] < p[1] \/ (l[1] = p[1] /\ l[2] <= p[2])
  OBVIOUS
<1> HIDE DEF upTo
<1>8. /\ \A p \in P : p \in upTo[p]
      /\ \A p, l \in P : p \in upTo[l] \/ l \in upTo[p]
  <2>1. ASSUME NEW p \in P, NEW l \in P PROVE p \in upTo[l] \/ l \in upTo[p]
    <3>1. p[1] \in Nat /\ l[1] \in Nat /\ p[2] \in Nat /\ l[2] \in Nat
      BY <1>4
    <3>2. \/ p[1] < l[1] \/ (p[1] = l[1] /\ p[2] <= l[2])
          \/ l[1] < p[1] \/ (l[1] = p[1] /\ l[2] <= p[2])
      BY <3>1
    <3>3. QED
      BY <1>7, <3>2
  <2>2. QED
    BY <2>1
<1>9. \A p, l \in P : p \in upTo[l] /\ l \in upTo[p] => p = l
  <2>1. \A p, l \in P : p \in upTo[l] /\ l \in upTo[p] => p[1] = l[1] /\ p[2] = l[2]
    BY <1>4, <1>7
  <2>2. \A p, l \in P : p[1] = l[1] /\ p[2] = l[2] => p = l
    BY <1>4
  <2>3. QED
    BY <2>1, <2>2
<1>10. \A p, l \in P : p \in upTo[l] => upTo[p] \subseteq upTo[l]
  <2>1. ASSUME NEW p \in P, NEW l \in P, NEW m \in P, p \in upTo[l], m \in upTo[p] PROVE m \in upTo[l]
    BY <1>4, <1>7, <2>1
  <2>2. \A p \in P : upTo[p] \subseteq P
    BY <1>7
  <2>3. QED
    BY <2>1, <2>2
<1>11. /\ n \in Nat /\ r \in [1..n -> P]
       /\ \A p \in P : \E j \in 1..n : r[j] = p
       /\ \A i, j \in 1..n : r[i] \in upTo[r[j]] <=> i <= j
  BY <1>6, <1>7, <1>8, <1>9, <1>10, RankedInOrder
<1>12. g = [k \in DOMAIN r |-> bucketQueue[r[k][1]][r[k][2]]]
  BY DEF Gathered, P, upTo
<1> HIDE DEF r, n
<1>13. g = [k \in 1..n |-> thread[r[k]]]
  BY <1>11, <1>12
<1> HIDE DEF thread, g
<1>14. g \in Seq(Threads) /\ Len(g) = n /\ \A k \in 1..n : g[k] = thread[r[k]]
  <2>1. g \in [1..n -> Threads]
    BY <1>5, <1>11, <1>13
  <2>2. QED
    BY <1>11, <1>13, <2>1
<1>15. Distinct(g)
  <2>1. \A i, j \in 1..n : r[i] = r[j] => i <= j /\ j <= i
    BY <1>8, <1>11
  <2>2. \A i, j \in 1..n : g[i] = g[j] => i = j
    BY <1>5, <1>11, <1>14, <2>1
  <2>3. QED
    BY <1>14, <2>2 DEF Distinct
<1>16. ASSUME NEW b \in bs, NEW i \in 1..Len(bucketQueue[b])
       PROVE  \E k \in 1..n : r[k][1] = b /\ r[k][2] = i /\ g[k] = bucketQueue[b][i]
  <2>1. PICK p \in P : p = <<b, i>>
    BY <1>2
  <2>2. p[1] = b /\ p[2] = i
    BY <2>1
  <2>3. thread[p] = bucketQueue[b][i]
    BY <2>2 DEF thread
  <2>4. PICK k \in 1..n : r[k] = p
    BY <1>11
  <2>5. QED
    BY <1>14, <2>2, <2>3, <2>4
<1>17. ASSUME NEW b \in bs, NEW i \in 1..Len(bucketQueue[b])
       PROVE  bucketQueue[b][i] \in Members(g)
  <2>1. PICK k \in 1..n : g[k] = bucketQueue[b][i]
    BY <1>16
  <2>2. QED
    BY <1>14, <2>1 DEF Members
<1>18. ASSUME NEW w \in Members(g) PROVE \E b \in bs : w \in Members(bucketQueue[b])
  <2>1. PICK k \in 1..n : g[k] = w
    BY <1>14 DEF Members
  <2>2. r[k] \in P /\ w = bucketQueue[r[k][1]][r[k][2]]
    BY <1>11, <1>14, <2>1 DEF thread
  <2>3. QED
    BY <1>4, <2>2 DEF Members
<1>19. ASSUME NEW b \in bs, NEW v \in Members(bucketQueue[b]), NEW w \in Members(bucketQueue[b]),
              Before(bucketQueue[b], v, w)
       PROVE  Before(g, v, w)
  <2>1. PICK i \in 1..Len(bucketQueue[b]), j \in 1..Len(bucketQueue[b]) :
               i < j /\ bucketQueue[b][i] = v /\ bucketQueue[b][j] = w
    BY <1>19 DEF Before
  <2>2. PICK k \in 1..n : r[k][1] = b /\ r[k][2] = i /\ g[k] = v
    <3>1. PICK k \in 1..n : r[k][1] = b /\ r[k][2] = i /\ g[k] = bucketQueue[b][i]
      BY <1>16
    <3>2. QED
      BY <2>1, <3>1
  <2>3. PICK l \in 1..n : r[l][1] = b /\ r[l][2] = j /\ g[l] = w
    <3>1. PICK l \in 1..n : r[l][1] = b /\ r[l][2] = j /\ g[l] = bucketQueue[b][j]
      BY <1>16
    <3>2. QED
      BY <2>1, <3>1
  <2>4. b \in Nat /\ i \in Nat /\ j \in Nat
    BY <1>1, <1>3
  <2>5. r[l] \notin upTo[r[k]]
    <3>1. ~(r[l][1] < r[k][1]) /\ ~(r[l][2] <= r[k][2])
      BY <2>1, <2>2, <2>3, <2>4
    <3>2. r[l] \in P /\ r[k] \in P
      BY <1>11
    <3>3. QED
      BY <1>7, <3>1, <3>2, Zenon
  <2>6. ~(l <= k)
    BY <1>11, <2>5
  <2>7. k < l
    BY <1>11, <2>6
  <2>8. QED
    BY <1>14, <2>2, <2>3, <2>7 DEF Before
<1>20. QED
  BY <1>14, <1>15, <1>17, <1>18, <1>19 DEF g

-----------------------------------------------------------------------------
(* The loops of ensureHashtableSize()                                       *)

\* What the loops work on: the buckets 1..n of the old table, for a new one of the given size.
Making(size) == [size : {size}, data : [0..(size - 1) -> Nat], reusable : Seq(Nat), queues : Seq(Seq(Threads))]

(* A bucket is either placed, in one place, or still to be reused; a new    *)
(* one is made only when none is.                                           *)
Shape(r, n) ==
    /\ Len(r.queues) >= n /\ \A i \in DOMAIN r.data : r.data[i] <= Len(r.queues)
    /\ \A i, j \in DOMAIN r.data : r.data[i] # 0 /\ r.data[i] = r.data[j] => i = j
    /\ \A j \in 1..Len(r.reusable) : r.reusable[j] \in 1..n
    /\ \A i, j \in 1..Len(r.reusable) : r.reusable[i] = r.reusable[j] => i = j
    /\ \A b \in 1..Len(r.queues) :
          (\E i \in DOMAIN r.data : r.data[i] = b) <=> (\A j \in 1..Len(r.reusable) : r.reusable[j] # b)
    /\ Len(r.queues) > n => r.reusable = <<>>
Shaped(size, n) == {r \in Making(size) : Shape(r, n)}

(* takeLast() and the store of the bucket in place i.                       *)
LEMMA TakeLastShaped ==
    ASSUME NEW size \in Nat \ {0}, NEW n \in Nat, NEW r \in Shaped(size, n), NEW i \in 0..(size - 1),
           r.data[i] = 0, r.reusable # <<>>, NEW s \in Making(size),
           s.data = [r.data EXCEPT ![i] = Last(r.reusable)], s.reusable = Front(r.reusable),
           Len(s.queues) = Len(r.queues)
    PROVE  Shape(s, n) /\ Last(r.reusable) \in 1..n /\ \A j \in DOMAIN r.data : r.data[j] # Last(r.reusable)
<1> DEFINE d == r.data
           u == r.reusable
           m == Len(u)
           b == Last(u)
<1>1. /\ d \in [0..(size - 1) -> Nat] /\ u \in Seq(Nat) /\ Len(r.queues) \in Nat /\ Shape(r, n)
      /\ DOMAIN d = 0..(size - 1) /\ DOMAIN s.data = 0..(size - 1)
  BY DEF Shaped, Making
<1>2. m \in Nat /\ m >= 1 /\ b = u[m]
  <2>1. u \in Seq(Nat) /\ u # <<>>
    BY <1>1
  <2> HIDE DEF u
  <2>2. Len(u) # 0
    BY <2>1
  <2>3. Len(u) \in Nat
    BY <2>1
  <2>4. QED
    BY <2>2, <2>3 DEF Last
<1>3. s.reusable \in Seq(Nat) /\ Len(s.reusable) = m - 1 /\ \A j \in 1..(m - 1) : s.reusable[j] = u[j]
  <2>1. s.reusable = [j \in 1..(m - 1) |-> u[j]]
    BY <1>1, <1>2 DEF Front
  <2> HIDE DEF m, u
  <2>2. s.reusable \in Seq(Nat) /\ m - 1 \in Nat
    BY <1>2 DEF Making
  <2>3. QED
    BY <2>1, <2>2
<1> HIDE DEF m, b
<1>4. /\ \A j \in 1..m : u[j] \in 1..n
      /\ \A j, k \in 1..m : u[j] = u[k] => j = k
  BY <1>1 DEF Shape, m
<1>5. m \in 1..m /\ b \in 1..n /\ b \in 1..Len(r.queues) /\ \A j \in 1..(m - 1) : u[j] # b /\ j \in 1..m
  <2>1. m \in 1..m /\ b \in 1..n
    BY <1>2, <1>4
  <2>2. n <= Len(r.queues)
    BY <1>1 DEF Shape
  <2>3. b \in 1..Len(r.queues)
    BY <1>1, <2>1, <2>2
  <2>4. \A j \in 1..(m - 1) : u[j] # b /\ j \in 1..m
    BY <1>2, <1>4, <2>1
  <2>5. QED
    BY <2>1, <2>3, <2>4
<1>6. \A j \in 0..(size - 1) : d[j] # b
  <2>1. (\E j \in DOMAIN d : d[j] = b) <=> (\A j \in 1..m : u[j] # b)
    BY <1>1, <1>5 DEF Shape, m
  <2> HIDE DEF d, u
  <2>2. QED
    BY <1>1, <1>2, <1>5, <2>1
<1>7. \A j \in 0..(size - 1) : s.data[j] = IF j = i THEN b ELSE d[j]
  BY <1>1 DEF b
<1>8. Len(s.queues) >= n /\ \A j \in DOMAIN s.data : s.data[j] <= Len(s.queues)
  <2>1. \A j \in 0..(size - 1) : d[j] <= Len(r.queues)
    BY <1>1 DEF Shape
  <2>2. b <= Len(r.queues)
    BY <1>1, <1>5
  <2>3. QED
    BY <1>1, <1>7, <2>1, <2>2 DEF Shape
<1>9. \A j, k \in DOMAIN s.data : s.data[j] # 0 /\ s.data[j] = s.data[k] => j = k
  <2>1. \A j, k \in 0..(size - 1) : d[j] # 0 /\ d[j] = d[k] => j = k
    BY <1>1 DEF Shape
  <2>2. QED
    BY <1>1, <1>6, <1>7, <2>1
<1>10. /\ \A j \in 1..(m - 1) : s.reusable[j] \in 1..n
       /\ \A j, k \in 1..(m - 1) : s.reusable[j] = s.reusable[k] => j = k
  <2>1. \A j \in 1..(m - 1) : j \in 1..m /\ s.reusable[j] = u[j]
    BY <1>3, <1>5
  <2> HIDE DEF u
  <2>2. QED
    BY <1>4, <2>1
<1>11. ASSUME NEW c \in 1..Len(s.queues)
       PROVE  (\E j \in DOMAIN s.data : s.data[j] = c) <=> (\A j \in 1..(m - 1) : s.reusable[j] # c)
  <2>1. (\E j \in 0..(size - 1) : d[j] = c) <=> (\A j \in 1..m : u[j] # c)
    BY <1>1 DEF Shape, m
  <2>2. CASE c = b
    BY <1>1, <1>3, <1>5, <1>7, <2>2
  <2>3. CASE c # b
    <3>1. (\A j \in 1..m : u[j] # c) <=> (\A j \in 1..(m - 1) : u[j] # c)
      BY <1>2, <2>3
    <3>2. (\E j \in 0..(size - 1) : s.data[j] = c) <=> (\E j \in 0..(size - 1) : d[j] = c)
      <4>1. c # 0
        BY <1>1
      <4>2. QED
        BY <1>7, <2>3, <4>1
    <3>3. QED
      BY <1>1, <1>3, <2>1, <3>1, <3>2
  <2>4. QED
    BY <2>2, <2>3
<1>12. Len(s.queues) <= n
  <2>1. ~(Len(r.queues) > n)
    BY <1>1 DEF Shape
  <2>2. QED
    BY <1>1, <2>1
<1>13. Shape(s, n)
  BY <1>1, <1>3, <1>8, <1>9, <1>10, <1>11, <1>12 DEF Shape
<1>14. QED
  BY <1>1, <1>5, <1>6, <1>13 DEF b

LEMMA IndexInRange ==
    ASSUME TableAssumption, NEW a \in Addresses, NEW size \in Nat \ {0}
    PROVE  Index(a, size) \in 0..(size - 1)
<1>1. Hash[a] \in Nat
  BY DEF TableAssumption
<1>2. \A x \in Nat : x % size \in 0..(size - 1)
  OBVIOUS
<1>3. QED
  BY <1>1, <1>2 DEF Index

(* One round of the loop over the threads: w goes to the end of the queue   *)
(* of the bucket in its place i, which has one from now on.                 *)
Placed(r, s, w, i, size, n) ==
    /\ s \in Shaped(size, n) /\ i \in 0..(size - 1)
    /\ \A j \in 0..(size - 1) : j # i => s.data[j] = r.data[j]
    /\ r.data[i] # 0 => s.data[i] = r.data[i]
    /\ s.data[i] \in 1..Len(s.queues)
    /\ Len(s.queues) >= Len(r.queues)
    /\ s.queues[s.data[i]] = Append(IF s.data[i] \in 1..Len(r.queues) THEN r.queues[s.data[i]] ELSE <<>>, w)
    /\ \A c \in 1..Len(s.queues) : c # s.data[i] => c \in 1..Len(r.queues) /\ s.queues[c] = r.queues[c]

LEMMA RehashedShaped ==
    ASSUME TableAssumption, NEW size \in Nat \ {0}, NEW n \in Nat, NEW r \in Shaped(size, n),
           NEW w \in Threads, address[w] \in Addresses, NEW i, i = Index(address[w], size)
    PROVE  Placed(r, Rehashed(r, w), w, i, size, n)
<1>1. PICK d, u, qs, N : d = r.data /\ u = r.reusable /\ qs = r.queues /\ N = Len(qs)
  OBVIOUS
<1>2. /\ r.size = size /\ d \in [0..(size - 1) -> Nat] /\ u \in Seq(Nat) /\ qs \in Seq(Seq(Threads))
      /\ N \in Nat /\ n <= N
  BY <1>1 DEF Shaped, Making, Shape
<1>3. /\ \A j \in 0..(size - 1) : d[j] <= N
      /\ \A j, k \in 0..(size - 1) : d[j] # 0 /\ d[j] = d[k] => j = k
      /\ \A j \in 1..Len(u) : u[j] \in 1..n
      /\ \A c \in 1..N : (\E j \in 0..(size - 1) : d[j] = c) <=> (\A j \in 1..Len(u) : u[j] # c)
  <2>1. Shape(r, n) /\ DOMAIN r.data = 0..(size - 1)
    BY <1>1, <1>2 DEF Shaped
  <2>2. /\ \A j \in DOMAIN d : d[j] <= N
        /\ \A j, k \in DOMAIN d : d[j] # 0 /\ d[j] = d[k] => j = k
        /\ \A j \in 1..Len(u) : u[j] \in 1..n
    BY <1>1, <2>1 DEF Shape
  <2>3. \A c \in 1..N : (\E j \in DOMAIN d : d[j] = c) <=> (\A j \in 1..Len(u) : u[j] # c)
    BY <1>1, <2>1 DEF Shape
  <2>4. DOMAIN d = 0..(size - 1)
    BY <1>2
  <2>5. QED
    BY <2>2, <2>3, <2>4
<1>4. i \in 0..(size - 1) /\ Index(address[w], r.size) = i
  BY <1>2, IndexInRange
<1>5. PICK b : b = IF d[i] # 0 THEN d[i] ELSE IF u # <<>> THEN Last(u) ELSE N + 1
  OBVIOUS
<1>6. PICK s, e, q : /\ s = Rehashed(r, w) /\ e = (IF b > N THEN Append(qs, <<>>) ELSE qs)
                     /\ q = [e EXCEPT ![b] = Append(@, w)]
  OBVIOUS
<1>7. s = [size |-> size, data |-> [d EXCEPT ![i] = b],
           reusable |-> IF d[i] = 0 /\ u # <<>> THEN Front(u) ELSE u, queues |-> q]
  BY <1>1, <1>2, <1>4, <1>5, <1>6 DEF Rehashed
<1>8. Len(u) \in Nat /\ (u # <<>> => Len(u) >= 1 /\ Last(u) = u[Len(u)] /\ Last(u) \in 1..n)
  <2>1. Len(u) \in Nat /\ (u # <<>> => Len(u) # 0)
    BY <1>2
  <2>2. u # <<>> => Len(u) \in 1..Len(u)
    BY <2>1
  <2>3. Last(u) = u[Len(u)]
    BY DEF Last
  <2>4. QED
    BY <1>3, <2>1, <2>2, <2>3
<1>9. b \in 1..(N + 1) /\ (b = N + 1 => d[i] = 0 /\ u = <<>>)
  <2>1. CASE d[i] # 0
    BY <1>2, <1>3, <1>4, <1>5, <2>1
  <2>2. CASE d[i] = 0 /\ u # <<>>
    BY <1>2, <1>5, <1>8, <2>2
  <2>3. CASE d[i] = 0 /\ u = <<>>
    BY <1>2, <1>5, <2>3
  <2>4. QED
    BY <2>1, <2>2, <2>3
<1>10. /\ e \in Seq(Seq(Threads)) /\ b \in 1..Len(e) /\ Len(e) = (IF b = N + 1 THEN N + 1 ELSE N)
       /\ \A c \in 1..N : e[c] = qs[c]
       /\ b = N + 1 => e[b] = <<>>
  <2>1. CASE b = N + 1
    <3>1. <<>> \in Seq(Threads)
      OBVIOUS
    <3>2. /\ Append(qs, <<>>) \in Seq(Seq(Threads)) /\ Len(Append(qs, <<>>)) = Len(qs) + 1
          /\ Append(qs, <<>>)[Len(qs) + 1] = <<>>
          /\ \A c \in 1..Len(qs) : Append(qs, <<>>)[c] = qs[c]
      BY <1>2, <3>1, AppendProperties
    <3>3. e = Append(qs, <<>>)
      BY <1>2, <1>6, <2>1
    <3>4. QED
      BY <1>1, <1>2, <2>1, <3>2, <3>3
  <2>2. CASE b # N + 1
    <3>1. b \in 1..N /\ ~(b > N)
      BY <1>2, <1>9, <2>2
    <3>2. e = qs
      BY <1>6, <3>1
    <3>3. QED
      BY <1>1, <1>2, <2>2, <3>1, <3>2
  <2>3. QED
    BY <2>1, <2>2
<1>11. /\ q \in Seq(Seq(Threads)) /\ Len(q) = Len(e) /\ q[b] = Append(e[b], w)
       /\ \A c \in 1..Len(e) : c # b => q[c] = e[c]
  <2>1. e[b] \in Seq(Threads)
    BY <1>10
  <2>2. Append(e[b], w) \in Seq(Threads)
    BY <2>1
  <2>3. PICK x \in Seq(Threads) : x = Append(e[b], w)
    BY <2>2
  <2>4. q = [e EXCEPT ![b] = x]
    BY <1>6, <2>3
  <2>5. PICK m \in Nat : m = Len(e)
    BY <1>10
  <2>6. q \in Seq(Seq(Threads)) /\ Len(q) = Len(e)
    <3>1. e \in [1..m -> Seq(Threads)]
      BY <1>10, <2>5
    <3>2. q \in [1..m -> Seq(Threads)]
      BY <2>4, <3>1
    <3> DEFINE T == Seq(Threads)
    <3> HIDE DEF T
    <3>3. \A f \in [1..m -> T] : f \in Seq(T) /\ Len(f) = m
      OBVIOUS
    <3>4. QED
      BY <2>5, <3>2, <3>3 DEF T
  <2>7. q[b] = x /\ \A c \in 1..Len(e) : c # b => q[c] = e[c]
    BY <1>10, <2>4
  <2>8. QED
    BY <2>3, <2>6, <2>7
<1>12. s.size = size /\ s.data = [d EXCEPT ![i] = b] /\ s.queues = q
       /\ s.reusable = IF d[i] = 0 /\ u # <<>> THEN Front(u) ELSE u
  BY <1>7
<1>13. s.data \in [0..(size - 1) -> Nat] /\ s.data[i] = b
       /\ \A j \in 0..(size - 1) : j # i => s.data[j] = d[j]
  <2>1. b \in Nat
    BY <1>2, <1>9
  <2>2. QED
    BY <1>2, <1>4, <1>12, <2>1
<1>14. s.reusable \in Seq(Nat)
  <2>1. CASE d[i] = 0 /\ u # <<>>
    <3>1. Front(u) = [j \in 1..(Len(u) - 1) |-> u[j]]
      BY <1>2 DEF Front
    <3>2. PICK m \in Nat : m = Len(u) - 1
      BY <1>8, <2>1
    <3>3. Front(u) \in Seq(Nat)
      <4>1. \A j \in 1..m : j \in 1..Len(u)
        BY <1>8, <3>2
      <4>2. \A j \in 1..m : u[j] \in Nat
        BY <1>2, <4>1
      <4>3. Front(u) \in [1..m -> Nat]
        BY <3>1, <3>2, <4>2
      <4>4. QED
        BY <4>3, IsSequence
    <3>4. QED
      BY <1>12, <2>1, <3>3
  <2>2. CASE ~(d[i] = 0 /\ u # <<>>)
    BY <1>2, <1>12, <2>2
  <2>3. QED
    BY <2>1, <2>2
<1>15. s \in Making(size)
  BY <1>7, <1>11, <1>12, <1>13, <1>14 DEF Making
<1>16. Shape(s, n)
  <2>1. CASE d[i] # 0
    <3>1. b = d[i] /\ b # N + 1
      BY <1>5, <1>9, <2>1
    <3>2. s.data = d
      BY <1>2, <1>4, <1>12, <3>1
    <3>3. Len(s.queues) = Len(r.queues) /\ s.data = r.data /\ s.reusable = r.reusable
      BY <1>1, <1>10, <1>11, <1>12, <2>1, <3>1, <3>2
    <3>4. Shape(r, n)
      BY DEF Shaped
    <3>5. QED
      BY <3>3, <3>4 DEF Shape
  <2>2. CASE d[i] = 0 /\ u # <<>>
    <3>1. b = Last(u) /\ Len(s.queues) = Len(r.queues)
      BY <1>1, <1>5, <1>9, <1>10, <1>11, <1>12, <2>2
    <3>2. r.data[i] = 0 /\ r.reusable # <<>> /\ s.data = [r.data EXCEPT ![i] = Last(r.reusable)]
          /\ s.reusable = Front(r.reusable)
      BY <1>1, <1>12, <2>2, <3>1
    <3>3. QED
      BY <1>4, <1>15, <3>1, <3>2, TakeLastShaped
  <2>3. CASE d[i] = 0 /\ u = <<>>
    <3>1. b = N + 1 /\ Len(s.queues) = N + 1 /\ s.reusable = <<>> /\ DOMAIN s.data = 0..(size - 1)
      BY <1>5, <1>10, <1>11, <1>12, <1>13, <2>3
    <3>2. Len(s.reusable) = 0
      BY <3>1
    <3>3. ASSUME NEW j \in 0..(size - 1) PROVE s.data[j] <= N + 1
      <4>1. d[j] \in Nat /\ d[j] <= N
        BY <1>2, <1>3
      <4>2. s.data[j] = d[j] \/ s.data[j] = N + 1
        BY <1>13, <3>1
      <4>3. QED
        BY <1>2, <4>1, <4>2
    <3>4. \A j, k \in 0..(size - 1) : s.data[j] # 0 /\ s.data[j] = s.data[k] => j = k
      <4>1. \A j \in 0..(size - 1) : d[j] # N + 1
        BY <1>2, <1>3
      <4>2. \A j \in 0..(size - 1) : s.data[j] = N + 1 => j = i
        BY <1>13, <4>1
      <4>3. \A j \in 0..(size - 1) : j # i => s.data[j] = d[j]
        BY <1>13
      <4>4. s.data[i] = N + 1
        BY <1>13, <3>1
      <4>5. QED
        BY <1>3, <4>2, <4>3, <4>4, Zenon
    <3>5. ASSUME NEW c \in 1..(N + 1) PROVE \E j \in 0..(size - 1) : s.data[j] = c
      <4>1. CASE c = N + 1
        BY <1>4, <1>13, <3>1, <4>1
      <4>2. CASE c # N + 1
        <5>1. c \in 1..N /\ c # 0
          BY <1>2, <4>2
        <5>2. PICK j \in 0..(size - 1) : d[j] = c
          BY <1>3, <2>3, <5>1
        <5>3. QED
          BY <1>13, <2>3, <5>1, <5>2
      <4>3. QED
        BY <4>1, <4>2
    <3>6. Len(s.queues) >= n
      BY <1>2, <3>1
    <3>7. \A j \in 1..Len(s.reusable) : FALSE
      BY <3>2
    <3>8. \A j \in DOMAIN s.data : s.data[j] <= Len(s.queues)
      BY <3>1, <3>3
    <3>9. \A j, k \in DOMAIN s.data : s.data[j] # 0 /\ s.data[j] = s.data[k] => j = k
      BY <3>1, <3>4
    <3>10. \A c \in 1..Len(s.queues) : \E j \in DOMAIN s.data : s.data[j] = c
      BY <3>1, <3>5
    <3>11. QED
      BY <3>1, <3>6, <3>7, <3>8, <3>9, <3>10, Zenon DEF Shape
  <2>4. QED
    BY <2>1, <2>2, <2>3
<1>17. s \in Shaped(size, n)
  BY <1>15, <1>16 DEF Shaped
<1>18. b \in 1..Len(q) /\ Len(q) >= N /\ (d[i] # 0 => b = d[i])
  BY <1>2, <1>5, <1>9, <1>10, <1>11
<1>19. q[b] = Append(IF b \in 1..N THEN qs[b] ELSE <<>>, w)
  <2>1. CASE b = N + 1
    BY <1>2, <1>10, <1>11, <2>1
  <2>2. CASE b # N + 1
    BY <1>2, <1>9, <1>10, <1>11, <2>2
  <2>3. QED
    BY <2>1, <2>2
<1>20. ASSUME NEW c \in 1..Len(q), c # b PROVE c \in 1..N /\ q[c] = qs[c]
  <2>1. q[c] = e[c] /\ c \in 1..Len(e)
    BY <1>11, <1>20
  <2>2. c \in 1..N
    <3>1. CASE b = N + 1
      <4>1. Len(e) = N + 1 /\ c # N + 1 /\ N \in Nat
        BY <1>2, <1>10, <1>20, <3>1
      <4>2. QED
        BY <2>1, <4>1
    <3>2. CASE b # N + 1
      BY <1>10, <2>1, <3>2
    <3>3. QED
      BY <3>1, <3>2
  <2>3. QED
    BY <1>10, <2>1, <2>2
<1>21. Placed(r, s, w, i, size, n)
  <2>1. s.data[i] = b /\ s.queues = q /\ r.data = d /\ r.queues = qs /\ N = Len(qs)
    BY <1>1, <1>12, <1>13
  <2>2. QED
    BY <1>4, <1>13, <1>17, <1>18, <1>19, <1>20, <2>1 DEF Placed
<1>22. QED
  BY <1>6, <1>21

(* The first k threads of ws, and no others, are in the queues, in order.   *)
Content(d, q, size, ws, k) ==
    /\ \A c \in 1..Len(q) : Distinct(q[c])
    /\ \A c \in 1..Len(q) : \A w \in Members(q[c]) : d[Index(address[w], size)] = c
    /\ \A c \in 1..Len(q) : \A w \in Members(q[c]) : \E j \in 1..k : ws[j] = w
    /\ \A j \in 1..k : \E c \in 1..Len(q) : ws[j] \in Members(q[c])
    /\ \A c \in 1..Len(q) : \A v, w \in Members(q[c]) :
          Before(q[c], v, w) => \E i, j \in 1..k : i < j /\ ws[i] = v /\ ws[j] = w

LEMMA RehashedContent ==
    ASSUME TableAssumption, NEW size \in Nat \ {0}, NEW n \in Nat, NEW r \in Shaped(size, n),
           NEW ws \in Seq(Threads), Distinct(ws), \A j \in 1..Len(ws) : address[ws[j]] \in Addresses,
           NEW k \in 1..Len(ws), Content(r.data, r.queues, size, ws, k - 1), NEW s, s = Rehashed(r, ws[k])
    PROVE  s \in Shaped(size, n) /\ Content(s.data, s.queues, size, ws, k)
<1>1. PICK w, i : w = ws[k] /\ i = Index(address[w], size) /\ s = Rehashed(r, w)
  OBVIOUS
<1>2. w \in Threads /\ address[w] \in Addresses /\ Len(ws) \in Nat
  BY <1>1
<1>3. /\ s \in Shaped(size, n) /\ i \in 0..(size - 1)
      /\ \A j \in 0..(size - 1) : j # i => s.data[j] = r.data[j]
      /\ r.data[i] # 0 => s.data[i] = r.data[i]
      /\ s.data[i] \in 1..Len(s.queues)
      /\ Len(s.queues) >= Len(r.queues)
      /\ s.queues[s.data[i]] = Append(IF s.data[i] \in 1..Len(r.queues) THEN r.queues[s.data[i]] ELSE <<>>, w)
      /\ \A c \in 1..Len(s.queues) : c # s.data[i] => c \in 1..Len(r.queues) /\ s.queues[c] = r.queues[c]
  <2>1. Placed(r, s, w, i, size, n)
    BY <1>1, <1>2, RehashedShaped
  <2>2. QED
    BY <2>1 DEF Placed
<1>4. PICK d, e, p, q, b : d = r.data /\ e = s.data /\ p = r.queues /\ q = s.queues /\ b = s.data[i]
  OBVIOUS
<1>5. /\ p \in Seq(Seq(Threads)) /\ q \in Seq(Seq(Threads))
      /\ Len(p) \in Nat /\ Len(q) \in Nat
  <2>1. r \in Making(size) /\ s \in Making(size)
    BY <1>3 DEF Shaped
  <2>2. p \in Seq(Seq(Threads)) /\ q \in Seq(Seq(Threads))
    BY <1>4, <2>1 DEF Making
  <2>3. QED
    BY <2>2
<1>6. /\ \A c \in 1..Len(p) : Distinct(p[c])
      /\ \A c \in 1..Len(p) : \A v \in Members(p[c]) : d[Index(address[v], size)] = c
      /\ \A c \in 1..Len(p) : \A v \in Members(p[c]) : \E j \in 1..(k - 1) : ws[j] = v
      /\ \A j \in 1..(k - 1) : \E c \in 1..Len(p) : ws[j] \in Members(p[c])
      /\ \A c \in 1..Len(p) : \A v, x \in Members(p[c]) :
            Before(p[c], v, x) => \E l, j \in 1..(k - 1) : l < j /\ ws[l] = v /\ ws[j] = x
  <2>1. Content(d, p, size, ws, k - 1)
    BY <1>4
  <2>2. QED
    BY <2>1, Zenon DEF Content
<1>7. PICK o : o = IF b \in 1..Len(p) THEN p[b] ELSE <<>>
  OBVIOUS
<1>8. /\ o \in Seq(Threads) /\ Distinct(o)
      /\ \A v \in Members(o) : d[Index(address[v], size)] = b
      /\ \A v \in Members(o) : \E j \in 1..(k - 1) : ws[j] = v
      /\ \A v, x \in Members(o) :
            Before(o, v, x) => \E l, j \in 1..(k - 1) : l < j /\ ws[l] = v /\ ws[j] = x
  <2>1. CASE b \in 1..Len(p)
    <3>1. o = p[b]
      BY <1>7, <2>1
    <3>2. p[b] \in Seq(Threads)
      BY <1>5, <2>1
    <3>3. /\ Distinct(p[b])
          /\ \A v \in Members(p[b]) : d[Index(address[v], size)] = b
          /\ \A v \in Members(p[b]) : \E j \in 1..(k - 1) : ws[j] = v
      BY <1>6, <2>1, Zenon
    <3>4. \A v, x \in Members(p[b]) :
             Before(p[b], v, x) => \E l, j \in 1..(k - 1) : l < j /\ ws[l] = v /\ ws[j] = x
      BY <1>6, <2>1, Zenon
    <3>5. QED
      BY <3>1, <3>2, <3>3, <3>4
  <2>2. CASE b \notin 1..Len(p)
    <3>1. o = <<>>
      BY <1>7, <2>2
    <3>2. QED
      BY <3>1, EmptyInOrder
  <2>3. QED
    BY <2>1, <2>2
<1>9. /\ b \in 1..Len(q) /\ q[b] = Append(o, w)
      /\ \A c \in 1..Len(q) : c # b => c \in 1..Len(p) /\ q[c] = p[c]
  BY <1>3, <1>4, <1>7
<1>10. \A j \in 1..(k - 1) : ws[j] # w /\ j \in 1..k /\ j < k
  <2>1. \A j \in 1..(k - 1) : j \in 1..Len(ws) /\ j \in 1..k /\ j < k /\ j # k
    BY <1>2
  <2>2. QED
    BY <1>1, <2>1 DEF Distinct
<1>11. w \notin Members(o)
  BY <1>8, <1>10
<1>12. /\ q[b] \in Seq(Threads) /\ Distinct(q[b])
       /\ Members(q[b]) = Members(o) \cup {w}
       /\ \A v, x : Before(q[b], v, x) <=> Before(o, v, x) \/ (v \in Members(o) /\ x = w)
  BY <1>2, <1>8, <1>9, <1>11, AppendInOrder
<1>13. \A c \in 1..Len(q) : Distinct(q[c])
  BY <1>6, <1>9, <1>12
<1>14. ASSUME NEW c \in 1..Len(q), NEW v \in Members(q[c])
       PROVE  e[Index(address[v], size)] = c /\ \E j \in 1..k : ws[j] = v
  <2>1. CASE v = w
    <3>1. c = b
      <4>1. SUFFICES ASSUME c # b PROVE FALSE
        OBVIOUS
      <4>2. c \in 1..Len(p) /\ v \in Members(p[c])
        BY <1>9, <4>1
      <4>3. QED
        BY <1>6, <1>10, <2>1, <4>2
    <3>2. e[Index(address[v], size)] = c
      BY <1>1, <1>4, <2>1, <3>1
    <3>3. k \in 1..k
      BY <1>2
    <3>4. QED
      BY <1>1, <2>1, <3>2, <3>3
  <2>2. CASE v # w
    <3>1. d[Index(address[v], size)] = c /\ \E j \in 1..(k - 1) : ws[j] = v
      <4>1. CASE c = b
        <5>1. v \in Members(o)
          BY <1>12, <2>2, <4>1
        <5>2. QED
          BY <1>8, <4>1, <5>1, Zenon
      <4>2. CASE c # b
        <5>1. c \in 1..Len(p) /\ v \in Members(p[c])
          BY <1>9, <4>2
        <5>2. QED
          BY <1>6, <5>1, Zenon
      <4>3. QED
        BY <4>1, <4>2
    <3>2. \E j \in 1..k : ws[j] = v
      BY <1>10, <3>1
    <3>3. Index(address[v], size) \in 0..(size - 1)
      <4>1. address[v] \in Addresses
        <5>1. PICK j \in 1..k : ws[j] = v
          BY <3>2
        <5>2. j \in 1..Len(ws)
          BY <1>2
        <5>3. QED
          BY <5>1, <5>2
      <4>2. QED
        BY <4>1, IndexInRange
    <3>4. c # 0
      BY <1>5
    <3>5. QED
      BY <1>3, <1>4, <3>1, <3>2, <3>3, <3>4
  <2>3. QED
    BY <2>1, <2>2
<1>15. ASSUME NEW j \in 1..k PROVE \E c \in 1..Len(q) : ws[j] \in Members(q[c])
  <2>1. CASE j = k
    BY <1>1, <1>9, <1>12, <2>1
  <2>2. CASE j # k
    <3>1. j \in 1..(k - 1)
      BY <1>2, <2>2
    <3>2. PICK c \in 1..Len(p) : ws[j] \in Members(p[c])
      BY <1>6, <3>1
    <3>3. c \in 1..Len(q)
      <4>1. Len(q) >= Len(p)
        BY <1>3, <1>4
      <4>2. QED
        BY <1>5, <4>1
    <3>4. CASE c = b
      BY <1>7, <1>9, <1>12, <3>2, <3>4
    <3>5. CASE c # b
      BY <1>9, <3>2, <3>3, <3>5
    <3>6. QED
      BY <3>4, <3>5
  <2>3. QED
    BY <2>1, <2>2
<1>16. ASSUME NEW c \in 1..Len(q), NEW v \in Members(q[c]), NEW x \in Members(q[c]), Before(q[c], v, x)
       PROVE  \E l, j \in 1..k : l < j /\ ws[l] = v /\ ws[j] = x
  <2>1. CASE c # b
    <3>1. c \in 1..Len(p) /\ q[c] = p[c]
      BY <1>9, <2>1
    <3>2. Before(p[c], v, x) /\ v \in Members(p[c]) /\ x \in Members(p[c])
      BY <1>16, <3>1
    <3>3. \E l, j \in 1..(k - 1) : l < j /\ ws[l] = v /\ ws[j] = x
      <4>1. \A y, z \in Members(p[c]) :
               Before(p[c], y, z) => \E l, j \in 1..(k - 1) : l < j /\ ws[l] = y /\ ws[j] = z
        BY <1>6, <3>1, Zenon
      <4>2. QED
        BY <3>2, <4>1
    <3>4. QED
      BY <1>10, <3>3
  <2>2. CASE c = b /\ v \in Members(o) /\ x = w
    <3>1. PICK l \in 1..(k - 1) : ws[l] = v
      BY <1>8, <2>2
    <3>2. l \in 1..k /\ l < k /\ k \in 1..k
      BY <1>2, <1>10
    <3>3. QED
      BY <1>1, <2>2, <3>1, <3>2
  <2>3. CASE c = b /\ Before(o, v, x)
    <3>1. v \in Members(o) /\ x \in Members(o)
      BY <2>3 DEF Before, Members
    <3>2. PICK l \in 1..(k - 1), j \in 1..(k - 1) : l < j /\ ws[l] = v /\ ws[j] = x
      BY <1>8, <2>3, <3>1
    <3>3. QED
      BY <1>10, <3>2
  <2>4. QED
    BY <1>12, <1>16, <2>1, <2>2, <2>3
<1>17. Content(e, q, size, ws, k)
  BY <1>13, <1>14, <1>15, <1>16, Zenon DEF Content
<1>18. QED
  BY <1>3, <1>4, <1>17

\* run is what the loop over ws goes through.
RefillRun(run, r, ws) == run = [k \in 0..Len(ws) |-> IF k = 0 THEN r ELSE Rehashed(run[k - 1], ws[k])]

LEMMA RefilledContent ==
    ASSUME TableAssumption, NEW size \in Nat \ {0}, NEW n \in Nat, NEW r \in Shaped(size, n),
           NEW ws \in Seq(Threads), Distinct(ws), \A j \in 1..Len(ws) : address[ws[j]] \in Addresses,
           Content(r.data, r.queues, size, ws, 0)
    PROVE  /\ Refilled(r, ws) \in Shaped(size, n)
           /\ Content(Refilled(r, ws).data, Refilled(r, ws).queues, size, ws, Len(ws))
<1>1. PICK m, S : m = Len(ws) /\ m \in Nat /\ S = Shaped(size, n)
  OBVIOUS
<1> DEFINE step == [x \in S \X (1..m) |-> Rehashed(x[1], ws[x[2]])]
<1>2. ASSUME NEW x \in S, NEW k \in 1..m PROVE Rehashed(x, ws[k]) \in S
  <2>1. ws[k] \in Threads /\ address[ws[k]] \in Addresses
    BY <1>1
  <2>2. PICK i : i = Index(address[ws[k]], size)
    OBVIOUS
  <2>3. Placed(x, Rehashed(x, ws[k]), ws[k], i, size, n)
    BY <1>1, <2>1, <2>2, RehashedShaped
  <2>4. QED
    BY <1>1, <2>3 DEF Placed
<1>3. step \in [S \X (1..m) -> S] /\ \A x \in S, k \in 1..m : step[<<x, k>>] = Rehashed(x, ws[k])
  BY <1>2
<1> HIDE DEF step
<1>4. PICK f \in [0..m -> S] : f[0] = r /\ \A k \in 1..m : f[k] = step[<<f[k - 1], k>>]
  <2>1. m \in Nat /\ r \in S /\ step \in Steps(S, m)
    BY <1>1, <1>3 DEF Steps
  <2>2. PICK f : LoopRun(f, S, m, step, r)
    BY <2>1, LoopRuns
  <2>3. QED
    BY <2>2 DEF LoopRun
<1>5. \A k \in 0..m : f[k] = IF k = 0 THEN r ELSE Rehashed(f[k - 1], ws[k])
  <2>1. ASSUME NEW k \in 1..m PROVE f[k] = Rehashed(f[k - 1], ws[k])
    <3>1. k - 1 \in 0..m
      BY <1>1
    <3>2. QED
      BY <1>3, <1>4, <3>1
  <2>2. QED
    BY <1>1, <1>4, <2>1
<1>6. RefillRun(f, r, ws)
  BY <1>1, <1>4, <1>5 DEF RefillRun
<1>7. PICK run : RefillRun(run, r, ws) /\ Refilled(r, ws) = run[Len(ws)]
  <2>1. PICK run : run = CHOOSE g : RefillRun(g, r, ws)
    OBVIOUS
  <2>2. RefillRun(run, r, ws)
    BY <1>6, <2>1
  <2>3. Refilled(r, ws) = run[Len(ws)]
    BY <2>1 DEF Refilled, RefillRun
  <2>4. QED
    BY <2>2, <2>3
<1>8. run[0] = r /\ \A k \in 1..m : run[k] = Rehashed(run[k - 1], ws[k])
  <2>1. run = [k \in 0..m |-> IF k = 0 THEN r ELSE Rehashed(run[k - 1], ws[k])]
    BY <1>1, <1>7 DEF RefillRun
  <2>2. 0 \in 0..m /\ \A k \in 1..m : k \in 0..m /\ k # 0
    BY <1>1
  <2>3. QED
    BY <2>1, <2>2
<1> DEFINE P == {k \in 0..m : run[k] \in Shaped(size, n) /\ Content(run[k].data, run[k].queues, size, ws, k)}
<1>9. 0 \in P
  BY <1>1, <1>8
<1>10. ASSUME NEW k \in 1..m, k - 1 \in P PROVE k \in P
  <2>1. PICK x, s : x = run[k - 1] /\ s = run[k]
    OBVIOUS
  <2>2. x \in Shaped(size, n) /\ Content(x.data, x.queues, size, ws, k - 1) /\ s = Rehashed(x, ws[k])
    BY <1>8, <1>10, <2>1
  <2>3. s \in Shaped(size, n) /\ Content(s.data, s.queues, size, ws, k)
    <3>1. k \in 1..Len(ws)
      BY <1>1
    <3>2. QED
      BY <2>2, <3>1, RehashedContent
  <2>4. k \in 0..m
    BY <1>1
  <2>5. QED
    BY <2>1, <2>3, <2>4
<1> HIDE DEF P
<1>11. \A k \in 0..m : k \in P
  BY <1>1, <1>9, <1>10, Induction
<1>12. Len(ws) \in P
  BY <1>1, <1>11
<1>13. QED
  BY <1>7, <1>12 DEF P

(* One round of the loop over the places.                                   *)
Kind(r, s, i, size, n) ==
    /\ s \in Shaped(size, n) /\ s.queues = r.queues
    /\ \A j \in 0..(size - 1) : r.data[j] # 0 => s.data[j] = r.data[j]
    /\ s.reusable = <<>> \/ s.data[i] # 0
    /\ r.reusable = <<>> => s.reusable = <<>>

LEMMA LeftOverShaped ==
    ASSUME NEW size \in Nat \ {0}, NEW n \in Nat, NEW r \in Shaped(size, n), NEW i \in 0..(size - 1)
    PROVE  Kind(r, LeftOver(r, i), i, size, n)
<1>1. CASE r.data[i] # 0 \/ r.reusable = <<>>
  <2>1. LeftOver(r, i) = r
    BY <1>1 DEF LeftOver
  <2>2. Kind(r, r, i, size, n)
    BY <1>1 DEF Kind
  <2>3. QED
    BY <2>1, <2>2
<1>2. CASE r.data[i] = 0 /\ r.reusable # <<>>
  <2>1. PICK s, u : s = LeftOver(r, i) /\ u = r.reusable
    OBVIOUS
  <2>2. r \in Making(size) /\ u \in Seq(Nat) /\ u # <<>> /\ r.data \in [0..(size - 1) -> Nat]
    BY <1>2, <2>1 DEF Shaped, Making
  <2>3. Len(u) \in Nat /\ Len(u) >= 1 /\ Last(u) \in Nat /\ Front(u) \in Seq(Nat)
    <3>1. Len(u) \in Nat /\ Len(u) # 0
      BY <2>2
    <3>2. Len(u) \in 1..Len(u)
      BY <3>1
    <3>3. Last(u) \in Nat
      BY <2>2, <3>2 DEF Last
    <3>4. Front(u) = [j \in 1..(Len(u) - 1) |-> u[j]]
      BY <2>2 DEF Front
    <3>5. Len(u) - 1 \in Nat /\ \A j \in 1..(Len(u) - 1) : u[j] \in Nat
      BY <2>2, <3>1
    <3>6. Front(u) \in Seq(Nat)
      BY <3>4, <3>5
    <3>7. QED
      BY <3>1, <3>3, <3>6
  <2>4. s = [r EXCEPT !.data = [r.data EXCEPT ![i] = Last(u)], !.reusable = Front(u)]
    BY <1>2, <2>1 DEF LeftOver
  <2>5. s.size = r.size /\ s.data = [r.data EXCEPT ![i] = Last(u)] /\ s.reusable = Front(u) /\ s.queues = r.queues
    BY <2>2, <2>4 DEF Making
  <2>6. [r.data EXCEPT ![i] = Last(u)] \in [0..(size - 1) -> Nat]
    BY <2>2, <2>3
  <2>7. s \in Making(size)
    BY <2>2, <2>3, <2>4, <2>6 DEF Making
  <2>8. Shape(s, n) /\ Last(u) \in 1..n
    BY <1>2, <2>1, <2>5, <2>7, TakeLastShaped
  <2>9. s.data[i] = Last(u) /\ \A j \in 0..(size - 1) : j # i => s.data[j] = r.data[j]
    BY <2>2, <2>5
  <2>10. Last(u) # 0
    BY <2>8
  <2>11. Kind(r, s, i, size, n)
    BY <1>2, <2>5, <2>7, <2>8, <2>9, <2>10 DEF Kind, Shaped
  <2>12. QED
    BY <2>1, <2>11
<1>3. QED
  BY <1>1, <1>2

\* run is what the loop over the places goes through.
CompleteRun(run, r) == run = [k \in 0..r.size |-> IF k = 0 THEN r ELSE LeftOver(run[k - 1], k - 1)]

(* All buckets of the old table are in the new one.                         *)
LEMMA CompletedShaped ==
    ASSUME NEW size \in Nat \ {0}, NEW n \in Nat, size > n, NEW r \in Shaped(size, n)
    PROVE  /\ Completed(r) \in Shaped(size, n) /\ Completed(r).queues = r.queues
           /\ Completed(r).reusable = <<>>
           /\ \A j \in 0..(size - 1) : r.data[j] # 0 => Completed(r).data[j] = r.data[j]
<1>1. PICK S : S = Shaped(size, n)
  OBVIOUS
<1>2. r.size = size
  BY DEF Shaped, Making
<1> DEFINE step == [x \in S \X (1..size) |-> LeftOver(x[1], x[2] - 1)]
<1>3. ASSUME NEW x \in S, NEW k \in 1..size PROVE Kind(x, LeftOver(x, k - 1), k - 1, size, n)
  <2>1. k - 1 \in 0..(size - 1)
    OBVIOUS
  <2>2. QED
    BY <1>1, <2>1, LeftOverShaped
<1>4. \A x \in S, k \in 1..size : LeftOver(x, k - 1) \in S
  BY <1>1, <1>3 DEF Kind
<1>5. step \in [S \X (1..size) -> S] /\ \A x \in S, k \in 1..size : step[<<x, k>>] = LeftOver(x, k - 1)
  BY <1>4
<1> HIDE DEF step
<1>6. PICK f \in [0..size -> S] : f[0] = r /\ \A k \in 1..size : f[k] = step[<<f[k - 1], k>>]
  <2>1. size \in Nat /\ r \in S /\ step \in Steps(S, size)
    BY <1>1, <1>5 DEF Steps
  <2>2. PICK f : LoopRun(f, S, size, step, r)
    BY <2>1, LoopRuns
  <2>3. QED
    BY <2>2 DEF LoopRun
<1>7. \A k \in 0..size : f[k] = IF k = 0 THEN r ELSE LeftOver(f[k - 1], k - 1)
  <2>1. ASSUME NEW k \in 1..size PROVE f[k] = LeftOver(f[k - 1], k - 1)
    <3>1. k - 1 \in 0..size
      OBVIOUS
    <3>2. QED
      BY <1>5, <1>6, <3>1
  <2>2. QED
    BY <1>6, <2>1
<1>8. CompleteRun(f, r)
  BY <1>2, <1>6, <1>7 DEF CompleteRun
<1>9. PICK run : CompleteRun(run, r) /\ Completed(r) = run[size]
  <2>1. PICK run : run = CHOOSE g : CompleteRun(g, r)
    OBVIOUS
  <2>2. CompleteRun(run, r)
    BY <1>8, <2>1
  <2>3. Completed(r) = run[r.size]
    BY <2>1 DEF Completed, CompleteRun
  <2>4. QED
    BY <1>2, <2>2, <2>3
<1>10. run[0] = r /\ \A k \in 1..size : run[k] = LeftOver(run[k - 1], k - 1)
  BY <1>2, <1>9 DEF CompleteRun
<1> DEFINE Good(k, s) == /\ s \in S /\ s.queues = r.queues
                         /\ \A j \in 0..(size - 1) : r.data[j] # 0 => s.data[j] = r.data[j]
                         /\ s.reusable = <<>> \/ \A j \in 0..(k - 1) : s.data[j] # 0
           P == {k \in 0..size : Good(k, run[k])}
<1>11. 0 \in P
  BY <1>1, <1>10
<1>12. ASSUME NEW k \in 1..size, k - 1 \in P PROVE k \in P
  <2>1. PICK x, s : x = run[k - 1] /\ s = run[k]
    OBVIOUS
  <2>2. Good(k - 1, x) /\ s = LeftOver(x, k - 1)
    BY <1>10, <1>12, <2>1
  <2>3. Kind(x, s, k - 1, size, n)
    BY <1>3, <2>2
  <2>4. s \in S /\ s.queues = r.queues /\ \A j \in 0..(size - 1) : r.data[j] # 0 => s.data[j] = r.data[j]
    BY <1>1, <2>2, <2>3 DEF Kind
  <2>5. s.reusable = <<>> \/ \A j \in 0..(k - 1) : s.data[j] # 0
    <3>1. SUFFICES ASSUME s.reusable # <<>>, NEW j \in 0..(k - 1) PROVE s.data[j] # 0
      OBVIOUS
    <3>2. CASE j = k - 1
      BY <2>3, <3>1, <3>2 DEF Kind
    <3>3. CASE j # k - 1
      <4>1. j \in 0..((k - 1) - 1) /\ j \in 0..(size - 1)
        BY <3>3
      <4>2. x.reusable # <<>>
        BY <2>3, <3>1 DEF Kind
      <4>3. x.data[j] # 0
        BY <2>2, <4>1, <4>2
      <4>4. QED
        BY <2>3, <4>1, <4>3 DEF Kind
    <3>4. QED
      BY <3>2, <3>3
  <2>6. k \in 0..size
    OBVIOUS
  <2>7. QED
    BY <2>1, <2>4, <2>5, <2>6
<1> HIDE DEF P
<1>13. \A k \in 0..size : k \in P
  BY <1>11, <1>12, Induction
<1>14. PICK s : s = Completed(r)
  OBVIOUS
<1>15. Good(size, s)
  BY <1>9, <1>13, <1>14 DEF P
<1>16. s.reusable = <<>>
  <2>1. SUFFICES ASSUME s.reusable # <<>> PROVE FALSE
    OBVIOUS
  <2>2. \A j \in 0..(size - 1) : s.data[j] # 0
    BY <1>15, <2>1
  <2>3. s \in Making(size) /\ Shape(s, n)
    BY <1>1, <1>15 DEF Shaped
  <2>4. PICK d, N : d = s.data /\ N = Len(s.queues)
    OBVIOUS
  <2>5. d \in [0..(size - 1) -> Nat] /\ N \in Nat
    BY <2>3, <2>4 DEF Making
  <2>6. N <= n
    BY <2>1, <2>3, <2>4, <2>5 DEF Shape
  <2>7. DOMAIN s.data = 0..(size - 1)
    BY <2>4, <2>5
  <2>8. \A j, k \in 0..(size - 1) : d[j] # 0 /\ d[j] = d[k] => j = k
    BY <2>3, <2>4, <2>7 DEF Shape
  <2>9. \A j \in 0..(size - 1) : d[j] <= N
    BY <2>3, <2>4, <2>7 DEF Shape
  <2>10. \A j \in 0..(size - 1) : d[j] \in 1..n
    BY <2>2, <2>4, <2>5, <2>6, <2>9
  <2>11. d \in Injection(0..(size - 1), 1..n)
    BY <2>2, <2>4, <2>5, <2>8, <2>10 DEF Injection, IsInjective
  <2>12. IsFiniteSet(1..n) /\ Cardinality(1..n) = n
    BY FS_Interval
  <2>13. Cardinality(0..(size - 1)) = size
    <3>1. 0 \in Int /\ size - 1 \in Int
      OBVIOUS
    <3>2. Cardinality(0..(size - 1)) = IF 0 > size - 1 THEN 0 ELSE size - 1 - 0 + 1
      BY <3>1, FS_Interval
    <3>3. QED
      BY <3>2
  <2>14. Cardinality(0..(size - 1)) <= n
    BY <2>11, <2>12, FS_Injection
  <2>15. QED
    BY <2>13, <2>14
<1>17. QED
  BY <1>1, <1>14, <1>15, <1>16

(* The new table: its places have different buckets, every bucket has one,  *)
(* and the threads of the old queues are in the new ones.                   *)
NewTableOK(new, size, n, ws) ==
    /\ new.size = size /\ new.data \in [0..(size - 1) -> Nat] /\ new.queues \in Seq(Seq(Threads))
    /\ Len(new.queues) >= n
    /\ \A i \in 0..(size - 1) : new.data[i] <= Len(new.queues)
    /\ \A i, j \in 0..(size - 1) : new.data[i] # 0 /\ new.data[i] = new.data[j] => i = j
    /\ \A b \in 1..Len(new.queues) : \E i \in 0..(size - 1) : new.data[i] = b
    /\ Content(new.data, new.queues, size, ws, Len(ws))

LEMMA ResizedOK ==
    ASSUME TableAssumption, bucketQueue \in Seq(Seq(Threads)), LinkedOnce, NEW bs, bs = 1..Len(bucketQueue),
           \A b \in bs : \A w \in Members(bucketQueue[b]) : address[w] \in Addresses,
           NEW c \in Nat \ {0}, NEW size \in Nat \ {0}, size = c * GrowthFactor * MaxLoadFactor,
           size > Len(bucketQueue)
    PROVE  NewTableOK(Resized(c, bs), size, Len(bucketQueue), Gathered(bs))
<1>1. PICK n, ws : n = Len(bucketQueue) /\ n \in Nat /\ ws = Gathered(bs)
  OBVIOUS
<1>2. /\ ws \in Seq(Threads) /\ Distinct(ws)
      /\ \A w \in Members(ws) : \E b \in bs : w \in Members(bucketQueue[b])
  BY <1>1, GatheredInOrder DEF TableAssumption
<1>3. \A j \in 1..Len(ws) : address[ws[j]] \in Addresses
  <2>1. \A j \in 1..Len(ws) : ws[j] \in Members(ws)
    BY DEF Members
  <2>2. QED
    BY <1>2, <2>1
<1>4. PICK u : u = Sorted(bs)
  OBVIOUS
<1>5. /\ u \in Seq(bs) /\ \A i, j \in 1..Len(u) : u[i] = u[j] => i = j
      /\ \A b \in bs : \E j \in 1..Len(u) : u[j] = b
  <2>1. bs = 1..n /\ bs \in SUBSET Nat
    BY <1>1
  <2>2. IsFiniteSet(1..n)
    BY <1>1, FS_Interval
  <2>3. IsFiniteSet(bs)
    BY <2>1, <2>2
  <2>4. /\ Sorted(bs) \in Seq(bs)
        /\ \A i, j \in 1..Len(Sorted(bs)) : Sorted(bs)[i] = Sorted(bs)[j] => i = j
        /\ \A b \in bs : \E j \in 1..Len(Sorted(bs)) : Sorted(bs)[j] = b
    <3>1. bs \in SUBSET Nat
      BY <2>1
    <3>2. QED
      BY <2>3, <3>1, SortedOnce, Zenon
  <2>5. QED
    BY <1>4, <2>4
<1>6. /\ u \in Seq(Nat) /\ \A j \in 1..Len(u) : u[j] \in 1..n
  <2>1. Len(u) \in Nat /\ \A j \in 1..Len(u) : u[j] \in bs
    BY <1>5
  <2>2. u = [j \in 1..Len(u) |-> u[j]]
    BY <1>5
  <2>3. \A j \in 1..Len(u) : u[j] \in 1..n /\ u[j] \in Nat
    BY <1>1, <2>1
  <2>4. PICK m \in Nat : m = Len(u)
    BY <2>1
  <2>5. u \in [1..m -> Nat]
    BY <2>2, <2>3, <2>4
  <2>6. QED
    BY <2>3, <2>5, IsSequence
<1>7. PICK q : q = [b \in DOMAIN bucketQueue |-> IF b \in bs THEN <<>> ELSE bucketQueue[b]]
  OBVIOUS
<1>8. q \in Seq(Seq(Threads)) /\ Len(q) = n /\ \A b \in 1..n : q[b] = <<>>
  <2>1. DOMAIN bucketQueue = 1..n
    BY <1>1
  <2>2. q = [b \in 1..n |-> <<>>]
    BY <1>1, <1>7, <2>1
  <2>3. <<>> \in Seq(Threads)
    OBVIOUS
  <2>4. q \in [1..n -> Seq(Threads)]
    BY <2>2, <2>3
  <2>5. QED
    BY <1>1, <2>2, <2>4, IsSequence
<1>9. PICK d : d = [i \in 0..(size - 1) |-> 0]
  OBVIOUS
<1>10. PICK r : r = [size |-> size, data |-> d, reusable |-> u, queues |-> q]
  OBVIOUS
<1>11. /\ r \in Making(size) /\ r.size = size /\ r.data = d /\ r.reusable = u /\ r.queues = q
       /\ \A i \in 0..(size - 1) : d[i] = 0
       /\ DOMAIN d = 0..(size - 1)
  <2>1. d \in [0..(size - 1) -> Nat]
    BY <1>9
  <2>2. QED
    BY <1>6, <1>8, <1>9, <1>10, <2>1 DEF Making
<1>12. Shape(r, n)
  <2>1. \A b \in 1..n : b # 0 /\ \E j \in 1..Len(u) : u[j] = b
    <3>1. bs = 1..n /\ \A b \in 1..n : b # 0
      BY <1>1
    <3>2. QED
      BY <1>5, <3>1
  <2>2. \A b \in 1..Len(r.queues) :
          (\E i \in DOMAIN r.data : r.data[i] = b) <=> (\A j \in 1..Len(r.reusable) : r.reusable[j] # b)
    <3>1. SUFFICES ASSUME NEW b \in 1..n
                   PROVE  (\E i \in 0..(size - 1) : d[i] = b) <=> (\A j \in 1..Len(u) : u[j] # b)
      BY <1>8, <1>11
    <3>2. \A i \in 0..(size - 1) : d[i] # b
      BY <1>11, <2>1
    <3>3. QED
      BY <2>1, <3>2
  <2>3. Len(r.queues) = n
    BY <1>8, <1>11
  <2>4. ~(Len(r.queues) > n) /\ Len(r.queues) >= n /\ \A i \in DOMAIN r.data : r.data[i] <= Len(r.queues)
    BY <1>1, <1>11, <2>3
  <2>5. \A i, j \in DOMAIN r.data : r.data[i] # 0 /\ r.data[i] = r.data[j] => i = j
    BY <1>11
  <2>6. /\ \A j \in 1..Len(r.reusable) : r.reusable[j] \in 1..n
        /\ \A i, j \in 1..Len(r.reusable) : r.reusable[i] = r.reusable[j] => i = j
    BY <1>5, <1>6, <1>11
  <2>7. QED
    BY <2>2, <2>4, <2>5, <2>6 DEF Shape
<1>13. r \in Shaped(size, n)
  BY <1>11, <1>12 DEF Shaped
<1>14. Content(r.data, r.queues, size, ws, 0)
  <2>1. \A b \in 1..Len(q) : Distinct(q[b]) /\ Members(q[b]) = {}
    BY <1>8, EmptyInOrder
  <2>2. \A j \in 1..0 : FALSE
    OBVIOUS
  <2>3. Content(d, q, size, ws, 0)
    BY <2>1, <2>2 DEF Content
  <2>4. QED
    BY <1>11, <2>3
<1>15. PICK s : s = Refilled(r, ws)
  OBVIOUS
<1>16. s \in Shaped(size, n) /\ Content(s.data, s.queues, size, ws, Len(ws))
  BY <1>1, <1>2, <1>3, <1>13, <1>14, <1>15, RefilledContent
<1>17. PICK new : new = Completed(s)
  OBVIOUS
<1>18. /\ new \in Shaped(size, n) /\ new.queues = s.queues /\ new.reusable = <<>>
       /\ \A j \in 0..(size - 1) : s.data[j] # 0 => new.data[j] = s.data[j]
  BY <1>1, <1>16, <1>17, CompletedShaped
<1>19. new = Resized(c, bs)
  <2>1. r = [size |-> size, data |-> NewTable(size).data, reusable |-> Sorted(bs),
             queues |-> [b \in DOMAIN bucketQueue |-> IF b \in bs THEN <<>> ELSE bucketQueue[b]]]
    BY <1>4, <1>7, <1>9, <1>10 DEF NewTable
  <2>2. QED
    BY <1>1, <1>15, <1>17, <2>1 DEF Resized
<1>20. PICK e, p : e = new.data /\ p = new.queues
  OBVIOUS
<1>21. /\ new.size = size /\ e \in [0..(size - 1) -> Nat] /\ p \in Seq(Seq(Threads)) /\ Shape(new, n)
       /\ DOMAIN e = 0..(size - 1) /\ Len(p) \in Nat
  <2>1. new \in Making(size) /\ Shape(new, n)
    BY <1>18 DEF Shaped
  <2>2. new.size = size /\ e \in [0..(size - 1) -> Nat] /\ p \in Seq(Seq(Threads))
    BY <1>20, <2>1 DEF Making
  <2>3. QED
    BY <2>1, <2>2
<1>22. /\ Len(p) >= n
       /\ \A i \in 0..(size - 1) : e[i] <= Len(p)
       /\ \A i, j \in 0..(size - 1) : e[i] # 0 /\ e[i] = e[j] => i = j
  BY <1>20, <1>21 DEF Shape
<1>23. \A b \in 1..Len(p) : \E i \in 0..(size - 1) : e[i] = b
  <2>1. \A j \in 1..Len(new.reusable) : FALSE
    BY <1>18
  <2>2. \A b \in 1..Len(p) : (\E i \in DOMAIN e : e[i] = b) <=> \A j \in 1..Len(new.reusable) : new.reusable[j] # b
    BY <1>20, <1>21 DEF Shape
  <2>3. QED
    BY <1>21, <2>1, <2>2
<1>24. Content(e, p, size, ws, Len(ws))
  <2>1. Content(s.data, p, size, ws, Len(ws))
    BY <1>16, <1>18, <1>20
  <2>2. ASSUME NEW b \in 1..Len(p), NEW w \in Members(p[b]) PROVE e[Index(address[w], size)] = b
    <3>1. s.data[Index(address[w], size)] = b /\ \E j \in 1..Len(ws) : ws[j] = w
      BY <2>1 DEF Content
    <3>2. Index(address[w], size) \in 0..(size - 1)
      BY <1>3, <3>1, IndexInRange
    <3>3. b # 0
      BY <1>21
    <3>4. QED
      BY <1>18, <1>20, <3>1, <3>2, <3>3
  <2>3. QED
    BY <2>1, <2>2 DEF Content
<1>25. NewTableOK(new, size, n, ws)
  BY <1>20, <1>21, <1>22, <1>23, <1>24 DEF NewTableOK
<1>26. QED
  BY <1>1, <1>19, <1>25

-----------------------------------------------------------------------------
(* The inductive invariant                                                  *)

Spines == [size : Nat \ {0}, data : UNION {[0..(n - 1) -> Nat] : n \in Nat}]
TypeInv == TypeOK /\ tables \in Seq(Spines)

\* The bucket that table k has for address a, 0 if it has none.
BucketAt(k, a) == tables[k].data[Index(a, tables[k].size)]

\* The places of t's table that it wants the buckets of.
Wanted(t) == IF NeedsAll(t) THEN 0..(tables[mine[t]].size - 1)
             ELSE {Index(target[t], tables[mine[t]].size)}

(* What each place in an operation says of its thread.                      *)
LocalOK(t) ==
    /\ op[t] = "none" <=> pc[t] \notin {"table", "find"}
    /\ IF pc[t] = "find" THEN mine[t] # 0 ELSE mine[t] = 0 /\ buckets[t] = {}
    /\ target[t] \in Addresses <=> op[t] \in {"enqueue", "unparkOne", "unparkAll", "timeout"}
    /\ count[t] # 0 <=> pc[t] = "sizeCheck" \/ op[t] = "rehash"
    /\ address[t] # Null => pc[t] = "parked" \/ (op[t] = "timeout" /\ target[t] = address[t])
    /\ pc[t] = "parked" => address[t] # Null
LocalInv == \A t \in Threads : LocalOK(t)

(* The buckets found are those of the places wanted.                        *)
FoundInv ==
    \A t \in Threads : \A b \in buckets[t] : \E i \in Wanted(t) : tables[mine[t]].data[i] = b

(* Who holds a bucket has found all it wants, and holds every smaller one.  *)
LockInv ==
    \A b \in 1..Len(bucketLock), t \in Threads : bucketLock[b] = t =>
        /\ pc[t] = "find" /\ ToFind(t) = {} /\ b \in buckets[t]
        /\ \A c \in buckets[t] : c < b => bucketLock[c] = t

(* An old spine was full before it was replaced, and its buckets are in the *)
(* next one; so every bucket is in the current one.                         *)
SpineInv ==
    /\ \A k \in 1..(Len(tables) - 1) : tables[k + 1].size > tables[k].size
    /\ \A k \in 1..(Len(tables) - 1) : \A i \in DOMAIN tables[k].data :
          \E j \in DOMAIN tables[k + 1].data : tables[k + 1].data[j] = tables[k].data[i]
    /\ \A k \in 1..Len(tables) : \A i, j \in DOMAIN tables[k].data :
          tables[k].data[i] # 0 /\ tables[k].data[i] = tables[k].data[j] => i = j
    /\ \A k \in 1..(Len(tables) - 1) : \A i \in DOMAIN tables[k].data : tables[k].data[i] # 0
    /\ \A b \in 1..Len(bucketQueue) :
          hashtable # 0 /\ \E i \in DOMAIN tables[hashtable].data : tables[hashtable].data[i] = b

(* A thread that has an address is linked once, where it is looked for.     *)
LinkInv ==
    /\ \A b \in 1..Len(bucketQueue) : \A i \in 1..Len(bucketQueue[b]) :
          /\ address[bucketQueue[b][i]] \in Addresses
          /\ b = BucketAt(hashtable, address[bucketQueue[b][i]])
          /\ \A j \in 1..Len(bucketQueue[b]) : bucketQueue[b][i] = bucketQueue[b][j] => i = j
    /\ \A t \in Threads : address[t] # Null =>
          hashtable # 0 /\ BucketAt(hashtable, address[t]) # 0
          /\ t \in Members(bucketQueue[BucketAt(hashtable, address[t])])

(* The table is large enough, or whoever counted the threads last, or after *)
(* more had come, has yet to look.                                          *)
LoadInv ==
    numThreads > 0 => LargeEnough(hashtable, numThreads) \/ \E t \in Threads : count[t] >= numThreads

Inv == TypeInv /\ LocalInv /\ FoundInv /\ LockInv /\ SpineInv /\ LinkInv /\ LoadInv

-----------------------------------------------------------------------------
(* What the invariant says of a thread that has found or locked its buckets *)

LEMMA SpineTypes ==
    ASSUME TypeInv
    PROVE  /\ hashtable = Len(tables) /\ Len(tables) \in Nat /\ Len(bucketQueue) \in Nat
           /\ \A k \in 1..Len(tables) :
                 /\ tables[k].size \in Nat \ {0}
                 /\ tables[k].data \in [0..(tables[k].size - 1) -> 0..Len(bucketQueue)]
                 /\ DOMAIN tables[k].data = 0..(tables[k].size - 1)
                 /\ \A i \in 0..(tables[k].size - 1) : tables[k].data[i] \in 0..Len(bucketQueue)
                 /\ tables[k] = [size |-> tables[k].size, data |-> tables[k].data]
<1>1. hashtable = Len(tables) /\ Len(tables) \in Nat /\ Len(bucketQueue) \in Nat
  BY DEF TypeInv, TypeOK
<1>2. ASSUME NEW k \in 1..Len(tables)
      PROVE  /\ tables[k].size \in Nat \ {0}
             /\ tables[k].data \in [0..(tables[k].size - 1) -> 0..Len(bucketQueue)]
  BY DEF TypeInv, TypeOK
<1>3. ASSUME NEW k \in 1..Len(tables) PROVE tables[k] = [size |-> tables[k].size, data |-> tables[k].data]
  <2>1. tables[k] \in Spines
    BY DEF TypeInv
  <2>2. QED
    BY <2>1 DEF Spines
<1>4. QED
  BY <1>1, <1>2, <1>3

(* The bucket that a lookup finds.                                          *)
LEMMA BucketAtType ==
    ASSUME TableAssumption, TypeInv, NEW k \in 1..Len(tables), NEW a \in Addresses
    PROVE  /\ Index(a, tables[k].size) \in 0..(tables[k].size - 1)
           /\ BucketAt(k, a) \in 0..Len(bucketQueue)
<1>1. tables[k].size \in Nat \ {0}
  BY SpineTypes
<1>2. Index(a, tables[k].size) \in 0..(tables[k].size - 1)
  BY <1>1, IndexInRange
<1>3. QED
  BY <1>2, SpineTypes DEF BucketAt

(* A thread that has found its buckets has those of all places it wants.    *)
LEMMA FoundAll ==
    ASSUME TableAssumption, Inv, NEW t \in Threads, pc[t] = "find", ToFind(t) = {}
    PROVE  /\ mine[t] \in 1..Len(tables)
           /\ \A i \in Wanted(t) : tables[mine[t]].data[i] # 0 /\ tables[mine[t]].data[i] \in buckets[t]
           /\ \A b \in buckets[t] : \E i \in Wanted(t) : tables[mine[t]].data[i] = b
<1>1. mine[t] \in 1..Len(tables)
  <2>1. mine[t] \in 0..Len(tables) /\ mine[t] # 0
    BY DEF Inv, LocalInv, LocalOK, TypeInv, TypeOK
  <2>2. QED
    BY <2>1, SpineTypes DEF Inv
<1>2. ToFind(t) = {i \in Wanted(t) : tables[mine[t]].data[i] = 0 \/ tables[mine[t]].data[i] \notin buckets[t]}
  BY DEF ToFind, Wanted
<1>3. \A i \in Wanted(t) : tables[mine[t]].data[i] # 0 /\ tables[mine[t]].data[i] \in buckets[t]
  BY <1>2
<1>4. \A b \in buckets[t] : \E i \in Wanted(t) : tables[mine[t]].data[i] = b
  BY DEF Inv, FoundInv
<1>5. QED
  BY <1>1, <1>3, <1>4

(* enqueue() and dequeue() have the one bucket of their address.            *)
LEMMA OneBucket ==
    ASSUME TableAssumption, Inv, NEW t \in Threads, pc[t] = "find", ToFind(t) = {},
           op[t] \in {"enqueue", "unparkOne", "unparkAll", "timeout"}
    PROVE  /\ target[t] \in Addresses /\ mine[t] \in 1..Len(tables)
           /\ BucketAt(mine[t], target[t]) \in 1..Len(bucketQueue)
           /\ buckets[t] = {BucketAt(mine[t], target[t])}
           /\ TheBucket(t) = BucketAt(mine[t], target[t])
<1>1. target[t] \in Addresses
  BY DEF Inv, LocalInv, LocalOK
<1>2. Wanted(t) = {Index(target[t], tables[mine[t]].size)}
  BY DEF Wanted, NeedsAll
<1>3. mine[t] \in 1..Len(tables) /\ TypeInv
  BY FoundAll DEF Inv
<1>4. PICK b : b = BucketAt(mine[t], target[t])
  OBVIOUS
<1>5. b = tables[mine[t]].data[Index(target[t], tables[mine[t]].size)]
  BY <1>4 DEF BucketAt
<1>6. b # 0 /\ b \in buckets[t] /\ \A c \in buckets[t] : c = b
  BY <1>2, <1>5, FoundAll
<1>7. b \in 1..Len(bucketQueue)
  BY <1>1, <1>3, <1>4, <1>6, BucketAtType, SpineTypes
<1>8. buckets[t] = {b} /\ TheBucket(t) = b
  <2>1. buckets[t] = {b}
    BY <1>6
  <2>2. TheBucket(t) \in {b}
    BY <2>1 DEF TheBucket
  <2>3. QED
    BY <2>1, <2>2
<1>9. QED
  BY <1>1, <1>3, <1>4, <1>7, <1>8

(* ensureHashtableSize() and forEach() have every bucket there is, and the  *)
(* table they look at is full.                                              *)
LEMMA AllBuckets ==
    ASSUME TableAssumption, Inv, NEW t \in Threads, pc[t] = "find", ToFind(t) = {},
           op[t] \in {"rehash", "forEach"}, hashtable = mine[t]
    PROVE  /\ hashtable \in 1..Len(tables) /\ buckets[t] = 1..Len(bucketQueue)
           /\ \A i \in 0..(tables[hashtable].size - 1) : tables[hashtable].data[i] # 0
<1>1. /\ hashtable \in 1..Len(tables)
      /\ \A i \in Wanted(t) : tables[hashtable].data[i] # 0 /\ tables[hashtable].data[i] \in buckets[t]
  BY FoundAll
<1>2. Wanted(t) = 0..(tables[hashtable].size - 1)
  BY DEF Wanted, NeedsAll
<1>3. DOMAIN tables[hashtable].data = 0..(tables[hashtable].size - 1)
  BY <1>1, SpineTypes DEF Inv
<1>4. \A b \in 1..Len(bucketQueue) : b \in buckets[t]
  <2>1. \A b \in 1..Len(bucketQueue) : \E i \in DOMAIN tables[hashtable].data : tables[hashtable].data[i] = b
    BY DEF Inv, SpineInv
  <2>2. QED
    BY <1>1, <1>2, <1>3, <2>1
<1>5. buckets[t] \subseteq 1..Len(bucketQueue)
  BY DEF Inv, TypeInv, TypeOK
<1>6. QED
  BY <1>1, <1>2, <1>4, <1>5

(* No thread is linked twice.                                               *)
LEMMA LinkedOnceHolds ==
    ASSUME LinkInv
    PROVE  /\ LinkedOnce
           /\ \A b \in 1..Len(bucketQueue) : Distinct(bucketQueue[b])
           /\ \A b \in 1..Len(bucketQueue) : \A w \in Members(bucketQueue[b]) :
                 address[w] \in Addresses /\ b = BucketAt(hashtable, address[w])
<1>1. LinkedOnce
  <2>1. ASSUME NEW b \in 1..Len(bucketQueue), NEW c \in 1..Len(bucketQueue),
               NEW i \in 1..Len(bucketQueue[b]), NEW j \in 1..Len(bucketQueue[c]),
               bucketQueue[b][i] = bucketQueue[c][j]
        PROVE  b = c /\ i = j
    <3>1. b = c
      BY <2>1 DEF LinkInv
    <3>2. QED
      BY <2>1, <3>1 DEF LinkInv
  <2>2. QED
    BY <2>1 DEF LinkedOnce
<1>2. \A b \in 1..Len(bucketQueue) : Distinct(bucketQueue[b])
  BY DEF LinkInv, Distinct
<1>3. \A b \in 1..Len(bucketQueue) : \A w \in Members(bucketQueue[b]) :
        address[w] \in Addresses /\ b = BucketAt(hashtable, address[w])
  BY DEF LinkInv, Members
<1>4. QED
  BY <1>1, <1>2, <1>3

-----------------------------------------------------------------------------
(* The invariant holds initially                                            *)

LEMMA InitInv == ASSUME TableAssumption PROVE Init => Inv
<1> SUFFICES ASSUME Init PROVE Inv
  OBVIOUS
<1>1. Len(tables) = 0 /\ Len(bucketQueue) = 0 /\ Len(bucketLock) = 0 /\ \A k \in 1..0 : FALSE
  BY DEF Init
<1>2. TypeInv
  <2>1. /\ tables \in Seq(Spines) /\ bucketQueue \in Seq(Seq(Threads)) /\ bucketLock \in Seq(Threads \cup {Null})
    BY DEF Init
  <2>2. numThreads = Cardinality(registered)
    BY FS_EmptySet DEF Init
  <2>3. Cardinality(Threads) \in Nat
    BY FS_CardinalityType DEF TableAssumption
  <2>4. /\ registered \subseteq Threads /\ address \in [Threads -> Addresses \cup {Null}]
        /\ pc \in [Threads -> {"idle", "sizeCheck", "table", "find", "parked", "gone"}]
        /\ op \in [Threads -> {"none", "enqueue", "unparkOne", "unparkAll", "timeout", "rehash", "forEach"}]
        /\ target \in [Threads -> Addresses \cup {Null}]
        /\ buckets \in [Threads -> SUBSET (1..Len(bucketQueue))]
    BY DEF Init
  <2>5. mine \in [Threads -> 0..Len(tables)] /\ count \in [Threads -> 0..Cardinality(Threads)] /\ hashtable = Len(tables)
    BY <1>1, <2>3 DEF Init
  <2>6. QED
    BY <1>1, <2>1, <2>2, <2>4, <2>5 DEF TypeInv, TypeOK
<1>3. LocalInv
  BY DEF Init, LocalInv, LocalOK, TableAssumption
<1>4. FoundInv
  BY DEF Init, FoundInv
<1>5. LockInv
  BY <1>1 DEF LockInv
<1>6. SpineInv
  <2>1. \A k \in 1..(Len(tables) - 1) : FALSE
    BY <1>1
  <2>2. QED
    BY <1>1, <2>1 DEF SpineInv
<1>7. LinkInv
  BY <1>1 DEF Init, LinkInv
<1>8. LoadInv
  BY DEF Init, LoadInv
<1>9. QED
  BY <1>2, <1>3, <1>4, <1>5, <1>6, <1>7, <1>8 DEF Inv

-----------------------------------------------------------------------------
(* What a step leaves alone                                                 *)

\* The step is another thread's than u.
SameFor(u) ==
    /\ pc'[u] = pc[u] /\ op'[u] = op[u] /\ target'[u] = target[u]
    /\ mine'[u] = mine[u] /\ buckets'[u] = buckets[u] /\ count'[u] = count[u]

\* The spines there are stay as they are.
SpinesKept == Len(tables) <= Len(tables') /\ \A k \in 1..Len(tables) : tables'[k] = tables[k]

LEMMA LocalFrame ==
    ASSUME NEW u \in Threads, LocalOK(u), SameFor(u), address'[u] = address[u]
    PROVE  LocalOK(u)'
BY DEF LocalOK, SameFor

(* What u has found and has yet to find.                                    *)
LEMMA FoundFrame ==
    ASSUME Inv, NEW u \in Threads, SpinesKept,
           op'[u] = op[u], target'[u] = target[u], mine'[u] = mine[u], buckets'[u] = buckets[u]
    PROVE  /\ \A b \in buckets'[u] : \E i \in Wanted(u)' : tables'[mine'[u]].data[i] = b
           /\ pc[u] = "find" => ToFind(u)' = ToFind(u)
<1>1. CASE mine[u] = 0
  <2>1. buckets[u] = {} /\ pc[u] # "find"
    BY <1>1 DEF Inv, LocalInv, LocalOK
  <2>2. QED
    BY <2>1
<1>2. CASE mine[u] # 0
  <2>1. mine[u] \in 1..Len(tables)
    BY <1>2, SpineTypes DEF Inv, TypeInv, TypeOK
  <2>2. tables'[mine'[u]] = tables[mine[u]]
    BY <2>1 DEF SpinesKept
  <2>3. Wanted(u)' = Wanted(u)
    BY <2>2 DEF Wanted, NeedsAll
  <2>4. ToFind(u)' = ToFind(u)
    BY <2>2 DEF ToFind, NeedsAll
  <2>5. QED
    BY <2>2, <2>3, <2>4 DEF Inv, FoundInv
<1>3. QED
  BY <1>1, <1>2

LEMMA SpineFrame ==
    ASSUME SpineInv, tables' = tables, hashtable' = hashtable, Len(bucketQueue') = Len(bucketQueue)
    PROVE  SpineInv'
<1>1. /\ \A k \in 1..(Len(tables') - 1) : tables'[k + 1].size > tables'[k].size
      /\ \A k \in 1..(Len(tables') - 1) : \A i \in DOMAIN tables'[k].data :
            \E j \in DOMAIN tables'[k + 1].data : tables'[k + 1].data[j] = tables'[k].data[i]
  <2>1. \A k \in 1..(Len(tables) - 1) : tables[k + 1].size > tables[k].size
    BY DEF SpineInv
  <2>2. \A k \in 1..(Len(tables) - 1) : \A i \in DOMAIN tables[k].data :
           \E j \in DOMAIN tables[k + 1].data : tables[k + 1].data[j] = tables[k].data[i]
    BY DEF SpineInv
  <2>3. QED
    BY <2>1, <2>2
<1>2. /\ \A k \in 1..Len(tables') : \A i, j \in DOMAIN tables'[k].data :
            tables'[k].data[i] # 0 /\ tables'[k].data[i] = tables'[k].data[j] => i = j
      /\ \A k \in 1..(Len(tables') - 1) : \A i \in DOMAIN tables'[k].data : tables'[k].data[i] # 0
  BY DEF SpineInv
<1>3. \A b \in 1..Len(bucketQueue') :
         hashtable' # 0 /\ \E i \in DOMAIN tables'[hashtable'].data : tables'[hashtable'].data[i] = b
  BY DEF SpineInv
<1>4. QED
  BY <1>1, <1>2, <1>3 DEF SpineInv

LEMMA LinkFrame ==
    ASSUME LinkInv, tables' = tables, hashtable' = hashtable, bucketQueue' = bucketQueue, address' = address
    PROVE  LinkInv'
<1>1. \A a : BucketAt(hashtable, a)' = BucketAt(hashtable, a)
  BY DEF BucketAt
<1>2. \A b \in 1..Len(bucketQueue') : \A i \in 1..Len(bucketQueue'[b]) :
         /\ address'[bucketQueue'[b][i]] \in Addresses
         /\ b = BucketAt(hashtable, address[bucketQueue[b][i]])'
         /\ \A j \in 1..Len(bucketQueue'[b]) : bucketQueue'[b][i] = bucketQueue'[b][j] => i = j
  BY DEF LinkInv, BucketAt
<1>3. \A t \in Threads : address'[t] # Null =>
         hashtable' # 0 /\ BucketAt(hashtable, address[t])' # 0
         /\ t \in Members(bucketQueue[BucketAt(hashtable, address[t])])'
  BY DEF LinkInv, BucketAt
<1>4. QED
  BY <1>2, <1>3 DEF LinkInv

(* A step of t outside the table.                                           *)
LEMMA LocalStep ==
    ASSUME Inv, NEW t \in Threads, UNCHANGED shared, UNCHANGED address, pc[t] # "find",
           \A u \in Threads \ {t} : SameFor(u), LocalOK(t)', buckets'[t] = {}
    PROVE  LocalInv' /\ FoundInv' /\ LockInv' /\ SpineInv' /\ LinkInv'
<1> USE DEF shared
<1>1. LocalInv'
  <2>1. \A u \in Threads \ {t} : LocalOK(u)'
    BY LocalFrame DEF Inv, LocalInv
  <2>2. QED
    BY <2>1 DEF LocalInv
<1>2. SpinesKept
  BY SpineTypes DEF SpinesKept, Inv
<1>3. \A u \in Threads \ {t} : /\ \A b \in buckets'[u] : \E i \in Wanted(u)' : tables'[mine'[u]].data[i] = b
                               /\ pc[u] = "find" => ToFind(u)' = ToFind(u)
  BY <1>2, FoundFrame DEF SameFor
<1>4. FoundInv'
  BY <1>3 DEF FoundInv
<1>5. LockInv'
  <2>1. ASSUME NEW b \in 1..Len(bucketLock), NEW u \in Threads, bucketLock[b] = u
        PROVE  /\ pc'[u] = "find" /\ ToFind(u)' = {} /\ b \in buckets'[u]
               /\ \A c \in buckets'[u] : c < b => bucketLock'[c] = u
    <3>1. /\ pc[u] = "find" /\ ToFind(u) = {} /\ b \in buckets[u]
          /\ \A c \in buckets[u] : c < b => bucketLock[c] = u
      BY <2>1 DEF Inv, LockInv
    <3>2. u \in Threads \ {t}
      BY <3>1
    <3>3. QED
      BY <1>3, <3>1, <3>2 DEF SameFor
  <2>2. QED
    BY <2>1 DEF LockInv
<1>6. SpineInv'
  BY SpineFrame DEF Inv
<1>7. LinkInv'
  BY LinkFrame DEF Inv
<1>8. QED
  BY <1>1, <1>4, <1>5, <1>6, <1>7

LEMMA LocalTypes ==
    ASSUME TypeInv, UNCHANGED shared,
           numThreads' = Cardinality(registered'), registered' \subseteq Threads,
           address' \in [Threads -> Addresses \cup {Null}],
           pc' \in [Threads -> {"idle", "sizeCheck", "table", "find", "parked", "gone"}],
           op' \in [Threads -> {"none", "enqueue", "unparkOne", "unparkAll", "timeout", "rehash", "forEach"}],
           target' \in [Threads -> Addresses \cup {Null}],
           mine' \in [Threads -> 0..Len(tables)],
           buckets' \in [Threads -> SUBSET (1..Len(bucketQueue))],
           count' \in [Threads -> 0..Cardinality(Threads)]
    PROVE  TypeInv'
<1>1. tables' = tables /\ hashtable' = hashtable /\ bucketQueue' = bucketQueue /\ bucketLock' = bucketLock
  BY DEF shared
<1>2. /\ \A k \in 1..Len(tables) :
           /\ tables[k].size \in Nat \ {0}
           /\ tables[k].data \in [0..(tables[k].size - 1) -> 0..Len(bucketQueue)]
      /\ hashtable = Len(tables) /\ tables \in Seq(Spines)
      /\ bucketQueue \in Seq(Seq(Threads))
      /\ bucketLock \in Seq(Threads \cup {Null}) /\ Len(bucketLock) = Len(bucketQueue)
  BY DEF TypeInv, TypeOK
<1>3. QED
  BY <1>1, <1>2 DEF TypeInv, TypeOK

LEMMA Times ==
    ASSUME NEW m \in Nat, NEW a \in Nat, NEW b \in Nat, a <= b
    PROVE  m * a \in Nat /\ m * b \in Nat /\ m * a <= m * b
OBVIOUS

(* A table large enough for b threads is so for fewer.                      *)
LEMMA EnoughForFewer ==
    ASSUME TableAssumption, TypeInv, NEW h \in 0..Len(tables), NEW a \in Nat, NEW b \in Nat, a <= b,
           LargeEnough(h, b)
    PROVE  LargeEnough(h, a)
<1>1. h # 0 /\ tables[h].size >= MaxLoadFactor * b
  BY DEF LargeEnough
<1>2. h \in 1..Len(tables)
  BY <1>1, SpineTypes
<1>3. tables[h].size \in Nat
  BY <1>2, SpineTypes
<1>4. MaxLoadFactor * a \in Nat /\ MaxLoadFactor * b \in Nat /\ MaxLoadFactor * a <= MaxLoadFactor * b
  BY Times DEF TableAssumption
<1>5. tables[h].size >= MaxLoadFactor * a
  BY <1>1, <1>3, <1>4
<1>6. QED
  BY <1>1, <1>5 DEF LargeEnough

LEMMA CountTypes ==
    ASSUME TableAssumption, TypeInv
    PROVE  /\ numThreads \in Nat /\ Cardinality(Threads) \in Nat /\ hashtable \in 0..Len(tables)
           /\ \A t \in Threads : count[t] \in Nat
<1>1. Cardinality(Threads) \in Nat
  BY FS_CardinalityType DEF TableAssumption
<1>2. IsFiniteSet(registered)
  BY FS_Subset DEF TableAssumption, TypeInv, TypeOK
<1>3. numThreads \in Nat
  BY <1>2, FS_CardinalityType DEF TypeInv, TypeOK
<1>4. hashtable \in 0..Len(tables)
  BY SpineTypes
<1>5. \A t \in Threads : count[t] \in 0..Cardinality(Threads)
  BY DEF TypeInv, TypeOK
<1>6. QED
  BY <1>1, <1>3, <1>4, <1>5

(* The table is looked at, or t is not who answers for its size.            *)
LEMMA LoadFrame ==
    ASSUME TableAssumption, Inv, NEW t \in Threads, numThreads' = numThreads,
           hashtable' = hashtable, \A k \in 1..Len(tables) : tables'[k].size = tables[k].size,
           \A u \in Threads \ {t} : count'[u] = count[u],
           count'[t] = count[t] \/ LargeEnough(hashtable, count[t])
    PROVE  LoadInv'
<1>1. SUFFICES ASSUME numThreads > 0 PROVE LargeEnough(hashtable, numThreads)' \/ \E u \in Threads : count'[u] >= numThreads'
  BY DEF LoadInv
<1>2. numThreads \in Nat /\ hashtable \in 0..Len(tables) /\ count[t] \in Nat
  BY CountTypes DEF Inv
<1>3. LargeEnough(hashtable, numThreads) => LargeEnough(hashtable, numThreads)'
  <2>1. hashtable # 0 => hashtable \in 1..Len(tables)
    BY <1>2, SpineTypes DEF Inv
  <2>2. QED
    BY <2>1 DEF LargeEnough
<1>4. CASE LargeEnough(hashtable, numThreads)
  BY <1>3, <1>4
<1>5. CASE \E u \in Threads : count[u] >= numThreads
  <2>1. PICK u \in Threads : count[u] >= numThreads
    BY <1>5
  <2>2. CASE u # t \/ count'[t] = count[t]
    BY <2>1, <2>2
  <2>3. CASE u = t /\ LargeEnough(hashtable, count[t])
    <3>1. numThreads <= count[t]
      BY <1>2, <2>1, <2>3
    <3>2. LargeEnough(hashtable, numThreads)
      BY <1>2, <2>3, <3>1, EnoughForFewer DEF Inv
    <3>3. QED
      BY <1>3, <3>2
  <2>4. QED
    BY <2>2, <2>3
<1>6. QED
  BY <1>1, <1>4, <1>5 DEF Inv, LoadInv

-----------------------------------------------------------------------------
(* The steps of a thread outside the table                                  *)

LEMMA ThreadDataMadeInv ==
    ASSUME TableAssumption, Inv, NEW t \in Threads, ThreadDataMade(t)
    PROVE  Inv'
<1> USE DEF ThreadDataMade, Goto
<1>1. LocalOK(t) /\ TypeInv
  BY DEF Inv, LocalInv
<1>2. numThreads \in Nat /\ numThreads + 1 \in 0..Cardinality(Threads) /\ numThreads' = Cardinality(registered')
  <2>1. IsFiniteSet(registered) /\ numThreads = Cardinality(registered) /\ t \notin registered
    BY FS_Subset DEF TableAssumption, Inv, TypeInv, TypeOK
  <2>2. Cardinality(registered \cup {t}) = numThreads + 1
    BY <2>1, FS_AddElement
  <2>3. registered \cup {t} \in SUBSET Threads
    BY DEF Inv, TypeInv, TypeOK
  <2>4. Cardinality(registered \cup {t}) <= Cardinality(Threads)
    BY <2>3, FS_Subset DEF TableAssumption
  <2>5. numThreads \in Nat /\ Cardinality(Threads) \in Nat
    BY CountTypes DEF Inv
  <2>6. QED
    BY <2>2, <2>4, <2>5
<1>3. TypeInv'
  <2>1. /\ registered' \subseteq Threads /\ address' \in [Threads -> Addresses \cup {Null}]
        /\ pc' \in [Threads -> {"idle", "sizeCheck", "table", "find", "parked", "gone"}]
        /\ op' \in [Threads -> {"none", "enqueue", "unparkOne", "unparkAll", "timeout", "rehash", "forEach"}]
        /\ target' \in [Threads -> Addresses \cup {Null}] /\ mine' \in [Threads -> 0..Len(tables)]
        /\ buckets' \in [Threads -> SUBSET (1..Len(bucketQueue))]
    BY <1>1 DEF TypeInv, TypeOK
  <2>2. count' \in [Threads -> 0..Cardinality(Threads)]
    BY <1>1, <1>2 DEF TypeInv, TypeOK
  <2>3. QED
    BY <1>1, <1>2, <2>1, <2>2, LocalTypes
<1>4. \A u \in Threads \ {t} : SameFor(u)
  BY <1>1 DEF SameFor, TypeInv, TypeOK
<1>5. LocalOK(t)' /\ buckets'[t] = {}
  <2>1. pc'[t] = "sizeCheck" /\ count'[t] # 0
    BY <1>1, <1>2 DEF TypeInv, TypeOK
  <2>2. QED
    BY <1>1, <2>1 DEF LocalOK
<1>6. LocalInv' /\ FoundInv' /\ LockInv' /\ SpineInv' /\ LinkInv'
  BY <1>4, <1>5, LocalStep
<1>7. LoadInv'
  <2>1. count'[t] = numThreads'
    BY <1>1 DEF TypeInv, TypeOK
  <2>2. QED
    BY <1>2, <2>1 DEF LoadInv
<1>8. QED
  BY <1>3, <1>6, <1>7 DEF Inv

LEMMA ThreadDataDestroyedInv ==
    ASSUME TableAssumption, Inv, NEW t \in Threads, ThreadDataDestroyed(t)
    PROVE  Inv'
<1> USE DEF ThreadDataDestroyed, Goto
<1>1. LocalOK(t) /\ TypeInv
  BY DEF Inv, LocalInv
<1>2. numThreads \in Nat /\ numThreads' \in Nat /\ numThreads' <= numThreads /\ numThreads' = Cardinality(registered')
  <2>1. IsFiniteSet(registered) /\ numThreads = Cardinality(registered) /\ t \in registered
    BY FS_Subset DEF TableAssumption, Inv, TypeInv, TypeOK
  <2>2. Cardinality(registered \ {t}) = numThreads - 1
    BY <2>1, FS_RemoveElement
  <2>3. IsFiniteSet(registered \ {t})
    BY <2>1, FS_Subset
  <2>4. Cardinality(registered \ {t}) \in Nat
    BY <2>3, FS_CardinalityType
  <2>5. numThreads \in Nat
    BY CountTypes DEF Inv
  <2>6. QED
    BY <2>2, <2>4, <2>5
<1>3. TypeInv'
  <2>1. /\ registered' \subseteq Threads /\ address' \in [Threads -> Addresses \cup {Null}]
        /\ pc' \in [Threads -> {"idle", "sizeCheck", "table", "find", "parked", "gone"}]
        /\ op' \in [Threads -> {"none", "enqueue", "unparkOne", "unparkAll", "timeout", "rehash", "forEach"}]
        /\ target' \in [Threads -> Addresses \cup {Null}] /\ mine' \in [Threads -> 0..Len(tables)]
        /\ buckets' \in [Threads -> SUBSET (1..Len(bucketQueue))]
        /\ count' \in [Threads -> 0..Cardinality(Threads)]
    BY <1>1 DEF TypeInv, TypeOK
  <2>2. QED
    BY <1>1, <1>2, <2>1, LocalTypes
<1>4. \A u \in Threads \ {t} : SameFor(u)
  BY <1>1 DEF SameFor, TypeInv, TypeOK
<1>5. LocalOK(t)' /\ buckets'[t] = {}
  <2>1. pc'[t] = "gone"
    BY <1>1 DEF TypeInv, TypeOK
  <2>2. QED
    BY <1>1, <2>1 DEF LocalOK
<1>6. LocalInv' /\ FoundInv' /\ LockInv' /\ SpineInv' /\ LinkInv'
  BY <1>4, <1>5, LocalStep
<1>7. LoadInv'
  <2>1. SUFFICES ASSUME numThreads' > 0
                 PROVE  LargeEnough(hashtable, numThreads)' \/ \E u \in Threads : count'[u] >= numThreads'
    BY DEF LoadInv
  <2>2. hashtable \in 0..Len(tables) /\ \A u \in Threads : count[u] \in Nat
    BY <1>1, CountTypes
  <2>3. CASE LargeEnough(hashtable, numThreads)
    <3>1. LargeEnough(hashtable, numThreads')
      BY <1>1, <1>2, <2>2, <2>3, EnoughForFewer
    <3>2. QED
      BY <3>1 DEF LargeEnough, shared
  <2>4. CASE \E u \in Threads : count[u] >= numThreads
    <3>1. PICK u \in Threads : count[u] >= numThreads
      BY <2>4
    <3>2. count'[u] >= numThreads'
      BY <1>2, <2>2, <3>1
    <3>3. QED
      BY <3>2
  <2>5. numThreads > 0
    BY <1>2, <2>1
  <2>6. QED
    BY <2>3, <2>4, <2>5 DEF Inv, LoadInv
<1>8. QED
  BY <1>3, <1>6, <1>7 DEF Inv

(* The start of an operation.                                               *)
MayStart(t, o, a) ==
    /\ \/ o \in {"enqueue", "unparkOne", "unparkAll", "timeout"} /\ a \in Addresses
       \/ o \in {"rehash", "forEach"} /\ a = Null
    /\ pc[t] \notin {"table", "find"} /\ (o = "rehash" <=> pc[t] = "sizeCheck")
    /\ address[t] # Null => o = "timeout" /\ a = address[t]

LEMMA StartInv ==
    ASSUME TableAssumption, Inv, NEW t \in Threads, NEW o, NEW a, Start(t, o, a),
           UNCHANGED <<shared, numThreads, registered, address>>, MayStart(t, o, a)
    PROVE  Inv'
<1> USE DEF Start, Goto, MayStart
<1>1. LocalOK(t) /\ TypeInv
  BY DEF Inv, LocalInv
<1>2. TypeInv'
  <2>1. /\ numThreads' = Cardinality(registered')
        /\ registered' \subseteq Threads /\ address' \in [Threads -> Addresses \cup {Null}]
        /\ mine' \in [Threads -> 0..Len(tables)]
        /\ buckets' \in [Threads -> SUBSET (1..Len(bucketQueue))]
        /\ count' \in [Threads -> 0..Cardinality(Threads)]
    BY <1>1 DEF TypeInv, TypeOK
  <2>2. pc' \in [Threads -> {"idle", "sizeCheck", "table", "find", "parked", "gone"}]
    BY <1>1 DEF TypeInv, TypeOK
  <2>3. op' \in [Threads -> {"none", "enqueue", "unparkOne", "unparkAll", "timeout", "rehash", "forEach"}]
    BY <1>1 DEF TypeInv, TypeOK
  <2>4. target' \in [Threads -> Addresses \cup {Null}]
    BY <1>1 DEF TypeInv, TypeOK
  <2>5. QED
    BY <1>1, <2>1, <2>2, <2>3, <2>4, LocalTypes
<1>3. \A u \in Threads \ {t} : SameFor(u)
  BY <1>1 DEF SameFor, TypeInv, TypeOK
<1>4. LocalOK(t)' /\ buckets'[t] = {}
  <2>1. pc'[t] = "table" /\ op'[t] = o /\ target'[t] = a
    BY <1>1 DEF TypeInv, TypeOK
  <2>2. /\ mine'[t] = 0 /\ buckets'[t] = {} /\ count'[t] = count[t]
        /\ address'[t] # Null => o = "timeout" /\ a = address'[t]
        /\ op[t] = "none" /\ (count[t] # 0 <=> pc[t] = "sizeCheck")
    BY <1>1 DEF LocalOK
  <2>3. Null \notin Addresses
    BY DEF TableAssumption
  <2>4. QED
    BY <2>1, <2>2, <2>3 DEF LocalOK
<1>5. LocalInv' /\ FoundInv' /\ LockInv' /\ SpineInv' /\ LinkInv'
  BY <1>3, <1>4, LocalStep
<1>6. LoadInv'
  BY LoadFrame DEF shared
<1>7. QED
  BY <1>2, <1>5, <1>6 DEF Inv

(* The end of an operation.                                                 *)
LEMMA ForgetTypes ==
    ASSUME TableAssumption, TypeInv, NEW t \in Threads, ForgetLocals(t)
    PROVE  /\ op' \in [Threads -> {"none", "enqueue", "unparkOne", "unparkAll", "timeout", "rehash", "forEach"}]
           /\ target' \in [Threads -> Addresses \cup {Null}]
           /\ mine' \in [Threads -> 0..Len(tables)]
           /\ buckets' \in [Threads -> SUBSET (1..Len(bucketQueue))]
           /\ count' \in [Threads -> 0..Cardinality(Threads)]
<1>1. PICK M, C : M = 0..Len(tables) /\ C = 0..Cardinality(Threads)
  OBVIOUS
<1>2. 0 \in M /\ 0 \in C /\ mine \in [Threads -> M] /\ count \in [Threads -> C]
  BY <1>1, CountTypes, SpineTypes DEF TypeInv, TypeOK
<1>3. mine' \in [Threads -> M] /\ count' \in [Threads -> C]
  BY <1>2 DEF ForgetLocals
<1>4. /\ op' \in [Threads -> {"none", "enqueue", "unparkOne", "unparkAll", "timeout", "rehash", "forEach"}]
      /\ target' \in [Threads -> Addresses \cup {Null}]
  BY DEF TypeInv, TypeOK, ForgetLocals
<1>5. buckets' \in [Threads -> SUBSET (1..Len(bucketQueue))]
  BY DEF TypeInv, TypeOK, ForgetLocals
<1>6. QED
  BY <1>1, <1>3, <1>4, <1>5

LEMMA FinishTypes ==
    ASSUME TableAssumption, TypeInv, NEW t \in Threads, NEW label \in {"idle", "parked"}, Finish(t, label)
    PROVE  /\ pc' \in [Threads -> {"idle", "sizeCheck", "table", "find", "parked", "gone"}]
           /\ op' \in [Threads -> {"none", "enqueue", "unparkOne", "unparkAll", "timeout", "rehash", "forEach"}]
           /\ target' \in [Threads -> Addresses \cup {Null}]
           /\ mine' \in [Threads -> 0..Len(tables)]
           /\ buckets' \in [Threads -> SUBSET (1..Len(bucketQueue))]
           /\ count' \in [Threads -> 0..Cardinality(Threads)]
<1>1. ForgetLocals(t)
  BY DEF Finish
<1>2. pc' \in [Threads -> {"idle", "sizeCheck", "table", "find", "parked", "gone"}]
  BY DEF TypeInv, TypeOK, Finish, Goto
<1>3. QED
  BY <1>1, <1>2, ForgetTypes

LEMMA FinishLocals ==
    ASSUME TableAssumption, TypeInv, NEW t \in Threads, NEW label \in {"idle", "parked"}, Finish(t, label)
    PROVE  /\ \A u \in Threads \ {t} : SameFor(u)
           /\ buckets'[t] = {} /\ op'[t] = "none"
           /\ (address'[t] = Null <=> label = "idle") => LocalOK(t)'
<1>1. \A u \in Threads \ {t} : SameFor(u)
  BY DEF SameFor, TypeInv, TypeOK, Finish, Goto, ForgetLocals
<1>2. /\ pc'[t] = label /\ op'[t] = "none" /\ target'[t] = Null /\ mine'[t] = 0
      /\ buckets'[t] = {} /\ count'[t] = 0
  BY DEF TypeInv, TypeOK, Finish, Goto, ForgetLocals
<1>3. Null \notin Addresses
  BY DEF TableAssumption
<1>4. (address'[t] = Null <=> label = "idle") => LocalOK(t)'
  BY <1>2, <1>3 DEF LocalOK
<1>5. QED
  BY <1>1, <1>2, <1>4

LEMMA SizeCheckInv ==
    ASSUME TableAssumption, Inv, NEW t \in Threads, SizeCheck(t)
    PROVE  Inv'
<1>1. LocalOK(t) /\ TypeInv
  BY DEF Inv, LocalInv
<1>2. CASE LargeEnough(hashtable, count[t])
  <2>0. /\ pc[t] = "sizeCheck" /\ Finish(t, "idle") /\ UNCHANGED <<shared, numThreads, registered, address>>
        /\ UNCHANGED shared /\ UNCHANGED address /\ pc[t] # "find"
    BY <1>2 DEF SizeCheck
  <2>1. TypeInv'
    <3>1. /\ numThreads' = Cardinality(registered')
          /\ registered' \subseteq Threads /\ address' \in [Threads -> Addresses \cup {Null}]
      BY <1>1, <2>0 DEF TypeInv, TypeOK
    <3>2. QED
      BY <1>1, <2>0, <3>1, FinishTypes, LocalTypes
  <2>2. \A u \in Threads \ {t} : SameFor(u)
    BY <1>1, <2>0, FinishLocals
  <2>3. LocalOK(t)' /\ buckets'[t] = {}
    <3>1. address'[t] = Null
      BY <1>1, <2>0 DEF LocalOK
    <3>2. QED
      BY <1>1, <2>0, <3>1, FinishLocals
  <2>4. LocalInv' /\ FoundInv' /\ LockInv' /\ SpineInv' /\ LinkInv'
    BY <2>0, <2>2, <2>3, LocalStep
  <2>5. LoadInv'
    BY <1>2, <2>0, <2>2, LoadFrame DEF shared, SameFor
  <2>6. QED
    BY <2>1, <2>4, <2>5 DEF Inv
<1>3. CASE ~LargeEnough(hashtable, count[t])
  <2>1. Start(t, "rehash", Null) /\ UNCHANGED <<shared, numThreads, registered, address>> /\ pc[t] = "sizeCheck"
    BY <1>3 DEF SizeCheck
  <2>2. address[t] = Null
    BY <1>1, <2>1 DEF LocalOK
  <2>3. MayStart(t, "rehash", Null)
    BY <2>1, <2>2 DEF MayStart
  <2>4. QED
    BY <2>1, <2>3, StartInv
<1>4. QED
  BY <1>2, <1>3

LEMMA OperationStartInv ==
    ASSUME TableAssumption, Inv, NEW t \in Threads,
           (\E a \in Addresses : ParkStart(t, a)) \/ TimeoutStart(t) \/ UnparkStart(t)
    PROVE  Inv'
<1>1. LocalOK(t)
  BY DEF Inv, LocalInv
<1>2. ASSUME NEW a \in Addresses, ParkStart(t, a) PROVE Inv'
  <2>1. Start(t, "enqueue", a) /\ UNCHANGED <<shared, numThreads, registered, address>> /\ pc[t] = "idle"
    BY <1>2 DEF ParkStart
  <2>2. address[t] = Null
    BY <1>1, <2>1 DEF LocalOK
  <2>3. MayStart(t, "enqueue", a)
    BY <2>1, <2>2 DEF MayStart
  <2>4. QED
    BY <2>1, <2>3, StartInv
<1>3. ASSUME TimeoutStart(t) PROVE Inv'
  <2>1. Start(t, "timeout", address[t]) /\ UNCHANGED <<shared, numThreads, registered, address>> /\ pc[t] = "parked"
    BY <1>3 DEF TimeoutStart
  <2>2. address[t] \in Addresses
    BY <1>1, <2>1 DEF LocalOK, Inv, TypeInv, TypeOK
  <2>3. MayStart(t, "timeout", address[t])
    BY <2>1, <2>2 DEF MayStart
  <2>4. QED
    BY <2>1, <2>3, StartInv
<1>4. ASSUME UnparkStart(t) PROVE Inv'
  <2>1. pc[t] = "idle" /\ UNCHANGED <<shared, numThreads, registered, address>>
    BY <1>4 DEF UnparkStart
  <2>2. address[t] = Null
    BY <1>1, <2>1 DEF LocalOK
  <2>3. CASE \E a \in Addresses, o \in {"unparkOne", "unparkAll"} : Start(t, o, a)
    <3>1. PICK a \in Addresses, o \in {"unparkOne", "unparkAll"} : Start(t, o, a)
      BY <2>3
    <3>2. MayStart(t, o, a)
      BY <2>1, <2>2 DEF MayStart
    <3>3. QED
      BY <2>1, <3>1, <3>2, StartInv
  <2>4. CASE Start(t, "forEach", Null)
    <3>1. MayStart(t, "forEach", Null)
      BY <2>1, <2>2 DEF MayStart
    <3>2. QED
      BY <2>1, <2>4, <3>1, StartInv
  <2>5. QED
    BY <1>4, <2>3, <2>4 DEF UnparkStart
<1>5. QED
  BY <1>2, <1>3, <1>4

-----------------------------------------------------------------------------
(* Finding and locking buckets                                              *)

LEMMA AppendSpine ==
    ASSUME TypeInv, NEW s \in Spines
    PROVE  /\ Append(tables, s) \in Seq(Spines) /\ Len(Append(tables, s)) = Len(tables) + 1
           /\ \A k \in 1..Len(tables) : Append(tables, s)[k] = tables[k]
           /\ Append(tables, s)[Len(tables) + 1] = s
BY AppendProperties DEF TypeInv

LEMMA EnsureHashtableInv ==
    ASSUME TableAssumption, Inv, NEW t \in Threads, EnsureHashtable(t)
    PROVE  Inv'
<1>1. LocalOK(t) /\ TypeInv
  BY DEF Inv, LocalInv
<1>2. /\ pc[t] = "table" /\ mine' = [mine EXCEPT ![t] = hashtable'] /\ pc' = [pc EXCEPT ![t] = "find"]
      /\ bucketQueue' = bucketQueue /\ bucketLock' = bucketLock /\ numThreads' = numThreads
      /\ registered' = registered /\ address' = address /\ op' = op /\ target' = target
      /\ buckets' = buckets /\ count' = count
  BY DEF EnsureHashtable, Goto
<1>3. Len(tables) \in Nat /\ hashtable = Len(tables)
  BY <1>1, SpineTypes
<1> DEFINE s == NewTable(MaxLoadFactor)
<1>4. /\ s \in Spines /\ s.size = MaxLoadFactor /\ MaxLoadFactor \in Nat \ {0}
      /\ s.data \in [0..(MaxLoadFactor - 1) -> {0}] /\ DOMAIN s.data = 0..(MaxLoadFactor - 1)
      /\ \A i \in 0..(MaxLoadFactor - 1) : s.data[i] = 0
  BY DEF NewTable, Spines, TableAssumption
<1> HIDE DEF s
<1>5. \/ hashtable # 0 /\ tables' = tables /\ hashtable' = hashtable
      \/ hashtable = 0 /\ tables' = Append(tables, s) /\ hashtable' = 1
  BY <1>3 DEF EnsureHashtable, s
<1>6. /\ SpinesKept /\ hashtable' = Len(tables') /\ hashtable' \in Nat \ {0} /\ tables' \in Seq(Spines)
      /\ \A k \in 1..Len(tables') :
            \/ k \in 1..Len(tables) /\ tables'[k] = tables[k]
            \/ hashtable = 0 /\ k = 1 /\ tables'[k] = s
  <2>1. CASE hashtable # 0 /\ tables' = tables /\ hashtable' = hashtable
    BY <1>1, <1>3, <2>1 DEF SpinesKept, TypeInv
  <2>2. CASE hashtable = 0 /\ tables' = Append(tables, s) /\ hashtable' = 1
    <3>1. tables' \in Seq(Spines) /\ Len(tables') = 1 /\ tables'[1] = s
      BY <1>1, <1>3, <1>4, <2>2, AppendSpine
    <3>2. \A k \in 1..Len(tables') : k = 1
      BY <3>1
    <3>3. SpinesKept
      BY <1>3, <2>2, <3>1 DEF SpinesKept
    <3>4. QED
      BY <2>2, <3>1, <3>2, <3>3
  <2>3. QED
    BY <1>5, <2>1, <2>2
<1>7. TypeInv'
  <2>1. \A k \in 1..Len(tables') : /\ tables'[k].size \in Nat \ {0}
                                   /\ tables'[k].data \in [0..(tables'[k].size - 1) -> 0..Len(bucketQueue')]
    <3>1. ASSUME NEW k \in 1..Len(tables')
          PROVE  /\ tables'[k].size \in Nat \ {0}
                 /\ tables'[k].data \in [0..(tables'[k].size - 1) -> 0..Len(bucketQueue')]
      <4>1. CASE k \in 1..Len(tables) /\ tables'[k] = tables[k]
        BY <1>1, <1>2, <4>1, SpineTypes
      <4>2. CASE tables'[k] = s
        <5>1. 0 \in 0..Len(bucketQueue)
          BY <1>1, SpineTypes
        <5>2. s.data \in [0..(MaxLoadFactor - 1) -> 0..Len(bucketQueue)]
          BY <1>4, <5>1
        <5>3. QED
          BY <1>2, <1>4, <4>2, <5>2
      <4>3. QED
        BY <1>6, <4>1, <4>2
    <3>2. QED
      BY <3>1
  <2>2. mine' \in [Threads -> 0..Len(tables')]
    <3>1. \A u \in Threads : mine[u] \in 0..Len(tables')
      BY <1>1, <1>3, <1>6 DEF SpinesKept, TypeInv, TypeOK
    <3>2. hashtable' \in 0..Len(tables')
      BY <1>6
    <3>3. mine \in [Threads -> 0..Len(tables)]
      BY <1>1 DEF TypeInv, TypeOK
    <3>4. QED
      BY <1>2, <3>1, <3>2, <3>3
  <2>3. pc' \in [Threads -> {"idle", "sizeCheck", "table", "find", "parked", "gone"}]
    BY <1>1, <1>2 DEF TypeInv, TypeOK
  <2>4. QED
    BY <1>1, <1>2, <1>6, <2>1, <2>2, <2>3 DEF TypeInv, TypeOK
<1>8. pc'[t] = "find" /\ mine'[t] = hashtable' /\ \A u \in Threads \ {t} : SameFor(u)
  BY <1>1, <1>2 DEF SameFor, TypeInv, TypeOK
<1>9. LocalInv'
  <2>1. LocalOK(t)'
    BY <1>1, <1>2, <1>6, <1>8 DEF LocalOK
  <2>2. \A u \in Threads \ {t} : LocalOK(u)'
    BY <1>2, <1>8, LocalFrame DEF Inv, LocalInv
  <2>3. QED
    BY <2>1, <2>2 DEF LocalInv
<1>10. \A u \in Threads \ {t} : /\ \A b \in buckets'[u] : \E i \in Wanted(u)' : tables'[mine'[u]].data[i] = b
                                /\ pc[u] = "find" => ToFind(u)' = ToFind(u)
  BY <1>6, <1>8, FoundFrame DEF SameFor
<1>11. FoundInv'
  <2>1. buckets'[t] = {}
    BY <1>1, <1>2 DEF LocalOK
  <2>2. QED
    BY <1>10, <2>1 DEF FoundInv
<1>12. LockInv'
  <2>1. ASSUME NEW b \in 1..Len(bucketLock), NEW u \in Threads, bucketLock[b] = u
        PROVE  /\ pc'[u] = "find" /\ ToFind(u)' = {} /\ b \in buckets'[u]
               /\ \A c \in buckets'[u] : c < b => bucketLock'[c] = u
    <3>1. /\ pc[u] = "find" /\ ToFind(u) = {} /\ b \in buckets[u]
          /\ \A c \in buckets[u] : c < b => bucketLock[c] = u
      BY <2>1 DEF Inv, LockInv
    <3>2. u \in Threads \ {t}
      BY <1>2, <3>1
    <3>3. QED
      BY <1>2, <1>8, <1>10, <3>1, <3>2 DEF SameFor
  <2>2. QED
    BY <1>2, <2>1 DEF LockInv
<1>13. CASE hashtable # 0
  <2>1. tables' = tables /\ hashtable' = hashtable
    BY <1>5, <1>13
  <2>2. SpineInv' /\ LinkInv'
    <3>1. SpineInv'
      BY <1>2, <2>1, SpineFrame DEF Inv
    <3>2. LinkInv'
      BY <1>2, <2>1 DEF Inv, LinkInv, BucketAt
    <3>3. QED
      BY <3>1, <3>2
  <2>3. LoadInv'
    BY <1>2, <2>1, LoadFrame
  <2>4. QED
    BY <1>7, <1>9, <1>11, <1>12, <2>2, <2>3 DEF Inv
<1>14. CASE hashtable = 0
  <2>1. tables' = Append(tables, s) /\ hashtable' = 1
    BY <1>5, <1>14
  <2>2. Len(tables') = 1 /\ tables'[1] = s
    BY <1>1, <1>3, <1>4, <1>14, <2>1, AppendSpine
  <2>3. \A b \in 1..Len(bucketQueue) : FALSE
    BY <1>14 DEF Inv, SpineInv
  <2>4. \A u \in Threads : address[u] = Null
    BY <1>14 DEF Inv, LinkInv
  <2>5. SpineInv'
    <3>1. \A k \in 1..(Len(tables') - 1) : FALSE
      BY <2>2
    <3>2. ASSUME NEW k \in 1..Len(tables'), NEW i \in DOMAIN tables'[k].data, NEW j \in DOMAIN tables'[k].data,
                 tables'[k].data[i] # 0
          PROVE  FALSE
      <4>1. tables'[k] = s
        BY <2>2
      <4>2. QED
        BY <1>4, <3>2, <4>1
    <3>3. QED
      BY <1>2, <2>3, <3>1, <3>2 DEF SpineInv
  <2>6. LinkInv'
    BY <1>2, <2>3, <2>4 DEF LinkInv
  <2>7. LoadInv'
    BY <1>2, <1>14 DEF Inv, LoadInv, LargeEnough
  <2>8. QED
    BY <1>7, <1>9, <1>11, <1>12, <2>5, <2>6, <2>7 DEF Inv
<1>15. QED
  BY <1>13, <1>14

LEMMA LockBucketInv ==
    ASSUME TableAssumption, Inv, NEW t \in Threads, LockBucket(t)
    PROVE  Inv'
<1>1. TypeInv /\ LockInv
  BY DEF Inv
<1>2. /\ pc[t] = "find" /\ ToFind(t) = {} /\ tables' = tables /\ hashtable' = hashtable
      /\ bucketQueue' = bucketQueue /\ numThreads' = numThreads /\ registered' = registered
      /\ address' = address /\ pc' = pc /\ op' = op /\ target' = target /\ mine' = mine
      /\ buckets' = buckets /\ count' = count
  BY DEF LockBucket, locals
<1>3. PICK b \in NextToLock(t) : bucketLock[b] = Null /\ bucketLock' = [bucketLock EXCEPT ![b] = t]
  BY DEF LockBucket
<1>4. b \in buckets[t] /\ \A c \in buckets[t] : bucketLock[c] # t => b <= c
  BY DEF NextToLock, Held
<1>5. /\ Len(bucketQueue) \in Nat /\ b \in 1..Len(bucketLock) /\ buckets[t] \subseteq 1..Len(bucketLock)
      /\ Len(bucketLock) = Len(bucketQueue)
  BY <1>1, <1>4, SpineTypes DEF TypeInv, TypeOK
<1>6. /\ bucketLock' \in Seq(Threads \cup {Null}) /\ Len(bucketLock') = Len(bucketLock)
      /\ bucketLock'[b] = t /\ \A c \in 1..Len(bucketLock) : c # b => bucketLock'[c] = bucketLock[c]
  <2>1. PICK n \in Nat : n = Len(bucketLock)
    BY <1>5
  <2>2. bucketLock \in [1..n -> Threads \cup {Null}]
    BY <1>1, <2>1 DEF TypeInv, TypeOK
  <2>3. bucketLock' \in [1..n -> Threads \cup {Null}]
    BY <1>3, <1>5, <2>1, <2>2
  <2>4. bucketLock' \in Seq(Threads \cup {Null}) /\ Len(bucketLock') = n
    BY <2>3, IsSequence
  <2>5. QED
    BY <1>3, <1>5, <2>1, <2>2, <2>4
<1>7. TypeInv'
  BY <1>1, <1>2, <1>5, <1>6 DEF TypeInv, TypeOK
<1>8. LocalInv' /\ FoundInv'
  <2>1. LocalInv'
    BY <1>2 DEF Inv, LocalInv, LocalOK
  <2>2. FoundInv'
    BY <1>2 DEF Inv, FoundInv, Wanted, NeedsAll
  <2>3. QED
    BY <2>1, <2>2
<1>9. SpineInv' /\ LinkInv' /\ LoadInv'
  <2>1. SpineInv'
    BY <1>2, SpineFrame DEF Inv
  <2>2. LinkInv'
    BY <1>2, LinkFrame DEF Inv
  <2>3. LoadInv'
    BY <1>2 DEF Inv, LoadInv, LargeEnough
  <2>4. QED
    BY <2>1, <2>2, <2>3
<1>10. \A u : ToFind(u)' = ToFind(u)
  BY <1>2 DEF ToFind, NeedsAll
<1>11. ASSUME NEW c \in 1..Len(bucketLock), NEW u \in Threads, bucketLock'[c] = u
       PROVE  /\ pc'[u] = "find" /\ ToFind(u)' = {} /\ c \in buckets'[u]
              /\ \A d \in buckets'[u] : d < c => bucketLock'[d] = u
  <2>1. CASE c = b
    <3>1. ASSUME NEW d \in buckets[t], d < b PROVE bucketLock'[d] = t
      <4>1. d \in 1..Len(bucketLock)
        BY <1>5
      <4>2. ~(b <= d)
        BY <1>5, <3>1, <4>1
      <4>3. bucketLock[d] = t
        BY <1>4, <4>2
      <4>4. QED
        BY <1>3, <1>6, <4>1, <4>3
    <3>2. QED
      BY <1>2, <1>4, <1>6, <1>10, <1>11, <2>1, <3>1
  <2>2. CASE c # b
    <3>1. bucketLock[c] = u
      BY <1>6, <1>11, <2>2
    <3>2. /\ pc[u] = "find" /\ ToFind(u) = {} /\ c \in buckets[u]
          /\ \A d \in buckets[u] : d < c => bucketLock[d] = u
      BY <1>1, <3>1 DEF LockInv
    <3>3. buckets[u] \subseteq 1..Len(bucketLock)
      BY <1>1, <1>5 DEF TypeInv, TypeOK
    <3>4. ASSUME NEW d \in buckets[u], d < c PROVE bucketLock'[d] = u
      <4>1. bucketLock[d] = u /\ u # Null /\ d \in 1..Len(bucketLock)
        BY <3>2, <3>3, <3>4 DEF TableAssumption
      <4>2. d # b
        BY <1>3, <4>1
      <4>3. QED
        BY <1>6, <4>1, <4>2
    <3>5. QED
      BY <1>2, <1>10, <3>2, <3>4
  <2>3. QED
    BY <2>1, <2>2
<1>12. LockInv'
  BY <1>6, <1>11 DEF LockInv
<1>13. QED
  BY <1>7, <1>8, <1>9, <1>12 DEF Inv

LEMMA WantedPlaces ==
    ASSUME TableAssumption, Inv, NEW t \in Threads, pc[t] = "find"
    PROVE  mine[t] \in 1..Len(tables) /\ Wanted(t) \subseteq 0..(tables[mine[t]].size - 1)
<1>1. TypeInv /\ LocalOK(t)
  BY DEF Inv, LocalInv
<1>2. mine[t] \in 1..Len(tables)
  BY <1>1, SpineTypes DEF LocalOK, TypeInv, TypeOK
<1>3. PICK m : m = tables[mine[t]].size /\ m \in Nat \ {0}
  BY <1>1, <1>2, SpineTypes
<1>4. Wanted(t) \subseteq 0..(m - 1)
  <2>1. CASE NeedsAll(t)
    BY <1>3, <2>1 DEF Wanted
  <2>2. CASE ~NeedsAll(t)
    <3>1. op[t] \in {"none", "enqueue", "unparkOne", "unparkAll", "timeout", "rehash", "forEach"} /\ op[t] # "none"
      BY <1>1 DEF TypeInv, TypeOK, LocalOK
    <3>2. target[t] \in Addresses
      BY <1>1, <2>2, <3>1 DEF LocalOK, NeedsAll
    <3>3. Index(target[t], m) \in 0..(m - 1)
      BY <1>3, <3>2, IndexInRange
    <3>4. QED
      BY <1>3, <2>2, <3>3 DEF Wanted
  <2>3. QED
    BY <2>1, <2>2
<1>5. QED
  BY <1>2, <1>3, <1>4

(* A place that has still to be looked at, and its bucket.                  *)
LEMMA NextPlace ==
    ASSUME TableAssumption, Inv, NEW t \in Threads, pc[t] = "find", ToFind(t) # {}
    PROVE  /\ mine[t] \in 1..Len(tables) /\ Wanted(t) \subseteq 0..(tables[mine[t]].size - 1)
           /\ NextToFind(t) \in Wanted(t)
           /\ tables[mine[t]].data[NextToFind(t)] = 0 \/ tables[mine[t]].data[NextToFind(t)] \notin buckets[t]
<1>1. TypeInv
  BY DEF Inv
<1>2. mine[t] \in 1..Len(tables)
  BY WantedPlaces
<1>3. PICK m : m = tables[mine[t]].size /\ m \in Nat \ {0}
  BY <1>1, <1>2, SpineTypes
<1>4. Wanted(t) \subseteq 0..(m - 1)
  BY <1>3, WantedPlaces
<1>5. ToFind(t) = {i \in Wanted(t) : tables[mine[t]].data[i] = 0 \/ tables[mine[t]].data[i] \notin buckets[t]}
  BY DEF ToFind, Wanted
<1>6. PICK i \in ToFind(t) : \A j \in ToFind(t) : j <= i
  <2>1. m - 1 \in Nat /\ ToFind(t) \in SUBSET (0..(m - 1))
    BY <1>3, <1>4, <1>5
  <2>2. QED
    BY <2>1, Largest
<1>7. \A j \in ToFind(t) : i >= j
  <2>1. i \in Int /\ \A j \in ToFind(t) : j \in Int
    BY <1>4, <1>5
  <2>2. QED
    BY <1>6, <2>1
<1>8. NextToFind(t) \in ToFind(t)
  BY <1>7 DEF NextToFind, Max
<1>9. QED
  BY <1>2, <1>3, <1>4, <1>5, <1>8

(* Only the current spine has places without a bucket.                      *)
LEMMA EmptyPlaceIsCurrent ==
    ASSUME Inv, NEW k \in 1..Len(tables), NEW i \in 0..(tables[k].size - 1), tables[k].data[i] = 0
    PROVE  k = Len(tables) /\ k = hashtable
<1>1. TypeInv /\ SpineInv
  BY DEF Inv
<1>2. DOMAIN tables[k].data = 0..(tables[k].size - 1) /\ Len(tables) \in Nat /\ hashtable = Len(tables)
  BY <1>1, SpineTypes
<1>3. k \notin 1..(Len(tables) - 1)
  BY <1>1, <1>2 DEF SpineInv
<1>4. QED
  BY <1>2, <1>3

LEMMA FoundBucketInv ==
    ASSUME TableAssumption, Inv, NEW t \in Threads, pc[t] = "find", ToFind(t) # {},
           NEW found, found = tables[mine[t]].data[NextToFind(t)], found # 0,
           buckets' = [buckets EXCEPT ![t] = @ \cup {found}],
           UNCHANGED <<shared, pc, op, target, mine, count, numThreads, registered, address>>
    PROVE  Inv'
<1>1. TypeInv /\ LocalInv /\ FoundInv /\ LockInv
  BY DEF Inv
<1>2. /\ mine[t] \in 1..Len(tables) /\ NextToFind(t) \in Wanted(t)
      /\ NextToFind(t) \in 0..(tables[mine[t]].size - 1)
  BY NextPlace
<1>3. found \in 1..Len(bucketQueue)
  <2>1. found \in 0..Len(bucketQueue) /\ Len(bucketQueue) \in Nat
    BY <1>1, <1>2, SpineTypes
  <2>2. QED
    BY <2>1
<1>4. buckets' \in [Threads -> SUBSET (1..Len(bucketQueue))] /\ buckets'[t] = buckets[t] \cup {found}
      /\ \A u \in Threads \ {t} : buckets'[u] = buckets[u]
  BY <1>1, <1>3 DEF TypeInv, TypeOK
<1>5. TypeInv'
  BY <1>1, <1>4 DEF TypeInv, TypeOK, shared
<1>6. LocalInv'
  <2>1. LocalOK(t)'
    BY <1>1 DEF LocalInv, LocalOK
  <2>2. \A u \in Threads \ {t} : LocalOK(u)'
    BY <1>1, <1>4 DEF LocalInv, LocalOK
  <2>3. QED
    BY <2>1, <2>2 DEF LocalInv
<1>7. \A u \in Threads : Wanted(u)' = Wanted(u)
  BY DEF Wanted, NeedsAll, shared
<1>8. FoundInv'
  <2>1. ASSUME NEW u \in Threads, NEW b \in buckets'[u]
        PROVE  \E i \in Wanted(u)' : tables'[mine'[u]].data[i] = b
    <3>1. CASE u = t /\ b = found
      BY <1>2, <1>7, <3>1 DEF shared
    <3>2. CASE b \in buckets[u]
      BY <1>1, <1>7, <3>2 DEF FoundInv, shared
    <3>3. QED
      BY <1>4, <3>1, <3>2
  <2>2. QED
    BY <2>1 DEF FoundInv
<1>9. LockInv'
  <2>1. ASSUME NEW b \in 1..Len(bucketLock), NEW u \in Threads, bucketLock[b] = u
        PROVE  /\ pc'[u] = "find" /\ ToFind(u)' = {} /\ b \in buckets'[u]
               /\ \A c \in buckets'[u] : c < b => bucketLock'[c] = u
    <3>1. /\ pc[u] = "find" /\ ToFind(u) = {} /\ b \in buckets[u]
          /\ \A c \in buckets[u] : c < b => bucketLock[c] = u
      BY <1>1, <2>1 DEF LockInv
    <3>2. u \in Threads \ {t}
      BY <3>1
    <3>3. buckets'[u] = buckets[u]
      BY <1>4, <3>2
    <3>4. ToFind(u)' = ToFind(u)
      BY <3>3 DEF ToFind, NeedsAll, shared
    <3>5. QED
      BY <3>1, <3>3, <3>4 DEF shared
  <2>2. QED
    BY <2>1 DEF LockInv, shared
<1>10. SpineInv' /\ LinkInv' /\ LoadInv'
  <2>1. SpineInv'
    BY SpineFrame DEF Inv, shared
  <2>2. LinkInv'
    BY LinkFrame DEF Inv, shared
  <2>3. LoadInv'
    BY DEF Inv, LoadInv, LargeEnough, shared
  <2>4. QED
    BY <2>1, <2>2, <2>3
<1>11. QED
  BY <1>5, <1>6, <1>8, <1>9, <1>10 DEF Inv

(* The bucket is missing, and dequeue() returns.                            *)
LEMMA NothingToDequeueInv ==
    ASSUME TableAssumption, Inv, NEW t \in Threads, pc[t] = "find", ToFind(t) # {},
           tables[mine[t]].data[NextToFind(t)] = 0, op[t] \in {"unparkAll", "timeout"},
           Finish(t, "idle"), UNCHANGED <<shared, numThreads, registered, address>>
    PROVE  /\ Inv' /\ target[t] \in Addresses /\ hashtable # 0 /\ BucketAt(hashtable, target[t]) = 0
<1>1. TypeInv /\ LocalOK(t) /\ LinkInv
  BY DEF Inv, LocalInv
<1>2. target[t] \in Addresses /\ count[t] = 0
  BY <1>1 DEF LocalOK
<1>3. /\ mine[t] \in 1..Len(tables) /\ NextToFind(t) \in Wanted(t)
      /\ NextToFind(t) \in 0..(tables[mine[t]].size - 1)
  BY NextPlace
<1>4. NextToFind(t) = Index(target[t], tables[mine[t]].size)
  BY <1>3 DEF Wanted, NeedsAll
<1>5. mine[t] = hashtable
  BY <1>3, EmptyPlaceIsCurrent
<1>6. BucketAt(hashtable, target[t]) = 0 /\ hashtable # 0
  BY <1>1, <1>3, <1>4, <1>5, SpineTypes DEF BucketAt
<1>7. address[t] = Null
  BY <1>1, <1>6 DEF LocalOK, LinkInv
<1>8. TypeInv'
  <2>1. /\ numThreads' = Cardinality(registered')
        /\ registered' \subseteq Threads /\ address' \in [Threads -> Addresses \cup {Null}]
    BY <1>1 DEF TypeInv, TypeOK
  <2>2. QED
    BY <1>1, <2>1, FinishTypes, LocalTypes
<1>9. (\A u \in Threads \ {t} : SameFor(u)) /\ LocalOK(t)' /\ buckets'[t] = {}
  BY <1>1, <1>7, FinishLocals
<1>10. LocalInv'
  <2>1. \A u \in Threads \ {t} : LocalOK(u)'
    BY <1>9, LocalFrame DEF Inv, LocalInv
  <2>2. QED
    BY <1>9, <2>1 DEF LocalInv
<1>11. SpinesKept
  BY <1>1, SpineTypes DEF SpinesKept, shared
<1>12. \A u \in Threads \ {t} : /\ \A b \in buckets'[u] : \E i \in Wanted(u)' : tables'[mine'[u]].data[i] = b
                                /\ pc[u] = "find" => ToFind(u)' = ToFind(u)
  BY <1>9, <1>11, FoundFrame DEF SameFor
<1>13. FoundInv'
  BY <1>9, <1>12 DEF FoundInv
<1>14. LockInv'
  <2>1. ASSUME NEW b \in 1..Len(bucketLock), NEW u \in Threads, bucketLock[b] = u
        PROVE  /\ pc'[u] = "find" /\ ToFind(u)' = {} /\ b \in buckets'[u]
               /\ \A c \in buckets'[u] : c < b => bucketLock'[c] = u
    <3>1. /\ pc[u] = "find" /\ ToFind(u) = {} /\ b \in buckets[u]
          /\ \A c \in buckets[u] : c < b => bucketLock[c] = u
      BY <2>1 DEF Inv, LockInv
    <3>2. u \in Threads \ {t}
      BY <3>1
    <3>3. QED
      BY <1>9, <1>12, <3>1, <3>2 DEF SameFor, shared
  <2>2. QED
    BY <2>1 DEF LockInv, shared
<1>15. SpineInv' /\ LinkInv'
  <2>1. SpineInv'
    BY SpineFrame DEF Inv, shared
  <2>2. LinkInv'
    BY <1>1, LinkFrame DEF shared
  <2>3. QED
    BY <2>1, <2>2
<1>16. LoadInv'
  <2>1. count'[t] = count[t]
    BY <1>1, <1>2 DEF Finish, ForgetLocals, TypeInv, TypeOK
  <2>2. QED
    BY <1>9, <2>1, LoadFrame DEF shared, SameFor
<1>17. QED
  BY <1>2, <1>6, <1>8, <1>10, <1>13, <1>14, <1>15, <1>16 DEF Inv

(* A new bucket is installed in the empty place i.                          *)
InstallsBucket(t, i, fresh) ==
    /\ i = NextToFind(t) /\ fresh = Len(bucketQueue) + 1 /\ tables[mine[t]].data[i] = 0
    /\ tables' = [tables EXCEPT ![mine[t]].data[i] = fresh]
    /\ bucketQueue' = Append(bucketQueue, <<>>) /\ bucketLock' = Append(bucketLock, Null)
    /\ buckets' = [buckets EXCEPT ![t] = @ \cup {fresh}]
    /\ UNCHANGED <<hashtable, pc, op, target, mine, count, numThreads, registered, address>>

LEMMA FreshBucketInv ==
    ASSUME TableAssumption, Inv, NEW t \in Threads, pc[t] = "find", ToFind(t) # {},
           NEW i, NEW fresh, InstallsBucket(t, i, fresh)
    PROVE  Inv'
<1>0. /\ i = NextToFind(t) /\ fresh = Len(bucketQueue) + 1 /\ tables[mine[t]].data[i] = 0
      /\ hashtable' = hashtable /\ pc' = pc /\ op' = op /\ target' = target /\ mine' = mine /\ count' = count
      /\ numThreads' = numThreads /\ registered' = registered /\ address' = address
  BY DEF InstallsBucket
<1>1. TypeInv /\ LocalInv /\ FoundInv /\ LockInv /\ SpineInv /\ LinkInv /\ LoadInv
  BY DEF Inv
<1>2. PICK k, d, m, N : k = mine[t] /\ d = tables[k].data /\ m = tables[k].size /\ N = Len(bucketQueue)
  OBVIOUS
<1>3. k \in 1..Len(tables) /\ i \in Wanted(t) /\ i \in 0..(m - 1)
  BY <1>0, <1>2, NextPlace
<1>4. k = Len(tables) /\ k = hashtable /\ d[i] = 0
  BY <1>0, <1>2, <1>3, EmptyPlaceIsCurrent
<1>5. /\ Len(tables) \in Nat /\ N \in Nat /\ fresh = N + 1 /\ m \in Nat \ {0} /\ d \in [0..(m - 1) -> 0..N]
      /\ DOMAIN d = 0..(m - 1) /\ tables[k] = [size |-> m, data |-> d]
      /\ \A j \in 0..(m - 1) : d[j] \in 0..N
  BY <1>0, <1>1, <1>2, <1>3, SpineTypes
<1>6. PICK e : e = [d EXCEPT ![i] = fresh]
  OBVIOUS
<1>7. /\ e \in [0..(m - 1) -> 0..(N + 1)] /\ DOMAIN e = 0..(m - 1) /\ e[i] = N + 1
      /\ \A j \in 0..(m - 1) : j # i => e[j] = d[j]
  <2>1. d \in [0..(m - 1) -> 0..(N + 1)] /\ fresh \in 0..(N + 1)
    BY <1>5
  <2>2. QED
    BY <1>3, <1>5, <1>6, <2>1
<1>8. tables' = [tables EXCEPT ![k] = [size |-> m, data |-> e]]
  <2>1. tables' = [tables EXCEPT ![k] = [tables[k] EXCEPT !.data = e]]
    BY <1>2, <1>6 DEF InstallsBucket
  <2>2. [tables[k] EXCEPT !.data = e] = [size |-> m, data |-> e]
    BY <1>5
  <2>3. QED
    BY <2>1, <2>2
<1>9. /\ Len(tables') = Len(tables) /\ tables' \in Seq(Spines)
      /\ tables'[k] = [size |-> m, data |-> e]
      /\ \A j \in 1..Len(tables) : j # k => tables'[j] = tables[j]
  <2>1. PICK n \in Nat : n = Len(tables)
    BY <1>5
  <2>2. tables \in [1..n -> Spines]
    BY <1>1, <2>1 DEF TypeInv
  <2>3. [size |-> m, data |-> e] \in Spines
    <3>1. e \in [0..(m - 1) -> Nat]
      BY <1>5, <1>7
    <3>2. QED
      BY <1>5, <3>1 DEF Spines
  <2>4. tables' \in [1..n -> Spines]
    BY <1>8, <2>2, <2>3
  <2>5. QED
    BY <1>3, <1>8, <2>1, <2>2, <2>4, IsSequence
<1>10. tables'[k].size = m /\ tables'[k].data = e
  BY <1>9
<1>11. /\ bucketQueue' \in Seq(Seq(Threads)) /\ Len(bucketQueue') = N + 1
       /\ bucketQueue'[N + 1] = <<>> /\ \A b \in 1..N : bucketQueue'[b] = bucketQueue[b]
  <2>1. bucketQueue \in Seq(Seq(Threads)) /\ <<>> \in Seq(Threads)
    BY <1>1 DEF TypeInv, TypeOK
  <2>2. QED
    BY <1>2, <2>1, AppendProperties DEF InstallsBucket
<1>12. /\ bucketLock' \in Seq(Threads \cup {Null}) /\ Len(bucketLock') = N + 1 /\ Len(bucketLock) = N
       /\ bucketLock'[N + 1] = Null /\ \A b \in 1..N : bucketLock'[b] = bucketLock[b]
  <2>1. bucketLock \in Seq(Threads \cup {Null}) /\ Null \in Threads \cup {Null} /\ Len(bucketLock) = N
    BY <1>1, <1>2 DEF TypeInv, TypeOK
  <2>2. QED
    BY <2>1, AppendProperties DEF InstallsBucket
<1>13. /\ \A u \in Threads : buckets[u] \subseteq 1..N
       /\ buckets'[t] = buckets[t] \cup {N + 1} /\ \A u \in Threads \ {t} : buckets'[u] = buckets[u]
       /\ buckets' \in [Threads -> SUBSET (1..(N + 1))]
  <2>1. buckets \in [Threads -> SUBSET (1..N)]
    BY <1>1, <1>2 DEF TypeInv, TypeOK
  <2>2. \A u \in Threads : buckets[u] \subseteq 1..N
    BY <2>1
  <2>3. buckets'[t] = buckets[t] \cup {N + 1} /\ \A u \in Threads \ {t} : buckets'[u] = buckets[u]
    BY <1>5, <2>1 DEF InstallsBucket
  <2>4. \A u \in Threads : buckets'[u] \in SUBSET (1..(N + 1))
    <3>1. 1..N \subseteq 1..(N + 1) /\ N + 1 \in 1..(N + 1)
      BY <1>5
    <3>2. QED
      BY <2>2, <2>3, <3>1, Zenon
  <2>5. buckets' \in [Threads -> SUBSET (1..(N + 1))]
    BY <2>1, <2>4 DEF InstallsBucket
  <2>6. QED
    BY <2>2, <2>3, <2>5
<1>14. TypeInv'
  <2>1. ASSUME NEW j \in 1..Len(tables')
        PROVE  /\ tables'[j].size \in Nat \ {0}
               /\ tables'[j].data \in [0..(tables'[j].size - 1) -> 0..Len(bucketQueue')]
    <3>1. CASE j = k
      BY <1>5, <1>7, <1>10, <1>11, <3>1
    <3>2. CASE j # k
      <4>1. j \in 1..Len(tables) /\ tables'[j] = tables[j]
        BY <1>9, <3>2
      <4>2. tables[j].size \in Nat \ {0} /\ tables[j].data \in [0..(tables[j].size - 1) -> 0..N]
        BY <1>1, <1>2, <4>1, SpineTypes
      <4>3. tables[j].data \in [0..(tables[j].size - 1) -> 0..(N + 1)]
        <5>1. PICK c, s : c = tables[j].data /\ s = tables[j].size
          OBVIOUS
        <5>2. \A x \in 0..N : x \in 0..(N + 1)
          BY <1>5
        <5>3. c \in [0..(s - 1) -> 0..N]
          BY <4>2, <5>1
        <5>4. c \in [0..(s - 1) -> 0..(N + 1)]
          BY <5>2, <5>3
        <5>5. QED
          BY <5>1, <5>4
      <4>4. QED
        BY <1>11, <4>1, <4>2, <4>3
    <3>3. QED
      BY <3>1, <3>2
  <2>2. buckets' \in [Threads -> SUBSET (1..Len(bucketQueue'))]
    BY <1>11, <1>13
  <2>3. hashtable' = Len(tables') /\ mine' \in [Threads -> 0..Len(tables')]
    BY <1>0, <1>1, <1>9 DEF TypeInv, TypeOK
  <2>4. bucketLock' \in Seq(Threads \cup {Null}) /\ Len(bucketLock') = Len(bucketQueue')
    BY <1>11, <1>12
  <2>5. QED
    BY <1>0, <1>1, <1>9, <1>11, <2>1, <2>2, <2>3, <2>4 DEF TypeInv, TypeOK
<1>15. LocalInv'
  <2>1. LocalOK(t)'
    BY <1>0, <1>1 DEF LocalInv, LocalOK
  <2>2. \A u \in Threads \ {t} : LocalOK(u)'
    BY <1>0, <1>1, <1>13 DEF LocalInv, LocalOK
  <2>3. QED
    BY <2>1, <2>2 DEF LocalInv
<1>16. \A j \in 1..Len(tables) : tables'[j].size = tables[j].size
  BY <1>2, <1>9, <1>10
<1>17. ASSUME NEW u \in Threads, mine[u] \in 1..Len(tables) PROVE Wanted(u)' = Wanted(u)
  BY <1>0, <1>16, <1>17 DEF Wanted, NeedsAll
<1>18. ASSUME NEW j \in 1..Len(tables), NEW p \in 0..(tables[j].size - 1), tables[j].data[p] # 0
       PROVE  tables'[j].data[p] = tables[j].data[p]
  BY <1>2, <1>4, <1>7, <1>9, <1>10, <1>18
<1>19. FoundInv'
  <2>1. ASSUME NEW u \in Threads, NEW b \in buckets'[u]
        PROVE  \E p \in Wanted(u)' : tables'[mine'[u]].data[p] = b
    <3>1. CASE u = t /\ b = N + 1
      BY <1>0, <1>2, <1>3, <1>7, <1>10, <1>17, <3>1
    <3>2. CASE b \in buckets[u]
      <4>1. mine[u] \in 1..Len(tables) /\ pc[u] = "find"
        <5>1. mine[u] \in 0..Len(tables) /\ mine[u] # 0 /\ pc[u] = "find"
          BY <1>1, <3>2 DEF LocalInv, LocalOK, TypeInv, TypeOK
        <5>2. QED
          BY <1>5, <5>1
      <4>2. PICK p \in Wanted(u) : tables[mine[u]].data[p] = b
        BY <1>1, <3>2 DEF FoundInv
      <4>3. b # 0
        BY <1>5, <1>13, <3>2
      <4>4. p \in 0..(tables[mine[u]].size - 1)
        BY <4>1, WantedPlaces
      <4>5. QED
        BY <1>0, <1>17, <1>18, <4>1, <4>2, <4>3, <4>4
    <3>3. QED
      BY <1>13, <3>1, <3>2
  <2>2. QED
    BY <2>1 DEF FoundInv
<1>20. ASSUME NEW u \in Threads \ {t}, pc[u] = "find", ToFind(u) = {} PROVE ToFind(u)' = {}
  <2>1. mine[u] \in 1..Len(tables) /\ \A p \in Wanted(u) : tables[mine[u]].data[p] # 0 /\ tables[mine[u]].data[p] \in buckets[u]
    BY <1>20, FoundAll
  <2>2. \A p \in Wanted(u) : tables'[mine[u]].data[p] = tables[mine[u]].data[p]
    BY <1>18, <1>20, <2>1, WantedPlaces
  <2>3. ToFind(u)' = {p \in Wanted(u)' : tables'[mine'[u]].data[p] = 0 \/ tables'[mine'[u]].data[p] \notin buckets'[u]}
    BY DEF ToFind, Wanted, NeedsAll
  <2>4. QED
    BY <1>0, <1>13, <1>17, <2>1, <2>2, <2>3
<1>21. LockInv'
  <2>1. ASSUME NEW b \in 1..(N + 1), NEW u \in Threads, bucketLock'[b] = u
        PROVE  /\ pc'[u] = "find" /\ ToFind(u)' = {} /\ b \in buckets'[u]
               /\ \A c \in buckets'[u] : c < b => bucketLock'[c] = u
    <3>1. b \in 1..N /\ bucketLock[b] = u
      <4>1. b # N + 1
        BY <1>12, <2>1 DEF TableAssumption
      <4>2. b \in 1..N
        BY <1>5, <2>1, <4>1
      <4>3. QED
        BY <1>12, <2>1, <4>2
    <3>2. /\ pc[u] = "find" /\ ToFind(u) = {} /\ b \in buckets[u]
          /\ \A c \in buckets[u] : c < b => bucketLock[c] = u
      BY <1>1, <1>12, <3>1 DEF LockInv
    <3>3. u \in Threads \ {t}
      BY <3>2
    <3>4. buckets'[u] = buckets[u] /\ buckets[u] \subseteq 1..N
      BY <1>13, <3>3
    <3>5. QED
      BY <1>0, <1>12, <1>20, <3>2, <3>3, <3>4
  <2>2. QED
    BY <1>12, <2>1 DEF LockInv
<1>22. SpineInv'
  <2>1. \A j \in 1..(Len(tables) - 1) : j \in 1..Len(tables) /\ j + 1 \in 1..Len(tables) /\ tables'[j] = tables[j]
    <3>1. ASSUME NEW j \in 1..(Len(tables) - 1)
          PROVE  j \in 1..Len(tables) /\ j + 1 \in 1..Len(tables) /\ j # k
      BY <1>4, <1>5
    <3>2. QED
      BY <1>9, <3>1
  <2>2. \A j \in 1..(Len(tables') - 1) : tables'[j + 1].size > tables'[j].size
    BY <1>1, <1>9, <1>16, <2>1 DEF SpineInv
  <2>3. \A j \in 1..(Len(tables') - 1) : \A p \in DOMAIN tables'[j].data : tables'[j].data[p] # 0
    BY <1>1, <1>9, <2>1 DEF SpineInv
  <2>4. \A j \in 1..Len(tables) : DOMAIN tables'[j].data = DOMAIN tables[j].data /\ DOMAIN tables[j].data = 0..(tables[j].size - 1)
    <3>1. ASSUME NEW j \in 1..Len(tables)
          PROVE  DOMAIN tables'[j].data = DOMAIN tables[j].data /\ DOMAIN tables[j].data = 0..(tables[j].size - 1)
      <4>1. DOMAIN tables[j].data = 0..(tables[j].size - 1)
        BY <1>1, SpineTypes
      <4>2. CASE j = k
        BY <1>2, <1>7, <1>10, <4>1, <4>2
      <4>3. CASE j # k
        BY <1>9, <4>1, <4>3
      <4>4. QED
        BY <4>2, <4>3
    <3>2. QED
      BY <3>1
  <2>5. ASSUME NEW j \in 1..(Len(tables') - 1), NEW p \in DOMAIN tables'[j].data
        PROVE  \E q \in DOMAIN tables'[j + 1].data : tables'[j + 1].data[q] = tables'[j].data[p]
    <3>1. j \in 1..(Len(tables) - 1) /\ tables'[j] = tables[j] /\ p \in DOMAIN tables[j].data /\ j + 1 \in 1..Len(tables)
      BY <1>9, <2>1
    <3>2. PICK q \in DOMAIN tables[j + 1].data : tables[j + 1].data[q] = tables[j].data[p]
      <4>1. \A x \in DOMAIN tables[j].data :
               \E y \in DOMAIN tables[j + 1].data : tables[j + 1].data[y] = tables[j].data[x]
        BY <1>1, <3>1 DEF SpineInv
      <4>2. QED
        BY <3>1, <4>1
    <3>3. tables[j].data[p] # 0
      BY <1>1, <3>1 DEF SpineInv
    <3>4. q \in 0..(tables[j + 1].size - 1) /\ q \in DOMAIN tables'[j + 1].data
      BY <2>4, <3>1
    <3>5. tables'[j + 1].data[q] = tables[j + 1].data[q]
      BY <1>18, <3>1, <3>2, <3>3, <3>4
    <3>6. QED
      BY <3>1, <3>2, <3>4, <3>5
  <2>6. ASSUME NEW j \in 1..Len(tables'), NEW p \in DOMAIN tables'[j].data, NEW q \in DOMAIN tables'[j].data,
               tables'[j].data[p] # 0, tables'[j].data[p] = tables'[j].data[q]
        PROVE  p = q
    <3>1. j \in 1..Len(tables)
      BY <1>9
    <3>2. CASE j # k
      <4>1. tables'[j] = tables[j]
        BY <1>9, <3>1, <3>2
      <4>2. \A x, y \in DOMAIN tables[j].data :
               tables[j].data[x] # 0 /\ tables[j].data[x] = tables[j].data[y] => x = y
        BY <1>1, <3>1 DEF SpineInv
      <4>3. QED
        BY <2>6, <4>1, <4>2
    <3>3. CASE j = k
      <4>1. p \in 0..(m - 1) /\ q \in 0..(m - 1) /\ e[p] # 0 /\ e[p] = e[q]
        BY <1>7, <1>10, <2>6, <3>3
      <4>2. \A x, y \in 0..(m - 1) : d[x] # 0 /\ d[x] = d[y] => x = y
        <5>1. \A x, y \in DOMAIN tables[k].data :
                 tables[k].data[x] # 0 /\ tables[k].data[x] = tables[k].data[y] => x = y
          BY <1>1, <1>3 DEF SpineInv
        <5>2. QED
          BY <1>2, <1>5, <5>1
      <4>3. \A x \in 0..(m - 1) : d[x] # N + 1
        BY <1>5
      <4>4. CASE p = i \/ q = i
        BY <1>7, <4>1, <4>3, <4>4
      <4>5. CASE p # i /\ q # i
        <5>1. e[p] = d[p] /\ e[q] = d[q]
          BY <1>7, <4>1, <4>5
        <5>2. QED
          BY <4>1, <4>2, <5>1
      <4>6. QED
        BY <4>4, <4>5
    <3>4. QED
      BY <3>2, <3>3
  <2>7. ASSUME NEW b \in 1..Len(bucketQueue')
        PROVE  hashtable' # 0 /\ \E p \in DOMAIN tables'[hashtable'].data : tables'[hashtable'].data[p] = b
    <3>0. hashtable' = k /\ k # 0 /\ tables'[hashtable'].data = e
      BY <1>0, <1>3, <1>4, <1>10
    <3>1. CASE b = N + 1
      BY <1>3, <1>7, <3>0, <3>1
    <3>2. CASE b # N + 1
      <4>1. b \in 1..N /\ b # 0
        BY <1>5, <1>11, <2>7, <3>2
      <4>2. PICK p \in DOMAIN d : d[p] = b
        BY <1>1, <1>2, <1>4, <4>1 DEF SpineInv
      <4>3. p \in 0..(m - 1) /\ p # i
        BY <1>4, <1>5, <4>1, <4>2
      <4>4. e[p] = b
        BY <1>7, <4>2, <4>3
      <4>5. QED
        BY <1>7, <3>0, <4>3, <4>4
    <3>3. QED
      BY <3>1, <3>2
  <2>8. QED
    BY <2>2, <2>3, <2>5, <2>6, <2>7, Zenon DEF SpineInv
<1>23. ASSUME NEW a \in Addresses, BucketAt(hashtable, a) # 0 PROVE BucketAt(hashtable, a)' = BucketAt(hashtable, a)
  <2>1. hashtable \in 1..Len(tables) /\ Index(a, tables[hashtable].size) \in 0..(tables[hashtable].size - 1)
    BY <1>1, <1>3, <1>4, BucketAtType
  <2>2. QED
    BY <1>0, <1>16, <1>18, <1>23, <2>1 DEF BucketAt
<1>24. LinkInv'
  <2>1. ASSUME NEW b \in 1..Len(bucketQueue'), NEW p \in 1..Len(bucketQueue'[b])
        PROVE  /\ address'[bucketQueue'[b][p]] \in Addresses
               /\ b = BucketAt(hashtable, address[bucketQueue[b][p]])'
               /\ \A q \in 1..Len(bucketQueue'[b]) : bucketQueue'[b][p] = bucketQueue'[b][q] => p = q
    <3>1. b \in 1..N /\ b # 0 /\ bucketQueue'[b] = bucketQueue[b]
      <4>1. b # N + 1
        BY <1>11, <2>1
      <4>2. b \in 1..N /\ b # 0
        BY <1>5, <1>11, <2>1, <4>1
      <4>3. QED
        BY <1>11, <4>2
    <3>2. /\ address[bucketQueue[b][p]] \in Addresses
          /\ b = BucketAt(hashtable, address[bucketQueue[b][p]])
          /\ \A q \in 1..Len(bucketQueue[b]) : bucketQueue[b][p] = bucketQueue[b][q] => p = q
      BY <1>1, <1>2, <3>1 DEF LinkInv
    <3>3. PICK a : a = address[bucketQueue[b][p]]
      OBVIOUS
    <3>4. BucketAt(hashtable, a)' = b
      BY <1>23, <3>1, <3>2, <3>3
    <3>5. address'[bucketQueue'[b][p]] = a
      BY <1>0, <3>1, <3>3
    <3>6. BucketAt(hashtable, address[bucketQueue[b][p]])' = b
      BY <3>4, <3>5 DEF BucketAt
    <3>7. QED
      BY <3>1, <3>2, <3>3, <3>5, <3>6
  <2>2. ASSUME NEW u \in Threads, address[u] # Null
        PROVE  hashtable' # 0 /\ BucketAt(hashtable, address[u])' # 0
               /\ u \in Members(bucketQueue[BucketAt(hashtable, address[u])])'
    <3>1. PICK a, b : a = address[u] /\ b = BucketAt(hashtable, a)
      OBVIOUS
    <3>2. a \in Addresses
      BY <1>1, <2>2, <3>1 DEF TypeInv, TypeOK
    <3>3. b # 0 /\ u \in Members(bucketQueue[b])
      BY <1>1, <2>2, <3>1 DEF LinkInv
    <3>4. b \in 1..N
      <4>1. b \in 0..N
        BY <1>1, <1>2, <1>3, <1>4, <3>1, <3>2, BucketAtType
      <4>2. QED
        BY <1>5, <3>3, <4>1
    <3>5. BucketAt(hashtable, address[u])' = b
      BY <1>0, <1>23, <3>1, <3>2, <3>3 DEF BucketAt
    <3>6. bucketQueue'[b] = bucketQueue[b]
      BY <1>11, <3>4
    <3>7. QED
      BY <1>0, <1>3, <1>4, <1>5, <3>3, <3>5, <3>6 DEF Members
  <2>3. QED
    BY <1>0, <2>1, <2>2 DEF LinkInv
<1>25. LoadInv'
  BY <1>0, <1>16, LoadFrame
<1>26. QED
  BY <1>14, <1>15, <1>19, <1>21, <1>22, <1>24, <1>25 DEF Inv

LEMMA FindBucketInv ==
    ASSUME TableAssumption, Inv, NEW t \in Threads, FindBucket(t)
    PROVE  Inv'
<1>1. PICK i, found, fresh : /\ i = NextToFind(t) /\ found = tables[mine[t]].data[i]
                             /\ fresh = Len(bucketQueue) + 1
  OBVIOUS
<1>2. /\ pc[t] = "find" /\ ToFind(t) # {}
      /\ \/ /\ found # 0
            /\ buckets' = [buckets EXCEPT ![t] = @ \cup {found}]
            /\ UNCHANGED <<shared, pc, op, target, mine, count>>
         \/ /\ found = 0 /\ op[t] \notin {"unparkAll", "timeout"}
            /\ tables' = [tables EXCEPT ![mine[t]].data[i] = fresh]
            /\ bucketQueue' = Append(bucketQueue, <<>>)
            /\ bucketLock' = Append(bucketLock, Null)
            /\ buckets' = [buckets EXCEPT ![t] = @ \cup {fresh}]
            /\ UNCHANGED <<hashtable, pc, op, target, mine, count>>
         \/ /\ found = 0 /\ op[t] \in {"unparkAll", "timeout"}
            /\ Finish(t, "idle")
            /\ UNCHANGED shared
      /\ UNCHANGED <<numThreads, registered, address>>
  BY <1>1 DEF FindBucket
<1>3. CASE found # 0
  BY <1>1, <1>2, <1>3, FoundBucketInv
<1>4. CASE found = 0 /\ op[t] \notin {"unparkAll", "timeout"}
  <2>1. InstallsBucket(t, i, fresh)
    BY <1>1, <1>2, <1>4 DEF InstallsBucket
  <2>2. QED
    BY <1>2, <2>1, FreshBucketInv
<1>5. CASE found = 0 /\ op[t] \in {"unparkAll", "timeout"}
  BY <1>1, <1>2, <1>5, NothingToDequeueInv
<1>6. QED
  BY <1>3, <1>4, <1>5

-----------------------------------------------------------------------------
(* The steps that use the locked buckets, and unlock them                   *)

\* t has locked all it wants; in this step it gives it up, and other threads stay where they are.
Unlocks(t) ==
    /\ pc[t] = "find" /\ ToFind(t) = {} /\ Held(t) = buckets[t] /\ UnlockBuckets(t) /\ buckets'[t] = {}
    /\ SpinesKept /\ bucketQueue' \in Seq(Seq(Threads)) /\ Len(bucketQueue) <= Len(bucketQueue')
    /\ \A u \in Threads \ {t} : /\ op'[u] = op[u] /\ target'[u] = target[u] /\ mine'[u] = mine[u]
                                /\ buckets'[u] = buckets[u] /\ (pc[u] = "find" => pc'[u] = "find")

LEMMA UnlockStep ==
    ASSUME TableAssumption, Inv, NEW t \in Threads, Unlocks(t)
    PROVE  /\ FoundInv' /\ LockInv'
           /\ bucketLock' \in Seq(Threads \cup {Null}) /\ Len(bucketLock') = Len(bucketQueue')
<1>1. /\ pc[t] = "find" /\ ToFind(t) = {} /\ Held(t) = buckets[t] /\ buckets'[t] = {} /\ SpinesKept
      /\ bucketQueue' \in Seq(Seq(Threads)) /\ Len(bucketQueue) <= Len(bucketQueue')
      /\ \A u \in Threads \ {t} : /\ op'[u] = op[u] /\ target'[u] = target[u] /\ mine'[u] = mine[u]
                                  /\ buckets'[u] = buckets[u] /\ (pc[u] = "find" => pc'[u] = "find")
  BY DEF Unlocks
<1>2. TypeInv /\ LockInv
  BY DEF Inv
<1>3. PICK N, M : N = Len(bucketLock) /\ M = Len(bucketQueue')
  OBVIOUS
<1>4. N \in Nat /\ M \in Nat /\ N <= M /\ N = Len(bucketQueue)
  BY <1>1, <1>2, <1>3, SpineTypes DEF TypeInv, TypeOK
<1>5. bucketLock' = [b \in 1..M |-> IF b > N \/ b \in buckets[t] THEN Null ELSE bucketLock[b]]
  BY <1>3 DEF Unlocks, UnlockBuckets
<1>6. bucketLock' \in [1..M -> Threads \cup {Null}]
  <2>1. ASSUME NEW b \in 1..M, ~(b > N \/ b \in buckets[t]) PROVE bucketLock[b] \in Threads \cup {Null}
    <3>1. b \in 1..N
      BY <1>4, <2>1
    <3>2. QED
      BY <1>2, <1>3, <3>1 DEF TypeInv, TypeOK
  <2>2. QED
    BY <1>5, <2>1
<1>7. bucketLock' \in Seq(Threads \cup {Null}) /\ Len(bucketLock') = M
  BY <1>4, <1>6, IsSequence
<1>8. \A u \in Threads \ {t} : /\ \A b \in buckets'[u] : \E i \in Wanted(u)' : tables'[mine'[u]].data[i] = b
                               /\ pc[u] = "find" => ToFind(u)' = ToFind(u)
  BY <1>1, FoundFrame
<1>9. FoundInv'
  BY <1>1, <1>8 DEF FoundInv
<1>10. \A b \in buckets[t] : bucketLock[b] = t
  BY <1>1 DEF Held
<1>11. ASSUME NEW b \in 1..M, NEW u \in Threads, bucketLock'[b] = u
       PROVE  /\ pc'[u] = "find" /\ ToFind(u)' = {} /\ b \in buckets'[u]
              /\ \A c \in buckets'[u] : c < b => bucketLock'[c] = u
  <2>1. b \in 1..N /\ b \notin buckets[t] /\ bucketLock[b] = u
    <3>1. ~(b > N \/ b \in buckets[t])
      BY <1>5, <1>11 DEF TableAssumption
    <3>2. QED
      BY <1>4, <1>5, <1>11, <3>1
  <2>2. /\ pc[u] = "find" /\ ToFind(u) = {} /\ b \in buckets[u]
        /\ \A c \in buckets[u] : c < b => bucketLock[c] = u
    BY <1>2, <1>3, <2>1 DEF LockInv
  <2>3. u \in Threads \ {t}
    BY <2>1, <2>2
  <2>4. pc'[u] = "find" /\ ToFind(u)' = {} /\ b \in buckets'[u] /\ buckets'[u] = buckets[u]
    BY <1>1, <1>8, <2>2, <2>3
  <2>5. ASSUME NEW c \in buckets[u], c < b PROVE bucketLock'[c] = u
    <3>1. c \in 1..N
      BY <1>2, <1>4 DEF TypeInv, TypeOK
    <3>2. bucketLock[c] = u
      BY <2>2, <2>5
    <3>3. c \notin buckets[t]
      BY <1>10, <2>3, <3>2
    <3>4. c \in 1..M /\ ~(c > N \/ c \in buckets[t])
      BY <1>4, <3>1, <3>3
    <3>5. QED
      BY <1>5, <3>2, <3>4
  <2>6. QED
    BY <2>4, <2>5
<1>12. LockInv'
  BY <1>7, <1>11 DEF LockInv
<1>13. QED
  BY <1>3, <1>7, <1>9, <1>12

(* Types, where no spine changes.                                           *)
LEMMA QueueTypes ==
    ASSUME TypeInv, tables' = tables, hashtable' = hashtable, bucketQueue' \in Seq(Seq(Threads)),
           Len(bucketQueue') = Len(bucketQueue),
           bucketLock' \in Seq(Threads \cup {Null}), Len(bucketLock') = Len(bucketQueue'),
           UNCHANGED <<numThreads, registered>>,
           address' \in [Threads -> Addresses \cup {Null}],
           pc' \in [Threads -> {"idle", "sizeCheck", "table", "find", "parked", "gone"}],
           op' \in [Threads -> {"none", "enqueue", "unparkOne", "unparkAll", "timeout", "rehash", "forEach"}],
           target' \in [Threads -> Addresses \cup {Null}],
           mine' \in [Threads -> 0..Len(tables)],
           buckets' \in [Threads -> SUBSET (1..Len(bucketQueue))],
           count' \in [Threads -> 0..Cardinality(Threads)]
    PROVE  TypeInv'
<1>1. /\ \A k \in 1..Len(tables) :
           /\ tables[k].size \in Nat \ {0}
           /\ tables[k].data \in [0..(tables[k].size - 1) -> 0..Len(bucketQueue)]
      /\ hashtable = Len(tables) /\ tables \in Seq(Spines)
      /\ numThreads = Cardinality(registered) /\ registered \subseteq Threads
  BY DEF TypeInv, TypeOK
<1>2. QED
  BY <1>1 DEF TypeInv, TypeOK

LEMMA RetryInv ==
    ASSUME TableAssumption, Inv, NEW t \in Threads, Retry(t)
    PROVE  Inv'
<1>1. TypeInv /\ LocalOK(t)
  BY DEF Inv, LocalInv
<1>2. /\ pc[t] = "find" /\ ToFind(t) = {} /\ Held(t) = buckets[t] /\ UnlockBuckets(t)
      /\ pc' = [pc EXCEPT ![t] = "table"] /\ mine' = [mine EXCEPT ![t] = 0]
      /\ buckets' = [buckets EXCEPT ![t] = {}]
      /\ tables' = tables /\ hashtable' = hashtable /\ bucketQueue' = bucketQueue
      /\ numThreads' = numThreads /\ registered' = registered /\ address' = address
      /\ op' = op /\ target' = target /\ count' = count
  BY DEF Retry, HasLocked, Goto
<1>3. pc'[t] = "table" /\ mine'[t] = 0 /\ buckets'[t] = {} /\ \A u \in Threads \ {t} : SameFor(u)
  BY <1>1, <1>2 DEF SameFor, TypeInv, TypeOK
<1>4. Unlocks(t)
  <2>1. bucketQueue' \in Seq(Seq(Threads)) /\ Len(bucketQueue) <= Len(bucketQueue') /\ SpinesKept
    BY <1>1, <1>2, SpineTypes DEF TypeInv, TypeOK, SpinesKept
  <2>2. QED
    BY <1>2, <1>3, <2>1 DEF Unlocks, SameFor
<1>5. FoundInv' /\ LockInv' /\ bucketLock' \in Seq(Threads \cup {Null}) /\ Len(bucketLock') = Len(bucketQueue')
  BY <1>4, UnlockStep
<1>6. TypeInv'
  <2>1. pc' \in [Threads -> {"idle", "sizeCheck", "table", "find", "parked", "gone"}]
    BY <1>1, <1>2 DEF TypeInv, TypeOK
  <2>2. mine' \in [Threads -> 0..Len(tables)]
    <3>1. PICK M : M = 0..Len(tables)
      OBVIOUS
    <3>2. 0 \in M /\ mine \in [Threads -> M]
      BY <1>1, <3>1, SpineTypes DEF TypeInv, TypeOK
    <3>3. QED
      BY <1>2, <3>1, <3>2
  <2>3. buckets' \in [Threads -> SUBSET (1..Len(bucketQueue))]
    BY <1>1, <1>2 DEF TypeInv, TypeOK
  <2>4. QED
    BY <1>1, <1>2, <1>5, <2>1, <2>2, <2>3 DEF TypeInv, TypeOK
<1>7. LocalInv'
  <2>1. LocalOK(t)'
    BY <1>1, <1>2, <1>3 DEF LocalOK
  <2>2. \A u \in Threads \ {t} : LocalOK(u)'
    BY <1>2, <1>3, LocalFrame DEF Inv, LocalInv
  <2>3. QED
    BY <2>1, <2>2 DEF LocalInv
<1>8. SpineInv' /\ LinkInv' /\ LoadInv'
  <2>1. SpineInv'
    BY <1>2, SpineFrame DEF Inv
  <2>2. LinkInv'
    BY <1>2, LinkFrame DEF Inv
  <2>3. LoadInv'
    BY <1>2 DEF Inv, LoadInv, LargeEnough
  <2>4. QED
    BY <2>1, <2>2, <2>3
<1>9. QED
  BY <1>5, <1>6, <1>7, <1>8 DEF Inv

(* An operation ends without a change of the queues.                        *)
LEMMA NothingDoneInv ==
    ASSUME TableAssumption, Inv, NEW t \in Threads, pc[t] = "find", ToFind(t) = {}, Held(t) = buckets[t],
           op[t] # "timeout", count[t] = 0 \/ LargeEnough(hashtable, count[t]),
           Finish(t, "idle"), UnlockBuckets(t),
           UNCHANGED <<tables, hashtable, bucketQueue, numThreads, registered, address>>
    PROVE  Inv'
<1>1. TypeInv /\ LocalOK(t)
  BY DEF Inv, LocalInv
<1>2. address[t] = Null
  BY <1>1 DEF LocalOK
<1>3. (\A u \in Threads \ {t} : SameFor(u)) /\ LocalOK(t)' /\ buckets'[t] = {}
  BY <1>1, <1>2, FinishLocals
<1>4. Unlocks(t)
  <2>1. bucketQueue' \in Seq(Seq(Threads)) /\ Len(bucketQueue) <= Len(bucketQueue') /\ SpinesKept
    BY <1>1, SpineTypes DEF TypeInv, TypeOK, SpinesKept
  <2>2. QED
    BY <1>3, <2>1 DEF Unlocks, SameFor
<1>5. FoundInv' /\ LockInv' /\ bucketLock' \in Seq(Threads \cup {Null}) /\ Len(bucketLock') = Len(bucketQueue')
  BY <1>4, UnlockStep
<1>6. TypeInv'
  <2>1. bucketQueue' \in Seq(Seq(Threads)) /\ address' \in [Threads -> Addresses \cup {Null}]
    BY <1>1 DEF TypeInv, TypeOK
  <2>2. QED
    BY <1>1, <1>5, <2>1, FinishTypes, QueueTypes
<1>7. LocalInv'
  <2>1. \A u \in Threads \ {t} : LocalOK(u)'
    BY <1>3, LocalFrame DEF Inv, LocalInv
  <2>2. QED
    BY <1>3, <2>1 DEF LocalInv
<1>8. SpineInv' /\ LinkInv'
  <2>1. SpineInv'
    BY SpineFrame DEF Inv
  <2>2. LinkInv'
    BY LinkFrame DEF Inv
  <2>3. QED
    BY <2>1, <2>2
<1>9. LoadInv'
  <2>1. count'[t] = 0
    BY <1>1 DEF Finish, ForgetLocals, TypeInv, TypeOK
  <2>2. QED
    BY <1>3, <2>1, LoadFrame DEF SameFor
<1>10. QED
  BY <1>5, <1>6, <1>7, <1>8, <1>9 DEF Inv

LEMMA ForEachInv ==
    ASSUME TableAssumption, Inv, NEW t \in Threads, ForEach(t)
    PROVE  Inv'
<1>1. /\ pc[t] = "find" /\ op[t] = "forEach" /\ ToFind(t) = {} /\ Held(t) = buckets[t] /\ Finish(t, "idle")
      /\ UnlockBuckets(t) /\ UNCHANGED <<tables, hashtable, bucketQueue, numThreads, registered, address>>
  BY DEF ForEach, HasLocked
<1>2. count[t] = 0
  BY <1>1 DEF Inv, LocalInv, LocalOK
<1>3. QED
  BY <1>1, <1>2, NothingDoneInv

LEMMA NoNeedToRehashInv ==
    ASSUME TableAssumption, Inv, NEW t \in Threads, NoNeedToRehash(t)
    PROVE  Inv'
<1>1. /\ pc[t] = "find" /\ op[t] = "rehash" /\ ToFind(t) = {} /\ Held(t) = buckets[t] /\ Finish(t, "idle")
      /\ UnlockBuckets(t) /\ UNCHANGED <<tables, hashtable, bucketQueue, numThreads, registered, address>>
      /\ LargeEnough(hashtable, count[t])
  BY DEF NoNeedToRehash, HasLocked
<1>2. QED
  BY <1>1, NothingDoneInv

(* The links after a step, in terms of the members of the queues.           *)
LEMMA LinkInvFrom ==
    ASSUME Len(bucketQueue') = Len(bucketQueue), tables' = tables, hashtable' = hashtable,
           \A c \in 1..Len(bucketQueue) :
               /\ Distinct(bucketQueue'[c])
               /\ \A w \in Members(bucketQueue'[c]) : address'[w] \in Addresses /\ c = BucketAt(hashtable, address'[w]),
           \A u \in Threads : address'[u] # Null =>
               /\ hashtable # 0 /\ BucketAt(hashtable, address'[u]) # 0
               /\ u \in Members(bucketQueue'[BucketAt(hashtable, address'[u])])
    PROVE  LinkInv'
<1>1. \A a : BucketAt(hashtable, a)' = BucketAt(hashtable, a)
  BY DEF BucketAt
<1>2. ASSUME NEW c \in 1..Len(bucketQueue'), NEW i \in 1..Len(bucketQueue'[c])
      PROVE  /\ address'[bucketQueue'[c][i]] \in Addresses
             /\ c = BucketAt(hashtable, address[bucketQueue[c][i]])'
             /\ \A j \in 1..Len(bucketQueue'[c]) : bucketQueue'[c][i] = bucketQueue'[c][j] => i = j
  <2>1. PICK w : w = bucketQueue'[c][i]
    OBVIOUS
  <2>2. w \in Members(bucketQueue'[c])
    BY <2>1 DEF Members
  <2>3. address'[w] \in Addresses /\ c = BucketAt(hashtable, address'[w])
    BY <2>2
  <2>4. BucketAt(hashtable, address[bucketQueue[c][i]])' = BucketAt(hashtable, address'[w])
    BY <2>1 DEF BucketAt
  <2>5. QED
    BY <2>1, <2>3, <2>4 DEF Distinct
<1>3. ASSUME NEW u \in Threads, address'[u] # Null
      PROVE  /\ hashtable' # 0 /\ BucketAt(hashtable, address[u])' # 0
             /\ u \in Members(bucketQueue[BucketAt(hashtable, address[u])])'
  <2>1. BucketAt(hashtable, address[u])' = BucketAt(hashtable, address'[u])
    BY DEF BucketAt
  <2>2. QED
    BY <1>3, <2>1 DEF Members
<1>4. QED
  BY <1>2, <1>3 DEF LinkInv

(* A change of one queue.                                                   *)
LEMMA OneQueueChanged ==
    ASSUME TypeInv, NEW b \in 1..Len(bucketQueue), NEW q \in Seq(Threads),
           bucketQueue' = [bucketQueue EXCEPT ![b] = q]
    PROVE  /\ bucketQueue' \in Seq(Seq(Threads)) /\ Len(bucketQueue') = Len(bucketQueue)
           /\ bucketQueue'[b] = q
           /\ \A c \in 1..Len(bucketQueue) : c # b => bucketQueue'[c] = bucketQueue[c]
<1>1. PICK N \in Nat : N = Len(bucketQueue)
  BY SpineTypes
<1>2. bucketQueue \in [1..N -> Seq(Threads)]
  BY <1>1 DEF TypeInv, TypeOK
<1>3. bucketQueue' \in [1..N -> Seq(Threads)]
  BY <1>2
<1>4. bucketQueue' \in Seq(Seq(Threads)) /\ Len(bucketQueue') = N
  BY <1>3, IsSequence
<1>5. QED
  BY <1>1, <1>2, <1>4

(* The functor of enqueue() links t in bucket b.                            *)
Enqueues(t, b) ==
    /\ HasLocked(t, {"enqueue"}) /\ StillCurrent(t) /\ b = TheBucket(t)
    /\ bucketQueue' = [bucketQueue EXCEPT ![b] = Append(@, t)]
    /\ address' = [address EXCEPT ![t] = target[t]]
    /\ Finish(t, "parked") /\ UnlockBuckets(t)
    /\ tables' = tables /\ hashtable' = hashtable /\ UNCHANGED <<numThreads, registered>>

LEMMA EnqueuesFacts ==
    ASSUME TableAssumption, Inv, NEW t \in Threads, NEW b, Enqueues(t, b)
    PROVE  /\ b \in 1..Len(bucketQueue) /\ target[t] \in Addresses /\ hashtable \in 1..Len(tables)
           /\ b = BucketAt(hashtable, target[t]) /\ address[t] = Null
           /\ t \notin Members(bucketQueue[b])
           /\ bucketQueue' \in Seq(Seq(Threads)) /\ Len(bucketQueue') = Len(bucketQueue)
           /\ bucketQueue'[b] = Append(bucketQueue[b], t)
           /\ \A c \in 1..Len(bucketQueue) : c # b => bucketQueue'[c] = bucketQueue[c]
           /\ address' \in [Threads -> Addresses \cup {Null}] /\ address'[t] = target[t]
           /\ \A u \in Threads \ {t} : address'[u] = address[u]
           /\ tables' = tables /\ hashtable' = hashtable
<1>1. /\ pc[t] = "find" /\ op[t] = "enqueue" /\ ToFind(t) = {} /\ Held(t) = buckets[t]
      /\ hashtable = mine[t] /\ b = TheBucket(t) /\ tables' = tables /\ hashtable' = hashtable
  BY DEF Enqueues, HasLocked, StillCurrent
<1>2. TypeInv /\ LocalOK(t) /\ LinkInv
  BY DEF Inv, LocalInv
<1>3. b \in 1..Len(bucketQueue) /\ target[t] \in Addresses /\ hashtable \in 1..Len(tables)
      /\ b = BucketAt(hashtable, target[t])
  BY <1>1, OneBucket
<1>4. address[t] = Null
  BY <1>1, <1>2 DEF LocalOK
<1>5. t \notin Members(bucketQueue[b])
  BY <1>2, <1>3, <1>4, LinkedOnceHolds DEF TableAssumption
<1>6. bucketQueue[b] \in Seq(Threads)
  BY <1>2, <1>3 DEF TypeInv, TypeOK
<1>7. PICK q \in Seq(Threads) : q = Append(bucketQueue[b], t)
  <2>1. Append(bucketQueue[b], t) \in Seq(Threads)
    BY <1>6, AppendProperties
  <2>2. QED
    BY <2>1
<1>8. bucketQueue' = [bucketQueue EXCEPT ![b] = q]
  BY <1>7 DEF Enqueues
<1>9. /\ bucketQueue' \in Seq(Seq(Threads)) /\ Len(bucketQueue') = Len(bucketQueue)
      /\ bucketQueue'[b] = q
      /\ \A c \in 1..Len(bucketQueue) : c # b => bucketQueue'[c] = bucketQueue[c]
  BY <1>2, <1>3, <1>8, OneQueueChanged
<1>10. address' \in [Threads -> Addresses \cup {Null}] /\ address'[t] = target[t]
       /\ \A u \in Threads \ {t} : address'[u] = address[u]
  BY <1>2, <1>3 DEF Enqueues, TypeInv, TypeOK
<1>11. QED
  BY <1>1, <1>3, <1>4, <1>5, <1>7, <1>9, <1>10

LEMMA EnqueuesInv ==
    ASSUME TableAssumption, Inv, NEW t \in Threads, NEW b, Enqueues(t, b)
    PROVE  Inv'
<1>1. /\ pc[t] = "find" /\ op[t] = "enqueue" /\ ToFind(t) = {} /\ Held(t) = buckets[t] /\ Finish(t, "parked")
      /\ UnlockBuckets(t) /\ numThreads' = numThreads /\ registered' = registered
  BY DEF Enqueues, HasLocked
<1>2. /\ b \in 1..Len(bucketQueue) /\ target[t] \in Addresses /\ hashtable \in 1..Len(tables)
      /\ b = BucketAt(hashtable, target[t]) /\ address[t] = Null
      /\ t \notin Members(bucketQueue[b])
      /\ bucketQueue' \in Seq(Seq(Threads)) /\ Len(bucketQueue') = Len(bucketQueue)
      /\ bucketQueue'[b] = Append(bucketQueue[b], t)
      /\ \A c \in 1..Len(bucketQueue) : c # b => bucketQueue'[c] = bucketQueue[c]
      /\ address' \in [Threads -> Addresses \cup {Null}] /\ address'[t] = target[t]
      /\ \A u \in Threads \ {t} : address'[u] = address[u]
      /\ tables' = tables /\ hashtable' = hashtable
  BY EnqueuesFacts
<1>3. TypeInv /\ LocalOK(t) /\ LinkInv /\ Len(bucketQueue) \in Nat
  BY SpineTypes DEF Inv, LocalInv
<1>4. (\A u \in Threads \ {t} : SameFor(u)) /\ LocalOK(t)' /\ buckets'[t] = {}
  <2>1. address'[t] # Null
    BY <1>2 DEF TableAssumption
  <2>2. QED
    BY <1>1, <1>3, <2>1, FinishLocals
<1>5. Unlocks(t)
  <2>1. Len(bucketQueue) <= Len(bucketQueue') /\ SpinesKept
    BY <1>2, <1>3, SpineTypes DEF SpinesKept
  <2>2. QED
    BY <1>1, <1>2, <1>4, <2>1 DEF Unlocks, SameFor
<1>6. FoundInv' /\ LockInv' /\ bucketLock' \in Seq(Threads \cup {Null}) /\ Len(bucketLock') = Len(bucketQueue')
  BY <1>5, UnlockStep
<1>7. TypeInv'
  BY <1>1, <1>2, <1>3, <1>6, FinishTypes, QueueTypes
<1>8. LocalInv'
  <2>1. \A u \in Threads \ {t} : LocalOK(u)'
    BY <1>2, <1>4, LocalFrame DEF Inv, LocalInv
  <2>2. QED
    BY <1>4, <2>1 DEF LocalInv
<1>9. SpineInv'
  BY <1>2, SpineFrame DEF Inv
<1>10. \A a : BucketAt(hashtable, a)' = BucketAt(hashtable, a)
  BY <1>2 DEF BucketAt
<1>11. /\ \A c \in 1..Len(bucketQueue) : Distinct(bucketQueue[c])
       /\ \A c \in 1..Len(bucketQueue) : \A w \in Members(bucketQueue[c]) :
             w \in Threads /\ address[w] \in Addresses /\ c = BucketAt(hashtable, address[w])
  <2>1. \A c \in 1..Len(bucketQueue) : \A w \in Members(bucketQueue[c]) : w \in Threads
    BY <1>3 DEF Members, TypeInv, TypeOK
  <2>2. QED
    BY <1>3, <2>1, LinkedOnceHolds
<1>12. /\ Distinct(bucketQueue'[b]) /\ Members(bucketQueue'[b]) = Members(bucketQueue[b]) \cup {t}
  <2>1. bucketQueue[b] \in Seq(Threads)
    BY <1>2, <1>3 DEF TypeInv, TypeOK
  <2>2. QED
    BY <1>2, <1>11, <2>1, AppendInOrder
<1>13. LinkInv'
  <2>1. ASSUME NEW c \in 1..Len(bucketQueue)
        PROVE  /\ Distinct(bucketQueue'[c])
               /\ \A w \in Members(bucketQueue'[c]) : address'[w] \in Addresses /\ c = BucketAt(hashtable, address'[w])
    <3>1. CASE c = b
      <4>1. ASSUME NEW w \in Members(bucketQueue'[b])
            PROVE  address'[w] \in Addresses /\ b = BucketAt(hashtable, address'[w])
        <5>1. CASE w = t
          BY <1>2, <5>1
        <5>2. CASE w # t
          <6>1. w \in Members(bucketQueue[b])
            BY <1>12, <5>2
          <6>2. w \in Threads /\ address[w] \in Addresses /\ b = BucketAt(hashtable, address[w])
            BY <1>2, <1>11, <6>1
          <6>3. address'[w] = address[w]
            BY <1>2, <5>2, <6>2
          <6>4. QED
            BY <6>2, <6>3
        <5>3. QED
          BY <5>1, <5>2
      <4>2. QED
        BY <1>12, <3>1, <4>1
    <3>2. CASE c # b
      <4>1. bucketQueue'[c] = bucketQueue[c]
        BY <1>2, <3>2
      <4>2. t \notin Members(bucketQueue[c])
        BY <1>2, <1>11 DEF TableAssumption
      <4>3. ASSUME NEW w \in Members(bucketQueue[c])
            PROVE  address'[w] \in Addresses /\ c = BucketAt(hashtable, address'[w])
        <5>1. w \in Threads /\ address[w] \in Addresses /\ c = BucketAt(hashtable, address[w]) /\ w # t
          BY <1>11, <4>2
        <5>2. address'[w] = address[w]
          BY <1>2, <5>1
        <5>3. QED
          BY <5>1, <5>2
      <4>4. QED
        BY <1>11, <4>1, <4>3
    <3>3. QED
      BY <3>1, <3>2
  <2>2. ASSUME NEW u \in Threads, address'[u] # Null
        PROVE  /\ hashtable # 0 /\ BucketAt(hashtable, address'[u]) # 0
               /\ u \in Members(bucketQueue'[BucketAt(hashtable, address'[u])])
    <3>1. hashtable # 0
      BY <1>2
    <3>2. CASE u = t
      <4>1. BucketAt(hashtable, address'[u]) = b /\ b # 0
        BY <1>2, <3>2
      <4>2. u \in Members(bucketQueue'[b])
        BY <1>12, <3>2
      <4>3. QED
        BY <3>1, <4>1, <4>2
    <3>3. CASE u # t
      <4>1. PICK a, c : a = address[u] /\ a = address'[u] /\ c = BucketAt(hashtable, a)
        BY <1>2, <3>3
      <4>2. a \in Addresses /\ c # 0 /\ u \in Members(bucketQueue[c])
        <5>1. address[u] \in Addresses \cup {Null} /\ address[u] # Null
          BY <1>3, <2>2, <4>1 DEF TypeInv, TypeOK
        <5>2. BucketAt(hashtable, address[u]) # 0 /\ u \in Members(bucketQueue[BucketAt(hashtable, address[u])])
          BY <1>3, <5>1 DEF LinkInv
        <5>3. QED
          BY <4>1, <5>1, <5>2
      <4>3. c \in 1..Len(bucketQueue)
        <5>1. c \in 0..Len(bucketQueue)
          BY <1>2, <1>3, <4>1, <4>2, BucketAtType
        <5>2. QED
          BY <1>3, <4>2, <5>1
      <4>4. u \in Members(bucketQueue'[c])
        BY <1>2, <1>12, <4>2, <4>3
      <4>5. QED
        BY <3>1, <4>1, <4>2, <4>4
    <3>4. QED
      BY <3>2, <3>3
  <2>3. QED
    BY <1>2, <1>10, <2>1, <2>2, LinkInvFrom
<1>14. LoadInv'
  <2>1. count[t] = 0 /\ count'[t] = 0
    BY <1>1, <1>3 DEF LocalOK, Finish, ForgetLocals, TypeInv, TypeOK
  <2>2. QED
    BY <1>1, <1>2, <1>4, <2>1, LoadFrame DEF SameFor
<1>15. QED
  BY <1>6, <1>7, <1>8, <1>9, <1>13, <1>14 DEF Inv

LEMMA EnqueueSelfInv ==
    ASSUME TableAssumption, Inv, NEW t \in Threads, EnqueueSelf(t)
    PROVE  Inv'
<1>1. /\ HasLocked(t, {"enqueue"}) /\ StillCurrent(t) /\ UnlockBuckets(t)
      /\ UNCHANGED <<tables, hashtable, numThreads, registered>>
  BY DEF EnqueueSelf
<1>2. CASE /\ bucketQueue' = [bucketQueue EXCEPT ![TheBucket(t)] = Append(@, t)]
           /\ address' = [address EXCEPT ![t] = target[t]] /\ Finish(t, "parked")
  <2>1. PICK b : b = TheBucket(t)
    OBVIOUS
  <2>2. Enqueues(t, b)
    BY <1>1, <1>2, <2>1 DEF Enqueues
  <2>3. QED
    BY <2>2, EnqueuesInv
<1>3. CASE Finish(t, "idle") /\ UNCHANGED <<bucketQueue, address>>
  <2>1. pc[t] = "find" /\ op[t] = "enqueue" /\ ToFind(t) = {} /\ Held(t) = buckets[t]
    BY <1>1 DEF HasLocked
  <2>2. count[t] = 0
    BY <2>1 DEF Inv, LocalInv, LocalOK
  <2>3. QED
    BY <1>1, <1>3, <2>1, <2>2, NothingDoneInv
<1>4. QED
  BY <1>2, <1>3 DEF EnqueueSelf

(* Whom dequeue() removes: threads parked on its address, or the caller.    *)
LEMMA RemovedFacts ==
    ASSUME TableAssumption, Inv, NEW t \in Threads, pc[t] = "find", ToFind(t) = {},
           op[t] \in {"unparkOne", "unparkAll", "timeout"}
    PROVE  /\ Removed(t) \subseteq Threads
           /\ \A w \in Removed(t) : address[w] # Null => address[w] = target[t]
           /\ op[t] = "timeout" => Removed(t) = {t}
           /\ op[t] = "unparkAll" => \A w \in Members(bucketQueue[TheBucket(t)]) :
                                        address[w] = target[t] => w \in Removed(t)
<1>1. PICK q : q = bucketQueue[TheBucket(t)]
  OBVIOUS
<1>2. q \in Seq(Threads)
  <2>1. TheBucket(t) \in 1..Len(bucketQueue)
    BY OneBucket
  <2>2. QED
    BY <1>1, <2>1 DEF Inv, TypeInv, TypeOK
<1>3. \A i \in 1..Len(q) : q[i] \in Threads
  BY <1>2
<1> DEFINE W == {i \in 1..Len(q) : address[q[i]] = target[t]}
<1>4. CASE op[t] = "unparkOne"
  <2>1. Removed(t) = {q[i] : i \in {j \in W : \A k \in W : j <= k}}
    BY <1>1, <1>4 DEF Removed
  <2>2. QED
    BY <1>3, <1>4, <2>1
<1>5. CASE op[t] = "unparkAll"
  <2>1. Removed(t) = {q[i] : i \in W}
    BY <1>1, <1>5 DEF Removed
  <2>2. \A w \in Members(q) : address[w] = target[t] => w \in Removed(t)
    BY <2>1 DEF Members
  <2>3. Removed(t) \subseteq Threads /\ \A w \in Removed(t) : address[w] = target[t]
    BY <1>3, <2>1
  <2>4. QED
    BY <1>1, <1>5, <2>2, <2>3
<1>6. CASE op[t] = "timeout"
  <2>1. Removed(t) = {t}
    BY <1>6 DEF Removed
  <2>2. address[t] # Null => address[t] = target[t]
    BY DEF Inv, LocalInv, LocalOK
  <2>3. QED
    BY <1>6, <2>1, <2>2
<1>7. QED
  BY <1>4, <1>5, <1>6

\* What a dequeue() of t in bucket b that removes R does to the queues and the addresses.
Dequeued(t, b, R) ==
    /\ b \in 1..Len(bucketQueue) /\ target[t] \in Addresses /\ hashtable \in 1..Len(tables)
    /\ b = BucketAt(hashtable, target[t])
    /\ R \subseteq Threads /\ \A w \in R : address[w] # Null => address[w] = target[t]
    /\ bucketQueue' \in Seq(Seq(Threads)) /\ Len(bucketQueue') = Len(bucketQueue)
    /\ bucketQueue'[b] = Kept(bucketQueue[b], Threads \ R)
    /\ Distinct(bucketQueue'[b]) /\ Members(bucketQueue'[b]) = Members(bucketQueue[b]) \ R
    /\ \A c \in 1..Len(bucketQueue) : c # b => bucketQueue'[c] = bucketQueue[c]
    /\ address' \in [Threads -> Addresses \cup {Null}]
    /\ \A w \in Threads : address'[w] = IF w \in R THEN Null ELSE address[w]
    /\ tables' = tables /\ hashtable' = hashtable

LEMMA DequeueFacts ==
    ASSUME TableAssumption, Inv, NEW t \in Threads, Dequeue(t), NEW b, b = TheBucket(t), NEW R, R = Removed(t)
    PROVE  Dequeued(t, b, R)
<1>1. /\ pc[t] = "find" /\ op[t] \in {"unparkOne", "unparkAll", "timeout"} /\ ToFind(t) = {} /\ Held(t) = buckets[t]
      /\ hashtable = mine[t] /\ tables' = tables /\ hashtable' = hashtable
  BY DEF Dequeue, HasLocked, StillCurrent
<1>2. TypeInv /\ LocalOK(t) /\ LinkInv
  BY DEF Inv, LocalInv
<1>3. b \in 1..Len(bucketQueue) /\ target[t] \in Addresses /\ hashtable \in 1..Len(tables)
      /\ b = BucketAt(hashtable, target[t])
  BY <1>1, OneBucket
<1>4. R \subseteq Threads /\ \A w \in R : address[w] # Null => address[w] = target[t]
  BY <1>1, RemovedFacts
<1>5. bucketQueue[b] \in Seq(Threads) /\ Distinct(bucketQueue[b])
  BY <1>2, <1>3, LinkedOnceHolds DEF TypeInv, TypeOK
<1>6. PICK q : q = Kept(bucketQueue[b], Threads \ R)
  OBVIOUS
<1>7. q \in Seq(Threads) /\ Distinct(q) /\ Members(q) = Members(bucketQueue[b]) \cap (Threads \ R)
  BY <1>5, <1>6, KeptInOrder
<1>8. Members(bucketQueue[b]) \subseteq Threads
  BY <1>5 DEF Members
<1>9. bucketQueue' = [bucketQueue EXCEPT ![b] = q]
  BY <1>6 DEF Dequeue
<1>10. /\ bucketQueue' \in Seq(Seq(Threads)) /\ Len(bucketQueue') = Len(bucketQueue)
       /\ bucketQueue'[b] = q
       /\ \A c \in 1..Len(bucketQueue) : c # b => bucketQueue'[c] = bucketQueue[c]
  BY <1>2, <1>3, <1>7, <1>9, OneQueueChanged
<1>11. address' = [w \in Threads |-> IF w \in R THEN Null ELSE address[w]]
  BY DEF Dequeue
<1>12. \A w \in Threads : address[w] \in Addresses \cup {Null}
  BY <1>2 DEF TypeInv, TypeOK
<1>13. address' \in [Threads -> Addresses \cup {Null}]
       /\ \A w \in Threads : address'[w] = IF w \in R THEN Null ELSE address[w]
  BY <1>11, <1>12
<1>14. Members(bucketQueue'[b]) = Members(bucketQueue[b]) \ R
  BY <1>7, <1>8, <1>10
<1>15. QED
  BY <1>1, <1>3, <1>4, <1>6, <1>7, <1>10, <1>13, <1>14 DEF Dequeued

LEMMA DequeueInv ==
    ASSUME TableAssumption, Inv, NEW t \in Threads, Dequeue(t)
    PROVE  Inv'
<1>1. /\ pc[t] = "find" /\ op[t] \in {"unparkOne", "unparkAll", "timeout"} /\ ToFind(t) = {} /\ Held(t) = buckets[t]
      /\ UnlockBuckets(t) /\ numThreads' = numThreads /\ registered' = registered /\ ForgetLocals(t)
  BY DEF Dequeue, HasLocked
<1>2. PICK b, R : b = TheBucket(t) /\ R = Removed(t)
  OBVIOUS
<1>3. /\ b \in 1..Len(bucketQueue) /\ target[t] \in Addresses /\ hashtable \in 1..Len(tables)
      /\ b = BucketAt(hashtable, target[t])
      /\ R \subseteq Threads /\ \A w \in R : address[w] # Null => address[w] = target[t]
      /\ bucketQueue' \in Seq(Seq(Threads)) /\ Len(bucketQueue') = Len(bucketQueue)
      /\ Distinct(bucketQueue'[b]) /\ Members(bucketQueue'[b]) = Members(bucketQueue[b]) \ R
      /\ \A c \in 1..Len(bucketQueue) : c # b => bucketQueue'[c] = bucketQueue[c]
      /\ address' \in [Threads -> Addresses \cup {Null}]
      /\ \A w \in Threads : address'[w] = IF w \in R THEN Null ELSE address[w]
      /\ tables' = tables /\ hashtable' = hashtable
  <2>1. Dequeued(t, b, R)
    BY <1>2, DequeueFacts
  <2>2. QED
    BY <2>1 DEF Dequeued
<1>4. TypeInv /\ LocalInv /\ LinkInv /\ Len(bucketQueue) \in Nat
  BY SpineTypes DEF Inv
<1>5. pc' = [w \in Threads |-> IF w = t \/ (w \in R /\ pc[w] = "parked") THEN "idle" ELSE pc[w]]
  BY <1>2 DEF Dequeue
<1>6. /\ \A u \in Threads \ {t} : /\ op'[u] = op[u] /\ target'[u] = target[u] /\ mine'[u] = mine[u]
                                  /\ buckets'[u] = buckets[u] /\ count'[u] = count[u]
      /\ op'[t] = "none" /\ target'[t] = Null /\ mine'[t] = 0 /\ buckets'[t] = {} /\ count'[t] = 0
  BY <1>1, <1>4 DEF ForgetLocals, TypeInv, TypeOK
<1>7. /\ pc' \in [Threads -> {"idle", "sizeCheck", "table", "find", "parked", "gone"}] /\ pc'[t] = "idle"
      /\ \A u \in Threads \ {t} : pc'[u] = IF u \in R /\ pc[u] = "parked" THEN "idle" ELSE pc[u]
  BY <1>4, <1>5 DEF TypeInv, TypeOK
<1>8. Unlocks(t)
  <2>1. Len(bucketQueue) <= Len(bucketQueue') /\ SpinesKept
    BY <1>3, <1>4, SpineTypes DEF SpinesKept
  <2>2. \A u \in Threads \ {t} : pc[u] = "find" => pc'[u] = "find"
    BY <1>7
  <2>3. QED
    BY <1>1, <1>3, <1>6, <2>1, <2>2 DEF Unlocks
<1>9. FoundInv' /\ LockInv' /\ bucketLock' \in Seq(Threads \cup {Null}) /\ Len(bucketLock') = Len(bucketQueue')
  BY <1>8, UnlockStep
<1>10. TypeInv'
  <2>1. /\ op' \in [Threads -> {"none", "enqueue", "unparkOne", "unparkAll", "timeout", "rehash", "forEach"}]
        /\ target' \in [Threads -> Addresses \cup {Null}]
        /\ mine' \in [Threads -> 0..Len(tables)]
        /\ buckets' \in [Threads -> SUBSET (1..Len(bucketQueue))]
        /\ count' \in [Threads -> 0..Cardinality(Threads)]
    BY <1>1, <1>4, ForgetTypes
  <2>2. QED
    BY <1>1, <1>3, <1>4, <1>7, <1>9, <2>1, QueueTypes
<1>11. LocalInv'
  <2>1. LocalOK(t)'
    <3>1. address'[t] = Null
      <4>1. CASE op[t] = "timeout"
        <5>1. t \in R
          BY <1>1, <1>2, <4>1, RemovedFacts
        <5>2. QED
          BY <1>3, <5>1
      <4>2. CASE op[t] # "timeout"
        <5>1. address[t] = Null
          BY <1>1, <1>4, <4>2 DEF LocalInv, LocalOK
        <5>2. QED
          BY <1>3, <5>1
      <4>3. QED
        BY <4>1, <4>2
    <3>2. Null \notin Addresses
      BY DEF TableAssumption
    <3>3. QED
      BY <1>6, <1>7, <3>1, <3>2 DEF LocalOK
  <2>2. ASSUME NEW u \in Threads \ {t} PROVE LocalOK(u)'
    <3>1. LocalOK(u)
      BY <1>4 DEF LocalInv
    <3>2. CASE u \in R
      <4>1. address'[u] = Null
        BY <1>3, <3>2
      <4>2. CASE pc[u] = "parked"
        <5>1. pc'[u] = "idle"
          BY <1>7, <3>2, <4>2
        <5>2. QED
          BY <1>6, <3>1, <4>1, <4>2, <5>1 DEF LocalOK
      <4>3. CASE pc[u] # "parked"
        <5>1. pc'[u] = pc[u]
          BY <1>7, <4>3
        <5>2. QED
          BY <1>6, <3>1, <4>1, <4>3, <5>1 DEF LocalOK
      <4>4. QED
        BY <4>2, <4>3
    <3>3. CASE u \notin R
      <4>1. address'[u] = address[u] /\ pc'[u] = pc[u]
        BY <1>3, <1>7, <3>3
      <4>2. QED
        BY <1>6, <3>1, <4>1 DEF LocalOK
    <3>4. QED
      BY <3>2, <3>3
  <2>3. QED
    BY <2>1, <2>2 DEF LocalInv
<1>12. SpineInv'
  BY <1>3, SpineFrame DEF Inv
<1>13. /\ \A c \in 1..Len(bucketQueue) : Distinct(bucketQueue[c])
       /\ \A c \in 1..Len(bucketQueue) : \A w \in Members(bucketQueue[c]) :
             w \in Threads /\ address[w] \in Addresses /\ c = BucketAt(hashtable, address[w])
  <2>1. \A c \in 1..Len(bucketQueue) : \A w \in Members(bucketQueue[c]) : w \in Threads
    BY <1>4 DEF Members, TypeInv, TypeOK
  <2>2. QED
    BY <1>4, <2>1, LinkedOnceHolds
<1>14. LinkInv'
  <2>1. ASSUME NEW c \in 1..Len(bucketQueue), NEW w \in Members(bucketQueue'[c])
        PROVE  w \in Members(bucketQueue[c]) /\ w \notin R
    <3>1. CASE c = b
      BY <1>3, <3>1
    <3>2. CASE c # b
      <4>1. w \in Members(bucketQueue[c])
        BY <1>3, <3>2
      <4>2. address[w] \in Addresses /\ c = BucketAt(hashtable, address[w])
        BY <1>13, <4>1
      <4>3. address[w] # target[t] /\ address[w] # Null
        BY <1>3, <3>2, <4>2 DEF TableAssumption
      <4>4. QED
        BY <1>3, <4>1, <4>3
    <3>3. QED
      BY <3>1, <3>2
  <2>2. ASSUME NEW c \in 1..Len(bucketQueue)
        PROVE  /\ Distinct(bucketQueue'[c])
               /\ \A w \in Members(bucketQueue'[c]) : address'[w] \in Addresses /\ c = BucketAt(hashtable, address'[w])
    <3>1. Distinct(bucketQueue'[c])
      BY <1>3, <1>13
    <3>2. ASSUME NEW w \in Members(bucketQueue'[c])
          PROVE  address'[w] \in Addresses /\ c = BucketAt(hashtable, address'[w])
      <4>1. w \in Members(bucketQueue[c]) /\ w \notin R
        BY <2>1
      <4>2. w \in Threads /\ address[w] \in Addresses /\ c = BucketAt(hashtable, address[w])
        BY <1>13, <4>1
      <4>3. address'[w] = address[w]
        BY <1>3, <4>1, <4>2
      <4>4. QED
        BY <4>2, <4>3
    <3>3. QED
      BY <3>1, <3>2
  <2>3. ASSUME NEW u \in Threads, address'[u] # Null
        PROVE  /\ hashtable # 0 /\ BucketAt(hashtable, address'[u]) # 0
               /\ u \in Members(bucketQueue'[BucketAt(hashtable, address'[u])])
    <3>1. hashtable # 0 /\ u \notin R /\ address'[u] = address[u]
      BY <1>3, <2>3
    <3>2. PICK a, c : a = address[u] /\ a = address'[u] /\ c = BucketAt(hashtable, a)
      BY <3>1
    <3>3. a \in Addresses /\ c # 0 /\ u \in Members(bucketQueue[c])
      <4>1. address[u] \in Addresses \cup {Null} /\ address[u] # Null
        BY <1>4, <2>3, <3>1 DEF TypeInv, TypeOK
      <4>2. BucketAt(hashtable, address[u]) # 0 /\ u \in Members(bucketQueue[BucketAt(hashtable, address[u])])
        BY <1>4, <4>1 DEF LinkInv
      <4>3. QED
        BY <3>2, <4>1, <4>2
    <3>4. c \in 1..Len(bucketQueue)
      <4>1. c \in 0..Len(bucketQueue)
        BY <1>3, <1>4, <3>2, <3>3, BucketAtType
      <4>2. QED
        BY <1>4, <3>3, <4>1
    <3>5. u \in Members(bucketQueue'[c])
      <4>1. CASE c = b
        BY <1>3, <3>1, <3>3, <4>1
      <4>2. CASE c # b
        BY <1>3, <3>3, <3>4, <4>2
      <4>3. QED
        BY <4>1, <4>2
    <3>6. QED
      BY <3>1, <3>2, <3>3, <3>5
  <2>4. QED
    BY <1>3, <2>2, <2>3, LinkInvFrom
<1>15. LoadInv'
  <2>1. count[t] = 0
    BY <1>1, <1>4 DEF LocalInv, LocalOK
  <2>2. QED
    BY <1>1, <1>3, <1>6, <2>1, LoadFrame
<1>16. QED
  BY <1>9, <1>10, <1>11, <1>12, <1>14, <1>15 DEF Inv

-----------------------------------------------------------------------------
(* A rehash                                                                 *)

LEMMA GrownSize ==
    ASSUME NEW c \in Nat \ {0}, NEW g \in Nat \ {0}, NEW m \in Nat \ {0}
    PROVE  c * g * m \in Nat \ {0} /\ m * c \in Nat /\ m * c <= c * g * m
<1>1. PICK d \in Nat : d = c * g /\ c <= d
  <2>1. c * 1 \in Nat /\ c * g \in Nat /\ c * 1 <= c * g
    BY Times
  <2>2. QED
    BY <2>1
<1>2. m * c \in Nat /\ m * d \in Nat /\ m * c <= m * d
  BY <1>1, Times
<1>3. m * 1 \in Nat /\ m * c \in Nat /\ m * 1 <= m * c
  BY Times
<1>4. m * d = c * g * m
  BY <1>1
<1>5. m * d \in Nat \ {0}
  BY <1>2, <1>3
<1>6. QED
  BY <1>2, <1>4, <1>5

(* A full table has as many places as there are buckets.                    *)
LEMMA FullTable ==
    ASSUME NEW size \in Nat, NEW n \in Nat, NEW d \in [0..(size - 1) -> 0..n],
           \A i \in 0..(size - 1) : d[i] # 0, \A b \in 1..n : \E i \in 0..(size - 1) : d[i] = b
    PROVE  n <= size
<1>1. \A i \in 0..(size - 1) : d[i] \in 1..n
  OBVIOUS
<1>2. d \in Surjection(0..(size - 1), 1..n)
  BY <1>1 DEF Surjection
<1>3. IsFiniteSet(1..n) /\ Cardinality(1..n) = n
  BY FS_Interval
<1>4. IsFiniteSet(0..(size - 1)) /\ Cardinality(0..(size - 1)) = size
  <2>1. 0 \in Int /\ size - 1 \in Int
    OBVIOUS
  <2>2. IsFiniteSet(0..(size - 1)) /\ Cardinality(0..(size - 1)) = IF 0 > size - 1 THEN 0 ELSE size - 1 - 0 + 1
    BY <2>1, FS_Interval
  <2>3. QED
    BY <2>2
<1>5. Cardinality(1..n) <= Cardinality(0..(size - 1))
  BY <1>2, <1>4, FS_Surjection
<1>6. QED
  BY <1>3, <1>4, <1>5

\* What ensureHashtableSize() of t does to the spines and the queues: new is made for size places,
\* with every bucket of the current table, which is full, locked.
Grown(t, new, size) ==
    /\ hashtable = Len(tables) /\ hashtable \in 1..Len(tables) /\ Len(tables) \in Nat /\ Len(bucketQueue) \in Nat
    /\ size \in Nat \ {0} /\ size > tables[hashtable].size /\ size >= MaxLoadFactor * count[t]
    /\ NewTableOK(new, size, Len(bucketQueue), Gathered(1..Len(bucketQueue)))
    /\ \A i \in 0..(tables[hashtable].size - 1) : tables[hashtable].data[i] # 0
    /\ tables' \in Seq(Spines) /\ Len(tables') = Len(tables) + 1
    /\ \A k \in 1..Len(tables) : tables'[k] = tables[k]
    /\ tables'[Len(tables) + 1].size = size /\ tables'[Len(tables) + 1].data = new.data
    /\ bucketQueue' = new.queues /\ hashtable' = Len(tables) + 1

LEMMA RehashFacts ==
    ASSUME TableAssumption, Inv, NEW t \in Threads, Rehash(t),
           NEW new, new = Resized(count[t], buckets[t]), NEW size, size = count[t] * GrowthFactor * MaxLoadFactor
    PROVE  Grown(t, new, size)
<1>1. /\ pc[t] = "find" /\ op[t] = "rehash" /\ ToFind(t) = {} /\ hashtable = mine[t]
      /\ ~LargeEnough(hashtable, count[t])
      /\ tables' = Append(tables, [size |-> new.size, data |-> new.data])
      /\ bucketQueue' = new.queues /\ hashtable' = Len(tables) + 1
  BY DEF Rehash, HasLocked, StillCurrent
<1>2. TypeInv /\ LocalOK(t) /\ LinkInv /\ SpineInv
  BY DEF Inv, LocalInv
<1>3. /\ hashtable \in 1..Len(tables) /\ buckets[t] = 1..Len(bucketQueue)
      /\ \A i \in 0..(tables[hashtable].size - 1) : tables[hashtable].data[i] # 0
  BY <1>1, AllBuckets
<1>4. PICK c, n, d, s : c = count[t] /\ n = Len(bucketQueue) /\ d = tables[hashtable].data /\ s = tables[hashtable].size
  OBVIOUS
<1>5. /\ hashtable = Len(tables) /\ Len(tables) \in Nat /\ n \in Nat /\ s \in Nat \ {0}
      /\ d \in [0..(s - 1) -> 0..n] /\ DOMAIN d = 0..(s - 1)
  BY <1>2, <1>3, <1>4, SpineTypes
<1>6. c \in Nat \ {0}
  BY <1>1, <1>2, <1>4, CountTypes DEF LocalOK
<1>7. /\ size \in Nat \ {0} /\ MaxLoadFactor * c \in Nat /\ MaxLoadFactor * c <= size
  BY <1>4, <1>6, GrownSize DEF TableAssumption
<1>8. s < MaxLoadFactor * c
  <2>1. ~(s >= MaxLoadFactor * c)
    BY <1>1, <1>3, <1>4 DEF LargeEnough
  <2>2. QED
    BY <1>5, <1>7, <2>1
<1>9. n <= s
  <2>1. \A b \in 1..n : \E i \in 0..(s - 1) : d[i] = b
    BY <1>2, <1>4, <1>5 DEF SpineInv
  <2>2. (\A i \in 0..(s - 1) : d[i] # 0) /\ s \in Nat
    BY <1>3, <1>4, <1>5
  <2>3. QED
    BY <1>5, <2>1, <2>2, FullTable
<1>10. size > s /\ size > n
  BY <1>5, <1>7, <1>8, <1>9
<1>11. NewTableOK(new, size, n, Gathered(1..n))
  <2>1. bucketQueue \in Seq(Seq(Threads))
    BY <1>2 DEF TypeInv, TypeOK
  <2>2. PICK bs : bs = 1..Len(bucketQueue)
    OBVIOUS
  <2>3. LinkedOnce /\ \A b \in bs : \A w \in Members(bucketQueue[b]) : address[w] \in Addresses
    BY <1>2, <2>2, LinkedOnceHolds
  <2>4. size = c * GrowthFactor * MaxLoadFactor /\ new = Resized(c, bs) /\ size > Len(bucketQueue)
    BY <1>3, <1>4, <1>10, <2>2
  <2>5. NewTableOK(Resized(c, bs), size, Len(bucketQueue), Gathered(bs))
    BY <1>6, <1>7, <2>1, <2>2, <2>3, <2>4, ResizedOK
  <2>6. QED
    BY <1>4, <2>2, <2>4, <2>5
<1>12. PICK e : e = new.data
  OBVIOUS
<1>13. e \in [0..(size - 1) -> Nat] /\ new.size = size
  BY <1>11, <1>12 DEF NewTableOK
<1>14. PICK sp \in Spines : sp = [size |-> size, data |-> e]
  BY <1>7, <1>13 DEF Spines
<1>15. tables' = Append(tables, sp)
  BY <1>1, <1>12, <1>13, <1>14
<1>16. /\ tables' \in Seq(Spines) /\ Len(tables') = Len(tables) + 1
       /\ \A k \in 1..Len(tables) : tables'[k] = tables[k]
       /\ tables'[Len(tables) + 1] = sp
  BY <1>2, <1>15, AppendSpine
<1>17. sp.size = size /\ sp.data = e
  BY <1>14
<1>18. QED
  BY <1>1, <1>3, <1>4, <1>5, <1>7, <1>10, <1>11, <1>12, <1>16, <1>17 DEF Grown

(* Where the threads are linked after a rehash.                             *)
LEMMA GrownLinks ==
    ASSUME TableAssumption, Inv, NEW t \in Threads, NEW new, NEW size, Grown(t, new, size)
    PROVE  /\ \A c \in 1..Len(new.queues) : Distinct(new.queues[c])
           /\ \A c \in 1..Len(new.queues) : \A w \in Members(new.queues[c]) :
                 w \in Threads /\ address[w] \in Addresses /\ new.data[Index(address[w], size)] = c
           /\ \A u \in Threads : address[u] # Null => \E c \in 1..Len(new.queues) :
                 new.data[Index(address[u], size)] = c /\ u \in Members(new.queues[c])
<1>1. PICK ws, q, d, bs : ws = Gathered(1..Len(bucketQueue)) /\ q = new.queues /\ d = new.data /\ bs = 1..Len(bucketQueue)
  OBVIOUS
<1>2. TypeInv /\ LinkInv
  BY DEF Inv
<1>3. q \in Seq(Seq(Threads)) /\ Content(d, q, size, ws, Len(ws))
  BY <1>1 DEF Grown, NewTableOK
<1>4. bucketQueue \in Seq(Seq(Threads)) /\ LinkedOnce /\ hashtable \in 1..Len(tables)
  BY <1>2, LinkedOnceHolds DEF TypeInv, TypeOK, Grown
<1>5. /\ \A b \in bs : \A i \in 1..Len(bucketQueue[b]) : bucketQueue[b][i] \in Members(ws)
      /\ \A w \in Members(ws) : \E b \in bs : w \in Members(bucketQueue[b])
  BY <1>1, <1>4, GatheredInOrder DEF TableAssumption
<1>6. \A c \in 1..Len(q) : Distinct(q[c])
  BY <1>3 DEF Content
<1>7. ASSUME NEW c \in 1..Len(q), NEW w \in Members(q[c])
      PROVE  w \in Threads /\ address[w] \in Addresses /\ d[Index(address[w], size)] = c
  <2>1. w \in Threads
    BY <1>3 DEF Members
  <2>2. w \in Members(ws)
    <3>1. PICK j \in 1..Len(ws) : ws[j] = w
      BY <1>3 DEF Content
    <3>2. QED
      BY <3>1 DEF Members
  <2>3. PICK b \in bs : w \in Members(bucketQueue[b])
    BY <1>5, <2>2
  <2>4. address[w] \in Addresses
    BY <1>1, <1>2, <2>3, LinkedOnceHolds
  <2>5. QED
    BY <1>3, <2>1, <2>4 DEF Content
<1>8. ASSUME NEW u \in Threads, address[u] # Null
      PROVE  \E c \in 1..Len(q) : d[Index(address[u], size)] = c /\ u \in Members(q[c])
  <2>1. PICK b : b = BucketAt(hashtable, address[u])
    OBVIOUS
  <2>2. b # 0 /\ u \in Members(bucketQueue[b])
    BY <1>2, <1>8, <2>1 DEF LinkInv
  <2>3. b \in bs
    <3>1. address[u] \in Addresses
      BY <1>2, <1>8 DEF TypeInv, TypeOK
    <3>2. b \in 0..Len(bucketQueue)
      BY <1>2, <1>4, <2>1, <3>1, BucketAtType
    <3>3. QED
      BY <1>1, <1>2, <2>2, <3>2, SpineTypes
  <2>4. u \in Members(ws)
    BY <1>5, <2>2, <2>3 DEF Members
  <2>5. PICK j \in 1..Len(ws) : ws[j] = u
    BY <2>4 DEF Members
  <2>6. PICK c \in 1..Len(q) : u \in Members(q[c])
    BY <1>3, <2>5 DEF Content
  <2>7. QED
    BY <1>7, <2>6
<1>9. QED
  BY <1>1, <1>6, <1>7, <1>8

LEMMA RehashInv ==
    ASSUME TableAssumption, Inv, NEW t \in Threads, Rehash(t)
    PROVE  Inv'
<1>1. /\ pc[t] = "find" /\ op[t] = "rehash" /\ ToFind(t) = {} /\ Held(t) = buckets[t] /\ Finish(t, "idle")
      /\ UnlockBuckets(t) /\ numThreads' = numThreads /\ registered' = registered /\ address' = address
  BY DEF Rehash, HasLocked
<1>2. PICK new, size : new = Resized(count[t], buckets[t]) /\ size = count[t] * GrowthFactor * MaxLoadFactor
  OBVIOUS
<1>3. Grown(t, new, size)
  BY <1>2, RehashFacts
<1>4. TypeInv /\ LocalOK(t) /\ LinkInv /\ SpineInv
  BY DEF Inv, LocalInv
<1>5. PICK d, q, n, N, H : d = new.data /\ q = new.queues /\ n = Len(bucketQueue) /\ N = Len(q) /\ H = Len(tables) + 1
  OBVIOUS
<1>6. /\ hashtable = Len(tables) /\ Len(tables) \in Nat /\ n \in Nat /\ H \in Nat /\ hashtable \in 1..Len(tables)
      /\ size \in Nat \ {0} /\ size > tables[hashtable].size /\ size >= MaxLoadFactor * count[t]
      /\ \A i \in 0..(tables[hashtable].size - 1) : tables[hashtable].data[i] # 0
  BY <1>3, <1>5 DEF Grown
<1>7. /\ tables' \in Seq(Spines) /\ Len(tables') = H /\ \A k \in 1..Len(tables) : tables'[k] = tables[k]
      /\ tables'[H].size = size /\ tables'[H].data = d /\ bucketQueue' = q /\ hashtable' = H
  BY <1>3, <1>5 DEF Grown
<1>8. /\ d \in [0..(size - 1) -> Nat] /\ q \in Seq(Seq(Threads)) /\ N >= n /\ N \in Nat
      /\ \A i \in 0..(size - 1) : d[i] <= N
      /\ \A i, j \in 0..(size - 1) : d[i] # 0 /\ d[i] = d[j] => i = j
      /\ \A b \in 1..N : \E i \in 0..(size - 1) : d[i] = b
  <2>1. NewTableOK(new, size, n, Gathered(1..n))
    BY <1>3, <1>5 DEF Grown
  <2>2. QED
    BY <1>5, <2>1 DEF NewTableOK
<1>9. (\A u \in Threads \ {t} : SameFor(u)) /\ LocalOK(t)' /\ buckets'[t] = {}
  <2>1. address[t] = Null
    BY <1>1, <1>4 DEF LocalOK
  <2>2. QED
    BY <1>1, <1>4, <2>1, FinishLocals
<1>10. Unlocks(t)
  <2>1. bucketQueue' \in Seq(Seq(Threads)) /\ Len(bucketQueue) <= Len(bucketQueue') /\ SpinesKept
    BY <1>5, <1>6, <1>7, <1>8 DEF SpinesKept
  <2>2. QED
    BY <1>1, <1>9, <2>1 DEF Unlocks, SameFor
<1>11. FoundInv' /\ LockInv' /\ bucketLock' \in Seq(Threads \cup {Null}) /\ Len(bucketLock') = Len(bucketQueue')
  BY <1>10, UnlockStep
<1>12. \A k \in 1..H : k \in 1..Len(tables) \/ k = H
  BY <1>5, <1>6
<1>13. TypeInv'
  <2>1. ASSUME NEW k \in 1..H
        PROVE  tables'[k].size \in Nat \ {0} /\ tables'[k].data \in [0..(tables'[k].size - 1) -> 0..N]
    <3>1. CASE k = H
      <4>1. d \in [0..(size - 1) -> 0..N]
        BY <1>8
      <4>2. QED
        BY <1>6, <1>7, <3>1, <4>1
    <3>2. CASE k \in 1..Len(tables)
      <4>1. PICK e, s : e = tables[k].data /\ s = tables[k].size
        OBVIOUS
      <4>2. s \in Nat \ {0} /\ e \in [0..(s - 1) -> 0..n]
        BY <1>4, <1>5, <3>2, <4>1, SpineTypes
      <4>3. e \in [0..(s - 1) -> 0..N]
        BY <1>6, <1>8, <4>2
      <4>4. QED
        BY <1>7, <3>2, <4>1, <4>2, <4>3
    <3>3. QED
      BY <1>12, <3>1, <3>2
  <2>2. /\ pc' \in [Threads -> {"idle", "sizeCheck", "table", "find", "parked", "gone"}]
        /\ op' \in [Threads -> {"none", "enqueue", "unparkOne", "unparkAll", "timeout", "rehash", "forEach"}]
        /\ target' \in [Threads -> Addresses \cup {Null}]
        /\ mine' \in [Threads -> 0..Len(tables)]
        /\ buckets' \in [Threads -> SUBSET (1..Len(bucketQueue))]
        /\ count' \in [Threads -> 0..Cardinality(Threads)]
    BY <1>1, <1>4, FinishTypes
  <2>3. mine' \in [Threads -> 0..H] /\ buckets' \in [Threads -> SUBSET (1..N)]
    <3>1. 0..Len(tables) \subseteq 0..H /\ 1..n \subseteq 1..N
      BY <1>5, <1>6, <1>8
    <3>2. QED
      BY <1>5, <2>2, <3>1
  <2>4. address' \in [Threads -> Addresses \cup {Null}] /\ numThreads' = Cardinality(registered') /\ registered' \subseteq Threads
    BY <1>1, <1>4 DEF TypeInv, TypeOK
  <2>5. QED
    BY <1>5, <1>7, <1>8, <1>11, <2>1, <2>2, <2>3, <2>4 DEF TypeInv, TypeOK
<1>14. LocalInv'
  <2>1. \A u \in Threads \ {t} : LocalOK(u)'
    BY <1>1, <1>9, LocalFrame DEF Inv, LocalInv
  <2>2. QED
    BY <1>9, <2>1 DEF LocalInv
<1>15. SpineInv'
  <2>1. \A k \in 1..(H - 1) : k \in 1..Len(tables) /\ (k = hashtable \/ k \in 1..(Len(tables) - 1))
    BY <1>5, <1>6
  <2>2. \A k \in 1..(Len(tables) - 1) : k + 1 \in 1..Len(tables) /\ k \in 1..Len(tables)
    BY <1>6
  <2>3. hashtable + 1 = H /\ DOMAIN d = 0..(size - 1)
    BY <1>5, <1>6, <1>8
  <2>4. ASSUME NEW k \in 1..(H - 1)
        PROVE  /\ tables'[k + 1].size > tables'[k].size
               /\ \A i \in DOMAIN tables'[k].data :
                     /\ tables'[k].data[i] # 0
                     /\ \E j \in DOMAIN tables'[k + 1].data : tables'[k + 1].data[j] = tables'[k].data[i]
    <3>1. CASE k = hashtable
      <4>1. PICK e, s : e = tables[hashtable].data /\ s = tables[hashtable].size
        OBVIOUS
      <4>2. tables'[k].size = s /\ tables'[k].data = e /\ tables'[k + 1].size = size /\ tables'[k + 1].data = d
        BY <1>6, <1>7, <2>3, <3>1, <4>1
      <4>3. DOMAIN e = 0..(s - 1) /\ \A i \in 0..(s - 1) : e[i] \in 0..n
        BY <1>4, <1>5, <1>6, <4>1, SpineTypes
      <4>4. ASSUME NEW i \in 0..(s - 1) PROVE e[i] # 0 /\ \E j \in 0..(size - 1) : d[j] = e[i]
        <5>1. e[i] # 0
          BY <1>6, <4>1
        <5>2. e[i] \in 1..N
          BY <1>6, <1>8, <4>3, <5>1
        <5>3. QED
          BY <1>8, <5>1, <5>2
      <4>5. QED
        BY <1>6, <2>3, <4>1, <4>2, <4>3, <4>4
    <3>2. CASE k \in 1..(Len(tables) - 1)
      <4>1. tables'[k] = tables[k] /\ tables'[k + 1] = tables[k + 1]
        BY <1>7, <2>2, <3>2
      <4>2. QED
        BY <1>4, <3>2, <4>1 DEF SpineInv
    <3>3. QED
      BY <2>1, <3>1, <3>2
  <2>5. ASSUME NEW k \in 1..H, NEW i \in DOMAIN tables'[k].data, NEW j \in DOMAIN tables'[k].data,
               tables'[k].data[i] # 0, tables'[k].data[i] = tables'[k].data[j]
        PROVE  i = j
    <3>1. CASE k = H
      BY <1>7, <1>8, <2>3, <2>5, <3>1
    <3>2. CASE k \in 1..Len(tables)
      BY <1>4, <1>7, <2>5, <3>2 DEF SpineInv
    <3>3. QED
      BY <1>12, <3>1, <3>2
  <2>6. \A b \in 1..N : hashtable' # 0 /\ \E i \in DOMAIN tables'[hashtable'].data : tables'[hashtable'].data[i] = b
    <3>1. H # 0 /\ hashtable' = H /\ DOMAIN tables'[H].data = 0..(size - 1) /\ tables'[H].data = d
      BY <1>5, <1>6, <1>7, <2>3
    <3>2. QED
      BY <1>8, <3>1
  <2>7. QED
    BY <1>5, <1>7, <2>4, <2>5, <2>6 DEF SpineInv
<1>16. /\ \A c \in 1..N : Distinct(q[c])
       /\ \A c \in 1..N : \A w \in Members(q[c]) :
             w \in Threads /\ address[w] \in Addresses /\ d[Index(address[w], size)] = c
       /\ \A u \in Threads : address[u] # Null => \E c \in 1..N :
             d[Index(address[u], size)] = c /\ u \in Members(q[c])
  BY <1>3, <1>5, GrownLinks
<1>17. \A w : BucketAt(hashtable, address[w])' = d[Index(address[w], size)]
  BY <1>1, <1>7 DEF BucketAt
<1>18. LinkInv'
  <2>1. ASSUME NEW c \in 1..N, NEW i \in 1..Len(q[c])
        PROVE  /\ address'[q[c][i]] \in Addresses
               /\ c = d[Index(address[q[c][i]], size)]
               /\ \A j \in 1..Len(q[c]) : q[c][i] = q[c][j] => i = j
    <3>1. PICK w : w = q[c][i]
      OBVIOUS
    <3>2. w \in Members(q[c])
      BY <3>1 DEF Members
    <3>3. address[w] \in Addresses /\ d[Index(address[w], size)] = c
      BY <1>16, <3>2
    <3>4. Distinct(q[c])
      BY <1>16
    <3>5. QED
      BY <1>1, <3>1, <3>3, <3>4 DEF Distinct
  <2>2. \A c \in 1..N : \A i \in 1..Len(q[c]) :
          BucketAt(hashtable, address[bucketQueue[c][i]])' = d[Index(address[q[c][i]], size)]
    BY <1>1, <1>7 DEF BucketAt
  <2>3. ASSUME NEW u \in Threads, address[u] # Null
        PROVE  /\ hashtable' # 0 /\ BucketAt(hashtable, address[u])' # 0
               /\ u \in Members(bucketQueue[BucketAt(hashtable, address[u])])'
    <3>1. PICK c \in 1..N : d[Index(address[u], size)] = c /\ u \in Members(q[c])
      BY <1>16, <2>3
    <3>2. BucketAt(hashtable, address[u])' = c
      BY <1>17, <3>1
    <3>3. Members(bucketQueue[BucketAt(hashtable, address[u])])' = Members(q[c])
      BY <1>7, <3>2
    <3>4. hashtable' # 0 /\ c # 0
      BY <1>5, <1>6, <1>7, <1>8
    <3>5. QED
      BY <3>1, <3>2, <3>3, <3>4
  <2>4. \A c \in 1..Len(bucketQueue') : \A i \in 1..Len(bucketQueue'[c]) :
          /\ address'[bucketQueue'[c][i]] \in Addresses
          /\ c = BucketAt(hashtable, address[bucketQueue[c][i]])'
          /\ \A j \in 1..Len(bucketQueue'[c]) : bucketQueue'[c][i] = bucketQueue'[c][j] => i = j
    <3>1. SUFFICES ASSUME NEW c \in 1..N, NEW i \in 1..Len(q[c])
                   PROVE  /\ address'[q[c][i]] \in Addresses
                          /\ c = BucketAt(hashtable, address[bucketQueue[c][i]])'
                          /\ \A j \in 1..Len(q[c]) : q[c][i] = q[c][j] => i = j
      BY <1>5, <1>7
    <3>2. BucketAt(hashtable, address[bucketQueue[c][i]])' = d[Index(address[q[c][i]], size)]
      BY <2>2
    <3>3. QED
      BY <2>1, <3>2
  <2>5. QED
    BY <1>1, <2>3, <2>4 DEF LinkInv
<1>19. LoadInv'
  <2>1. SUFFICES ASSUME numThreads > 0 PROVE LargeEnough(hashtable, numThreads)' \/ \E u \in Threads : count'[u] >= numThreads
    BY <1>1 DEF LoadInv
  <2>2. numThreads \in Nat /\ count[t] \in Nat
    BY <1>4, CountTypes
  <2>3. hashtable' # 0 /\ tables'[hashtable'].size = size
    BY <1>5, <1>6, <1>7
  <2>4. CASE LargeEnough(hashtable, numThreads)
    <3>1. tables[hashtable].size >= MaxLoadFactor * numThreads
      BY <2>4 DEF LargeEnough
    <3>2. MaxLoadFactor * numThreads \in Nat /\ tables[hashtable].size \in Nat
      <4>1. tables[hashtable].size \in Nat
        BY <1>4, <1>6, SpineTypes
      <4>2. MaxLoadFactor * numThreads \in Nat
        BY <2>2 DEF TableAssumption
      <4>3. QED
        BY <4>1, <4>2
    <3>3. size >= MaxLoadFactor * numThreads
      BY <1>6, <3>1, <3>2
    <3>4. QED
      BY <1>1, <2>3, <3>3 DEF LargeEnough
  <2>5. CASE count[t] >= numThreads
    <3>1. MaxLoadFactor * numThreads \in Nat /\ MaxLoadFactor * count[t] \in Nat
          /\ MaxLoadFactor * numThreads <= MaxLoadFactor * count[t]
      BY <2>2, <2>5, Times DEF TableAssumption
    <3>2. size >= MaxLoadFactor * numThreads
      BY <1>6, <3>1
    <3>3. QED
      BY <1>1, <2>3, <3>2 DEF LargeEnough
  <2>6. CASE \E u \in Threads \ {t} : count[u] >= numThreads
    BY <1>9, <2>6 DEF SameFor
  <2>7. LargeEnough(hashtable, numThreads) \/ \E u \in Threads : count[u] >= numThreads
    BY <2>1 DEF Inv, LoadInv
  <2>8. QED
    BY <2>4, <2>5, <2>6, <2>7
<1>20. QED
  BY <1>11, <1>13, <1>14, <1>15, <1>18, <1>19 DEF Inv

-----------------------------------------------------------------------------
(* The invariant                                                            *)

LEMMA StepInv ==
    ASSUME TableAssumption, Inv, NEW t \in Threads, Step(t)
    PROVE  Inv'
<1>1. CASE SizeCheck(t) \/ EnsureHashtable(t)
  BY <1>1, SizeCheckInv, EnsureHashtableInv
<1>2. CASE FindBucket(t) \/ LockBucket(t)
  BY <1>2, FindBucketInv, LockBucketInv
<1>3. CASE Retry(t) \/ EnqueueSelf(t)
  BY <1>3, RetryInv, EnqueueSelfInv
<1>4. CASE Dequeue(t) \/ ForEach(t)
  BY <1>4, DequeueInv, ForEachInv
<1>5. CASE NoNeedToRehash(t) \/ Rehash(t)
  BY <1>5, NoNeedToRehashInv, RehashInv
<1>6. QED
  BY <1>1, <1>2, <1>3, <1>4, <1>5 DEF Step

LEMMA StutterInv ==
    ASSUME Inv, UNCHANGED vars
    PROVE  Inv'
<1>1. /\ tables' = tables /\ hashtable' = hashtable /\ bucketQueue' = bucketQueue /\ bucketLock' = bucketLock
      /\ numThreads' = numThreads /\ registered' = registered /\ address' = address
      /\ pc' = pc /\ op' = op /\ target' = target /\ mine' = mine /\ buckets' = buckets /\ count' = count
  BY DEF vars, shared, locals
<1>2. TypeInv'
  BY <1>1 DEF Inv, TypeInv, TypeOK
<1>3. LocalInv'
  BY <1>1 DEF Inv, LocalInv, LocalOK
<1>4. FoundInv'
  BY <1>1 DEF Inv, FoundInv, Wanted, NeedsAll
<1>5. LockInv'
  BY <1>1 DEF Inv, LockInv, ToFind, NeedsAll
<1>6. SpineInv'
  BY <1>1, SpineFrame DEF Inv
<1>7. LinkInv'
  BY <1>1 DEF Inv, LinkInv, BucketAt
<1>8. LoadInv'
  BY <1>1 DEF Inv, LoadInv, LargeEnough
<1>9. QED
  BY <1>2, <1>3, <1>4, <1>5, <1>6, <1>7, <1>8 DEF Inv

LEMMA NextInv == Inv /\ [Next]_vars => Inv'
<1> SUFFICES ASSUME Inv, [Next]_vars PROVE Inv'
  OBVIOUS
<1>1. CASE UNCHANGED vars
  BY <1>1, StutterInv
<1>2. ASSUME NEW t \in Threads, ThreadDataMade(t) \/ ThreadDataDestroyed(t) PROVE Inv'
  BY <1>2, TableAssumption, ThreadDataMadeInv, ThreadDataDestroyedInv
<1>3. ASSUME NEW t \in Threads, (\E a \in Addresses : ParkStart(t, a)) \/ TimeoutStart(t) \/ UnparkStart(t)
      PROVE  Inv'
  BY <1>3, TableAssumption, OperationStartInv
<1>4. ASSUME NEW t \in Threads, Step(t) PROVE Inv'
  BY <1>4, TableAssumption, StepInv
<1>5. QED
  BY <1>1, <1>2, <1>3, <1>4 DEF Next

LEMMA Invariant == Spec => []Inv
<1>1. Init => Inv
  BY TableAssumption, InitInv
<1>2. QED
  BY <1>1, NextInv, PTL DEF Spec

(* The state is well typed: spines, buckets and locals refer to each other  *)
(* within bounds.                                                           *)
THEOREM TypeCorrect == Spec => []TypeOK
<1>1. Inv => TypeOK
  BY DEF Inv, TypeInv
<1>2. QED
  BY <1>1, Invariant, PTL

(* The assertions of ensureHashtableSize() hold and the load factor is kept,*)
(* whatever the order in which threads make their ThreadData and raise the  *)
(* size.                                                                    *)
THEOREM TableSound == Spec => []TableIsSound
<1>1. ASSUME Inv PROVE RehashAssertionsHold
  <2>1. ASSUME NEW k \in 1..Len(tables), NEW data, data = tables[k].data
        PROVE  IsInjective([i \in {j \in DOMAIN data : data[j] # 0} |-> data[i]])
    <3>1. \A i, j \in DOMAIN data : data[i] # 0 /\ data[i] = data[j] => i = j
      BY <1>1, <2>1 DEF Inv, SpineInv
    <3>2. QED
      BY <3>1 DEF IsInjective
  <2>2. QED
    BY <1>1, <2>1 DEF RehashAssertionsHold, Inv, SpineInv
<1>2. ASSUME Inv PROVE LoadFactorKept
  <2>1. SUFFICES ASSUME \A t \in Threads : count[t] = 0, numThreads > 0 PROVE LargeEnough(hashtable, numThreads)
    BY DEF LoadFactorKept, LargeEnough
  <2>2. numThreads \in Nat
    BY <1>2, TableAssumption, CountTypes DEF Inv
  <2>3. \A t \in Threads : ~(count[t] >= numThreads)
    BY <2>1, <2>2
  <2>4. QED
    BY <1>2, <2>1, <2>3 DEF Inv, LoadInv
<1>3. Inv => TableIsSound
  BY <1>1, <1>2 DEF TableIsSound
<1>4. QED
  BY <1>3, Invariant, PTL

-----------------------------------------------------------------------------
(* Nobody waits in a circle                                                 *)

LEMMA WaitsForLarger ==
    ASSUME TableAssumption, Inv, NEW t \in Threads, Blocked(t), NEW b \in NextToLock(t)
    PROVE  /\ b \in 1..Len(bucketQueue) /\ bucketLock[b] \in Threads
           /\ op[bucketLock[b]] # "none"
           /\ Blocked(bucketLock[b]) => \E c \in NextToLock(bucketLock[b]) : c > b
<1>1. TypeInv /\ LocalInv /\ LockInv
  BY DEF Inv
<1>2. b \in buckets[t] /\ bucketLock[b] # Null
  BY DEF Blocked, NextToLock
<1>3. b \in 1..Len(bucketQueue) /\ Len(bucketQueue) \in Nat /\ Len(bucketLock) = Len(bucketQueue)
  BY <1>1, <1>2, SpineTypes DEF TypeInv, TypeOK
<1>4. PICK u : u = bucketLock[b]
  OBVIOUS
<1>5. u \in Threads
  BY <1>1, <1>2, <1>3, <1>4 DEF TypeInv, TypeOK
<1>6. pc[u] = "find" /\ b \in buckets[u] /\ \A c \in buckets[u] : c < b => bucketLock[c] = u
  BY <1>1, <1>3, <1>4, <1>5 DEF LockInv
<1>7. op[u] # "none"
  BY <1>1, <1>5, <1>6 DEF LocalInv, LocalOK
<1>8. ASSUME Blocked(u) PROVE \E c \in NextToLock(u) : c > b
  <2>1. PICK rest : rest = buckets[u] \ Held(u)
    OBVIOUS
  <2>2. buckets[u] \subseteq 1..Len(bucketQueue)
    BY <1>1, <1>5 DEF TypeInv, TypeOK
  <2>3. rest # {} /\ rest \in SUBSET Nat
    BY <1>3, <1>8, <2>1, <2>2 DEF Blocked, Held
  <2>4. PICK c \in rest : \A e \in rest : c <= e
    BY <2>3, Least
  <2>5. c \in NextToLock(u)
    BY <2>1, <2>4 DEF NextToLock
  <2>6. c \in buckets[u] /\ bucketLock[c] # u
    BY <2>1, <2>4 DEF Held
  <2>7. c # b /\ ~(c < b)
    BY <1>4, <1>6, <2>6
  <2>8. c > b
    BY <1>3, <2>3, <2>4, <2>7
  <2>9. QED
    BY <2>5, <2>8
<1>9. QED
  BY <1>3, <1>4, <1>5, <1>7, <1>8

(* Nobody waits in a circle: of the buckets that blocked threads wait for,  *)
(* take the last; its holder waits for none.  This is what the sort of      *)
(* lockHashtable() is for.                                                  *)
THEOREM NobodyWaitsInCircle == Spec => []NoCircularWait
<1>1. ASSUME Inv, NEW s \in Threads, Blocked(s)
      PROVE  \E t \in Threads : op[t] # "none" /\ ~Blocked(t)
  <2>1. SUFFICES ASSUME \A t \in Threads : op[t] # "none" => Blocked(t) PROVE FALSE
    OBVIOUS
  <2>2. PICK N \in Nat : N = Len(bucketQueue)
    BY <1>1, SpineTypes DEF Inv
  <2> DEFINE B == {b \in 0..N : \E t \in Threads : Blocked(t) /\ b \in NextToLock(t)}
  <2>3. ASSUME NEW t \in Threads, Blocked(t), NEW b \in NextToLock(t)
        PROVE  b \in B /\ \E c \in B : c > b
    <3>1. PICK u : u = bucketLock[b]
      OBVIOUS
    <3>2. b \in 1..N /\ u \in Threads /\ op[u] # "none" /\ (Blocked(u) => \E c \in NextToLock(u) : c > b)
      BY <1>1, <2>2, <2>3, <3>1, TableAssumption, WaitsForLarger
    <3>3. Blocked(u)
      BY <2>1, <3>2
    <3>4. PICK c \in NextToLock(u) : c > b
      BY <3>2, <3>3
    <3>5. c \in 1..N
      BY <1>1, <2>2, <3>2, <3>3, TableAssumption, WaitsForLarger
    <3>6. QED
      BY <2>2, <2>3, <3>2, <3>3, <3>4, <3>5
  <2>4. B # {}
    <3>1. buckets[s] \subseteq 1..Len(bucketQueue)
      BY <1>1 DEF Inv, TypeInv, TypeOK
    <3>2. buckets[s] \ Held(s) \in SUBSET Nat /\ buckets[s] \ Held(s) # {}
      BY <1>1, <2>2, <3>1 DEF Blocked, Held
    <3>3. PICK b \in buckets[s] \ Held(s) : \A c \in buckets[s] \ Held(s) : b <= c
      BY <3>2, Least
    <3>4. b \in NextToLock(s)
      BY <3>3 DEF NextToLock
    <3>5. QED
      BY <1>1, <2>3, <3>4
  <2>5. B \in SUBSET (0..N)
    OBVIOUS
  <2>6. PICK b \in B : \A c \in B : c <= b
    <3> HIDE DEF B
    <3>1. QED
      BY <2>4, <2>5, Largest
  <2>7. PICK c \in B : c > b
    BY <2>3, <2>6
  <2>8. QED
    BY <2>6, <2>7
<1>2. Inv => NoCircularWait
  BY <1>1 DEF NoCircularWait
<1>3. QED
  BY <1>2, Invariant, PTL

-----------------------------------------------------------------------------
(* The queue of an address                                                  *)

\* A lookup of a finds the threads parked on a, in the order of the bucket's queue.
QueueRight(a) ==
    /\ QueueOf(a) \in Seq(Threads) /\ Distinct(QueueOf(a))
    /\ \A w : w \in Members(QueueOf(a)) <=> w \in Threads /\ address[w] = a
    /\ \A v, w \in Members(QueueOf(a)) :
          Before(QueueOf(a), v, w) <=> Before(bucketQueue[BucketAt(hashtable, a)], v, w)
QueuesRight == \A a \in Addresses : QueueRight(a)

LEMMA QueuesRightHolds == Inv => QueuesRight
<1> SUFFICES ASSUME Inv, NEW a \in Addresses PROVE QueueRight(a)
  BY DEF QueuesRight
<1>1. TypeInv /\ LinkInv /\ a # Null
  BY TableAssumption DEF Inv, TableAssumption
<1>2. CASE hashtable = 0 \/ BucketAt(hashtable, a) = 0
  <2>1. QueueOf(a) = <<>>
    BY <1>2 DEF QueueOf, BucketAt
  <2>2. \A w \in Threads : address[w] # a
    BY <1>1, <1>2 DEF LinkInv
  <2>3. \A w : w \in Members(QueueOf(a)) <=> w \in Threads /\ address[w] = a
    BY <2>1, <2>2, EmptyInOrder
  <2>4. QED
    BY <2>1, <2>3, EmptyInOrder DEF QueueRight
<1>3. CASE hashtable # 0 /\ BucketAt(hashtable, a) # 0
  <2>1. PICK b, q, S : b = BucketAt(hashtable, a) /\ q = bucketQueue[b] /\ S = {w \in Threads : address[w] = a}
    OBVIOUS
  <2>2. b \in 1..Len(bucketQueue)
    <3>1. hashtable \in 1..Len(tables) /\ Len(bucketQueue) \in Nat
      BY <1>1, <1>3, SpineTypes
    <3>2. b \in 0..Len(bucketQueue)
      BY <1>1, <2>1, <3>1, TableAssumption, BucketAtType
    <3>3. QED
      BY <1>3, <2>1, <3>1, <3>2
  <2>3. q \in Seq(Threads) /\ Distinct(q)
    BY <1>1, <2>1, <2>2, LinkedOnceHolds DEF TypeInv, TypeOK
  <2>4. QueueOf(a) = Kept(q, S)
    BY <1>3, <2>1 DEF QueueOf, BucketAt
  <2>5. /\ Kept(q, S) \in Seq(Threads) /\ Distinct(Kept(q, S)) /\ Members(Kept(q, S)) = Members(q) \cap S
        /\ \A v, w \in Members(q) \cap S : Before(Kept(q, S), v, w) <=> Before(q, v, w)
    BY <2>3, KeptInOrder
  <2>6. S \subseteq Members(q)
    BY <1>1, <2>1 DEF LinkInv
  <2>7. \A w : w \in Members(QueueOf(a)) <=> w \in Threads /\ address[w] = a
    BY <2>1, <2>4, <2>5, <2>6
  <2>8. QED
    BY <2>1, <2>4, <2>5, <2>7 DEF QueueRight
<1>4. QED
  BY <1>2, <1>3

LEMMA QueuesRightAfter == Inv' => QueuesRight'
BY QueuesRightHolds, PTL

LEMMA AllFound == Inv => NoThreadLost
<1> SUFFICES ASSUME Inv PROVE NoThreadLost
  OBVIOUS
<1>1. TypeInv /\ LinkInv /\ LocalInv
  BY DEF Inv
<1>2. ASSUME NEW t \in Threads, pc[t] = "parked" PROVE t \in Members(QueueOf(address[t]))
  <2>1. address[t] \in Addresses
    BY <1>1, <1>2 DEF LocalInv, LocalOK, TypeInv, TypeOK
  <2>2. QueueRight(address[t])
    BY <2>1, QueuesRightHolds DEF QueuesRight
  <2>3. QED
    BY <2>2 DEF QueueRight
<1>3. ASSUME NEW p \in Linked(DOMAIN bucketQueue)
      PROVE  p[1] \in 1..Len(bucketQueue) /\ p[2] \in 1..Len(bucketQueue[p[1]]) /\ p = <<p[1], p[2]>>
  <2>1. PICK b \in DOMAIN bucketQueue : p \in {b} \X DOMAIN bucketQueue[b]
    BY DEF Linked
  <2>2. b \in 1..Len(bucketQueue) /\ bucketQueue[b] \in Seq(Threads)
    BY <1>1 DEF TypeInv, TypeOK
  <2>3. DOMAIN bucketQueue[b] = 1..Len(bucketQueue[b])
    BY <2>2
  <2>4. p[1] = b /\ p[2] \in 1..Len(bucketQueue[b]) /\ p = <<p[1], p[2]>>
    BY <2>1, <2>3
  <2>5. QED
    BY <2>2, <2>4
<1>4. ASSUME NEW p \in Linked(DOMAIN bucketQueue), NEW l \in Linked(DOMAIN bucketQueue),
             bucketQueue[p[1]][p[2]] = bucketQueue[l[1]][l[2]]
      PROVE  p = l
  <2>1. p[1] = l[1] /\ p[2] = l[2]
    BY <1>1, <1>3, <1>4, LinkedOnceHolds DEF LinkedOnce
  <2>2. QED
    BY <1>3, <2>1
<1>5. ASSUME NEW p \in Linked(DOMAIN bucketQueue), NEW t, t = bucketQueue[p[1]][p[2]]
      PROVE  pc[t] = "parked" \/ op[t] = "timeout"
  <2>1. p[1] \in 1..Len(bucketQueue) /\ p[2] \in 1..Len(bucketQueue[p[1]])
    BY <1>3
  <2>2. t \in Threads
    <3>1. bucketQueue[p[1]] \in Seq(Threads)
      BY <1>1, <2>1 DEF TypeInv, TypeOK
    <3>2. QED
      BY <1>5, <2>1, <3>1
  <2>3. address[t] \in Addresses
    BY <1>1, <1>5, <2>1 DEF LinkInv
  <2>4. address[t] # Null
    BY <2>3, TableAssumption DEF TableAssumption
  <2>5. QED
    BY <1>1, <2>2, <2>4 DEF LocalInv, LocalOK
<1>6. QED
  BY <1>2, <1>4, <1>5 DEF NoThreadLost

(* No parked thread is lost: it is linked once, where a lookup of its       *)
(* address in the current table finds it, and no other thread is linked.    *)
THEOREM NoThreadIsLost == Spec => []NoThreadLost
BY AllFound, Invariant, PTL

-----------------------------------------------------------------------------
(* unparkAll() misses nobody                                                *)

(* Only a step of t ends its operation.                                     *)
LEMMA OwnOperation ==
    ASSUME TypeInv, NEW t \in Threads, NEW u \in Threads, u # t,
           \/ ThreadDataMade(u) \/ ThreadDataDestroyed(u)
           \/ (\E a \in Addresses : ParkStart(u, a)) \/ TimeoutStart(u) \/ UnparkStart(u)
           \/ Step(u)
    PROVE  op'[t] = op[t]
<1>1. op \in [Threads -> {"none", "enqueue", "unparkOne", "unparkAll", "timeout", "rehash", "forEach"}]
  BY DEF TypeInv, TypeOK
<1>2. \A o, a : Start(u, o, a) => op'[t] = op[t]
  BY <1>1 DEF Start
<1>3. ForgetLocals(u) => op'[t] = op[t]
  BY <1>1 DEF ForgetLocals
<1>4. \A label : Finish(u, label) => op'[t] = op[t]
  BY <1>3 DEF Finish
<1>5. CASE ThreadDataMade(u) \/ ThreadDataDestroyed(u)
  BY <1>5 DEF ThreadDataMade, ThreadDataDestroyed
<1>6. CASE (\E a \in Addresses : ParkStart(u, a)) \/ TimeoutStart(u) \/ UnparkStart(u)
  BY <1>2, <1>6 DEF ParkStart, TimeoutStart, UnparkStart
<1>7. CASE SizeCheck(u) \/ EnsureHashtable(u) \/ LockBucket(u) \/ Retry(u)
  BY <1>2, <1>4, <1>7 DEF SizeCheck, EnsureHashtable, LockBucket, Retry, locals
<1>8. CASE FindBucket(u)
  BY <1>4, <1>8 DEF FindBucket
<1>9. CASE EnqueueSelf(u) \/ Dequeue(u) \/ ForEach(u) \/ NoNeedToRehash(u) \/ Rehash(u)
  BY <1>3, <1>4, <1>9 DEF EnqueueSelf, Dequeue, ForEach, NoNeedToRehash, Rehash
<1>10. QED
  BY <1>5, <1>6, <1>7, <1>8, <1>9 DEF Step

(* How an unparkAll() ends: it found no bucket, or dequeues.                *)
LEMMA UnparkAllEnds ==
    ASSUME Inv, [Next]_vars, NEW t \in Threads, op[t] = "unparkAll", op'[t] = "none"
    PROVE  Dequeue(t)
           \/ /\ pc[t] = "find" /\ ToFind(t) # {} /\ tables[mine[t]].data[NextToFind(t)] = 0
              /\ Finish(t, "idle") /\ UNCHANGED <<shared, numThreads, registered, address>>
<1>1. TypeInv /\ LocalOK(t)
  BY DEF Inv, LocalInv
<1>2. pc[t] \in {"table", "find"}
  BY <1>1 DEF LocalOK
<1>3. PICK u \in Threads :
           \/ ThreadDataMade(u) \/ ThreadDataDestroyed(u)
           \/ (\E a \in Addresses : ParkStart(u, a)) \/ TimeoutStart(u) \/ UnparkStart(u)
           \/ Step(u)
  BY DEF Next, vars, locals
<1>4. u = t
  BY <1>1, <1>3, OwnOperation
<1>5. Step(t)
  BY <1>2, <1>3, <1>4 DEF ThreadDataMade, ThreadDataDestroyed, ParkStart, TimeoutStart, UnparkStart
<1>6. ~SizeCheck(t) /\ ~EnsureHashtable(t) /\ ~LockBucket(t) /\ ~Retry(t)
  BY <1>2 DEF SizeCheck, EnsureHashtable, LockBucket, Retry, locals
<1>7. ~EnqueueSelf(t) /\ ~ForEach(t) /\ ~NoNeedToRehash(t) /\ ~Rehash(t)
  BY DEF EnqueueSelf, ForEach, NoNeedToRehash, Rehash, HasLocked
<1>8. CASE FindBucket(t)
  BY <1>8 DEF FindBucket
<1>9. QED
  BY <1>5, <1>6, <1>7, <1>8 DEF Step

LEMMA NobodyLeft ==
    ASSUME Inv, [Next]_vars, NEW t \in Threads, op[t] = "unparkAll", op'[t] = "none"
    PROVE  target[t] \in Addresses /\ \A w \in Threads : address'[w] # target[t]
<1>1. TypeInv /\ LocalOK(t) /\ LinkInv /\ TableAssumption
  BY TableAssumption DEF Inv, LocalInv
<1>2. target[t] \in Addresses /\ target[t] # Null
  BY <1>1 DEF LocalOK, TableAssumption
<1>3. CASE /\ pc[t] = "find" /\ ToFind(t) # {} /\ tables[mine[t]].data[NextToFind(t)] = 0
           /\ Finish(t, "idle") /\ UNCHANGED <<shared, numThreads, registered, address>>
  <2>1. BucketAt(hashtable, target[t]) = 0
    BY <1>1, <1>3, NothingToDequeueInv
  <2>2. QED
    BY <1>1, <1>2, <1>3, <2>1 DEF LinkInv
<1>4. CASE Dequeue(t)
  <2>1. PICK b, R : b = TheBucket(t) /\ R = Removed(t)
    OBVIOUS
  <2>2. Dequeued(t, b, R)
    BY <1>1, <1>4, <2>1, DequeueFacts
  <2>3. pc[t] = "find" /\ ToFind(t) = {}
    BY <1>4 DEF Dequeue, HasLocked
  <2>4. \A w \in Members(bucketQueue[b]) : address[w] = target[t] => w \in R
    BY <1>1, <2>1, <2>3, RemovedFacts
  <2>5. b = BucketAt(hashtable, target[t]) /\ \A w \in Threads : address'[w] = IF w \in R THEN Null ELSE address[w]
    BY <2>2 DEF Dequeued
  <2>6. ASSUME NEW w \in Threads, address'[w] = target[t] PROVE FALSE
    <3>1. w \notin R /\ address[w] = target[t]
      BY <1>2, <2>5, <2>6
    <3>2. w \in Members(bucketQueue[b])
      BY <1>1, <1>2, <2>5, <3>1 DEF LinkInv
    <3>3. QED
      BY <2>4, <3>1, <3>2
  <2>7. QED
    BY <1>2, <2>6
<1>5. QED
  BY <1>2, <1>3, <1>4, UnparkAllEnds

(* When unparkAll() returns, no thread is queued on its address, also where *)
(* it returns because a spine, perhaps an old one, has no bucket for it.    *)
THEOREM UnparkAllIsComplete == Spec => UnparkAllMissesNobody
<1>1. Inv /\ [Next]_vars => [ \A t \in Threads, a \in Addresses :
          op[t] = "unparkAll" /\ target[t] = a /\ op'[t] = "none" => QueueOf(a)' = <<>> ]_vars
  <2>1. SUFFICES ASSUME Inv, [Next]_vars, NEW t \in Threads, NEW a \in Addresses,
                        op[t] = "unparkAll", target[t] = a, op'[t] = "none"
                 PROVE  QueueOf(a)' = <<>>
    OBVIOUS
  <2>2. QueueRight(a)'
    BY <2>1, NextInv, QueuesRightAfter DEF QueuesRight
  <2>3. PICK q : q = QueueOf(a)'
    OBVIOUS
  <2>4. q \in Seq(Threads) /\ \A w : w \in Members(q) <=> w \in Threads /\ address'[w] = a
    BY <2>2, <2>3 DEF QueueRight
  <2>5. Members(q) = {}
    BY <2>1, <2>4, NobodyLeft
  <2>6. QED
    BY <2>3, <2>4, <2>5, EmptyInOrder
<1>2. QED
  BY <1>1, Invariant, PTL DEF Spec, UnparkAllMissesNobody

-----------------------------------------------------------------------------
(* The table implements queues                                              *)

\* The queue p of address a, which bucket queue B gives the order of.
SeesQueue(a, p, B, adr) ==
    /\ p \in Seq(Threads) /\ Distinct(p)
    /\ \A w : w \in Members(p) <=> w \in Threads /\ adr[w] = a
    /\ \A v, w \in Members(p) : Before(p, v, w) <=> Before(B, v, w)

LEMMA SeesNow ==
    ASSUME Inv, NEW a \in Addresses
    PROVE  SeesQueue(a, QueueOf(a), bucketQueue[BucketAt(hashtable, a)], address)
<1>1. QueueRight(a)
  BY QueuesRightHolds DEF QueuesRight
<1>2. QED
  BY <1>1 DEF QueueRight, SeesQueue

LEMMA SeesThen ==
    ASSUME Inv', NEW a \in Addresses
    PROVE  SeesQueue(a, QueueOf(a)', bucketQueue'[BucketAt(hashtable, a)'], address')
<1>1. QueueRight(a)'
  BY QueuesRightAfter DEF QueuesRight
<1>2. QED
  BY <1>1 DEF QueueRight, SeesQueue

(* A queue is the same when it has the same threads in the same order.      *)
LEMMA SameView ==
    ASSUME NEW a, NEW p, NEW q, NEW B, NEW C, NEW adr, NEW adr2,
           SeesQueue(a, p, B, adr), SeesQueue(a, q, C, adr2),
           \A w \in Threads : adr2[w] = a <=> adr[w] = a,
           \A v, w \in Members(p) : Before(B, v, w) => Before(C, v, w)
    PROVE  p = q
<1>1. Members(p) = Members(q)
  BY DEF SeesQueue
<1>2. \A v, w \in Members(p) : Before(p, v, w) => Before(q, v, w)
  BY <1>1 DEF SeesQueue
<1>3. p \in Seq(Threads) /\ q \in Seq(Threads) /\ Distinct(p) /\ Distinct(q)
  BY DEF SeesQueue
<1>4. QED
  BY <1>1, <1>2, <1>3, SameSequence

QueuesSame == \A a \in Addresses : QueueOf(a)' = QueueOf(a)

(* Nothing that a lookup reads has changed.                                 *)
LEMMA SameTables ==
    ASSUME UNCHANGED <<tables, hashtable, bucketQueue, address>>
    PROVE  QueuesSame
BY DEF QueuesSame, QueueOf

LEMMA EnsureHashtableSame ==
    ASSUME Inv, Inv', NEW t \in Threads, EnsureHashtable(t)
    PROVE  QueuesSame
<1>1. CASE hashtable # 0
  BY <1>1, SameTables DEF EnsureHashtable
<1>2. CASE hashtable = 0
  <2>1. ASSUME NEW a \in Addresses PROVE QueueOf(a)' = QueueOf(a)
    <3>1. PICK p, q : p = QueueOf(a) /\ q = QueueOf(a)'
      OBVIOUS
    <3>2. p = <<>>
      BY <1>2, <3>1 DEF QueueOf
    <3>3. \A w \in Threads : address[w] # a
      <4>1. \A w : w \in Members(p) <=> w \in Threads /\ address[w] = a
        BY <3>1, SeesNow DEF SeesQueue
      <4>2. QED
        BY <3>2, <4>1, EmptyInOrder
    <3>4. q \in Seq(Threads) /\ \A w : w \in Members(q) <=> w \in Threads /\ address'[w] = a
      BY <3>1, SeesThen DEF SeesQueue
    <3>5. Members(q) = {}
      BY <3>3, <3>4 DEF EnsureHashtable
    <3>6. QED
      BY <3>1, <3>2, <3>4, <3>5, EmptyInOrder
  <2>2. QED
    BY <2>1 DEF QueuesSame
<1>3. QED
  BY <1>1, <1>2

(* A rehash keeps the order of the threads of an address, though it takes   *)
(* them out of their buckets and puts them into others.                     *)
LEMMA OrderKept ==
    ASSUME TableAssumption, Inv, NEW t \in Threads, NEW new, NEW size, Grown(t, new, size),
           NEW b \in 1..Len(bucketQueue), NEW c \in 1..Len(new.queues),
           NEW v \in Members(bucketQueue[b]), NEW w \in Members(bucketQueue[b]),
           v \in Members(new.queues[c]), w \in Members(new.queues[c]), Before(new.queues[c], v, w)
    PROVE  Before(bucketQueue[b], v, w)
<1>1. PICK ws, q, bq : ws = Gathered(1..Len(bucketQueue)) /\ q = new.queues /\ bq = bucketQueue[b]
  OBVIOUS
<1>2. TypeInv /\ LinkInv
  BY DEF Inv
<1>3. Content(new.data, q, size, ws, Len(ws)) /\ q \in Seq(Seq(Threads))
  BY <1>1 DEF Grown, NewTableOK
<1>4. PICK i \in 1..Len(ws), j \in 1..Len(ws) : i < j /\ ws[i] = v /\ ws[j] = w
  <2>1. c \in 1..Len(q) /\ v \in Members(q[c]) /\ w \in Members(q[c]) /\ Before(q[c], v, w)
    BY <1>1
  <2>2. \A x, y \in Members(q[c]) : Before(q[c], x, y) =>
           \E i, j \in 1..Len(ws) : i < j /\ ws[i] = x /\ ws[j] = y
    BY <1>3, <2>1 DEF Content
  <2>3. QED
    BY <2>1, <2>2
<1>5. bucketQueue \in Seq(Seq(Threads)) /\ LinkedOnce
  BY <1>2, LinkedOnceHolds DEF TypeInv, TypeOK
<1>6. ws \in Seq(Threads) /\ Distinct(ws) /\ (Before(bq, w, v) => Before(ws, w, v))
  BY <1>1, <1>5, GatheredInOrder DEF TableAssumption
<1>7. ~Before(ws, w, v)
  <2>1. ASSUME NEW k \in 1..Len(ws), NEW l \in 1..Len(ws), k < l, ws[k] = w, ws[l] = v PROVE FALSE
    <3>1. k = j /\ l = i
      BY <1>4, <1>6, <2>1 DEF Distinct
    <3>2. QED
      BY <1>4, <1>6, <2>1, <3>1
  <2>2. QED
    BY <2>1 DEF Before
<1>8. v # w
  BY <1>4, <1>6 DEF Distinct
<1>9. PICK k \in 1..Len(bq), l \in 1..Len(bq) : bq[k] = v /\ bq[l] = w
  BY <1>1 DEF Members
<1>10. Len(bq) \in Nat
  BY <1>1, <1>5
<1>11. k # l /\ ~(l < k)
  BY <1>6, <1>7, <1>8, <1>9 DEF Before
<1>12. k < l
  BY <1>10, <1>11
<1>13. QED
  BY <1>1, <1>9, <1>12 DEF Before

LEMMA RehashSame ==
    ASSUME Inv, Inv', NEW t \in Threads, Rehash(t)
    PROVE  QueuesSame
<1>1. PICK new, size : Grown(t, new, size)
  <2>1. PICK new, size : new = Resized(count[t], buckets[t]) /\ size = count[t] * GrowthFactor * MaxLoadFactor
    OBVIOUS
  <2>2. QED
    BY <2>1, TableAssumption, RehashFacts
<1>2. /\ bucketQueue' = new.queues /\ hashtable' = Len(tables) + 1 /\ hashtable \in 1..Len(tables)
      /\ Len(bucketQueue) \in Nat /\ address' = address
      /\ tables'[hashtable'].size = size /\ tables'[hashtable'].data = new.data
  BY <1>1 DEF Grown, Rehash
<1>3. ASSUME NEW a \in Addresses PROVE QueueOf(a)' = QueueOf(a)
  <2>1. PICK p, q, b, c : p = QueueOf(a) /\ q = QueueOf(a)' /\ b = BucketAt(hashtable, a) /\ c = BucketAt(hashtable, a)'
    OBVIOUS
  <2>2. SeesQueue(a, p, bucketQueue[b], address)
    BY <2>1, SeesNow
  <2>3. SeesQueue(a, q, new.queues[c], address)
    BY <1>2, <2>1, SeesThen
  <2>4. c = new.data[Index(a, size)]
    BY <1>2, <2>1 DEF BucketAt
  <2>5. ASSUME NEW v \in Members(q), NEW w \in Members(q), Before(new.queues[c], v, w)
        PROVE  Before(bucketQueue[b], v, w)
    <3>1. v \in Threads /\ w \in Threads /\ address[v] = a /\ address[w] = a
      BY <2>3 DEF SeesQueue
    <3>2. a # Null
      BY TableAssumption DEF TableAssumption
    <3>3. b # 0 /\ v \in Members(bucketQueue[b]) /\ w \in Members(bucketQueue[b])
      BY <2>1, <3>1, <3>2 DEF Inv, LinkInv
    <3>4. b \in 1..Len(bucketQueue)
      <4>1. b \in 0..Len(bucketQueue)
        BY <1>2, <2>1, TableAssumption, BucketAtType DEF Inv
      <4>2. QED
        BY <1>2, <3>3, <4>1
    <3>5. c \in 1..Len(new.queues) /\ v \in Members(new.queues[c]) /\ w \in Members(new.queues[c])
      BY <1>1, <2>4, <3>1, <3>2, TableAssumption, GrownLinks
    <3>6. QED
      BY <1>1, <2>5, <3>3, <3>4, <3>5, TableAssumption, OrderKept
  <2>6. q = p
    BY <2>2, <2>3, <2>5, SameView
  <2>7. QED
    BY <2>1, <2>6
<1>4. QED
  BY <1>3 DEF QueuesSame

(* A new bucket is empty, and no other is moved.                            *)
LEMMA FreshBucketSame ==
    ASSUME Inv, Inv', NEW t \in Threads, pc[t] = "find", ToFind(t) # {},
           NEW i, NEW fresh, InstallsBucket(t, i, fresh)
    PROVE  QueuesSame
<1>1. /\ i = NextToFind(t) /\ tables[mine[t]].data[i] = 0
      /\ hashtable' = hashtable /\ address' = address /\ bucketQueue' = Append(bucketQueue, <<>>)
      /\ tables' = [tables EXCEPT ![mine[t]].data[i] = fresh]
  BY DEF InstallsBucket
<1>2. TypeInv /\ LinkInv /\ TableAssumption
  BY TableAssumption DEF Inv
<1>3. mine[t] \in 1..Len(tables)
  BY <1>2, NextPlace
<1>4. \A b \in 1..Len(bucketQueue) : bucketQueue'[b] = bucketQueue[b]
  BY <1>1, <1>2, AppendProperties DEF TypeInv, TypeOK
<1>5. ASSUME NEW k \in 1..Len(tables)
      PROVE  /\ tables'[k].size = tables[k].size
             /\ \A j \in DOMAIN tables[k].data : tables[k].data[j] # 0 => tables'[k].data[j] = tables[k].data[j]
  <2>1. PICK r, d, m : r = tables[k] /\ d = tables[k].data /\ m = tables[k].size
    OBVIOUS
  <2>2. r = [size |-> m, data |-> d] /\ tables \in Seq(Spines)
    BY <1>2, <2>1, SpineTypes DEF TypeInv
  <2>3. CASE k = mine[t]
    <3>1. tables'[k] = [size |-> m, data |-> [d EXCEPT ![i] = fresh]]
      <4>1. PICK e : e = [d EXCEPT ![i] = fresh]
        OBVIOUS
      <4>2. tables' = [tables EXCEPT ![k] = [tables[k] EXCEPT !.data = e]]
        BY <1>1, <2>1, <2>3, <4>1
      <4>3. [tables[k] EXCEPT !.data = e] = [size |-> m, data |-> e]
        BY <2>1, <2>2
      <4>4. tables'[k] = [size |-> m, data |-> e]
        BY <2>2, <4>2, <4>3
      <4>5. QED
        BY <4>1, <4>4
    <3>2. tables'[k].size = m /\ tables'[k].data = [d EXCEPT ![i] = fresh]
      BY <3>1
    <3>3. d[i] = 0
      BY <1>1, <2>1, <2>3
    <3>4. QED
      BY <2>1, <3>2, <3>3
  <2>4. CASE k # mine[t]
    <3>1. tables'[k] = tables[k]
      BY <1>1, <2>2, <2>4
    <3>2. QED
      BY <3>1
  <2>5. QED
    BY <2>3, <2>4
<1>6. ASSUME NEW a \in Addresses PROVE QueueOf(a)' = QueueOf(a)
  <2>1. PICK p, q, b, c : p = QueueOf(a) /\ q = QueueOf(a)' /\ b = BucketAt(hashtable, a) /\ c = BucketAt(hashtable, a)'
    OBVIOUS
  <2>2. SeesQueue(a, p, bucketQueue[b], address)
    BY <2>1, SeesNow
  <2>3. SeesQueue(a, q, bucketQueue'[c], address)
    BY <1>1, <2>1, SeesThen
  <2>4. ASSUME NEW v \in Members(p) PROVE bucketQueue'[c] = bucketQueue[b]
    <3>1. v \in Threads /\ address[v] = a /\ a # Null
      BY <1>2, <2>2 DEF SeesQueue, TableAssumption
    <3>2. hashtable # 0 /\ b # 0
      BY <1>2, <2>1, <3>1 DEF LinkInv
    <3>3. hashtable \in 1..Len(tables) /\ Len(bucketQueue) \in Nat
          /\ DOMAIN tables[hashtable].data = 0..(tables[hashtable].size - 1)
      <4>1. hashtable \in 1..Len(tables) /\ Len(bucketQueue) \in Nat
        BY <1>2, <3>2, SpineTypes
      <4>2. QED
        BY <1>2, <4>1, SpineTypes
    <3>4. Index(a, tables[hashtable].size) \in DOMAIN tables[hashtable].data /\ b \in 0..Len(bucketQueue)
      BY <1>2, <2>1, <3>3, BucketAtType
    <3>5. c = b
      <4>1. c = tables'[hashtable].data[Index(a, tables[hashtable].size)]
        BY <1>1, <1>5, <2>1, <3>3 DEF BucketAt
      <4>2. b = tables[hashtable].data[Index(a, tables[hashtable].size)]
        BY <2>1 DEF BucketAt
      <4>3. QED
        BY <1>5, <3>2, <3>3, <3>4, <4>1, <4>2
    <3>6. b \in 1..Len(bucketQueue)
      BY <3>2, <3>3, <3>4
    <3>7. QED
      BY <1>4, <3>5, <3>6
  <2>5. \A v, w \in Members(p) : Before(bucketQueue[b], v, w) => Before(bucketQueue'[c], v, w)
    BY <2>4
  <2>6. p = q
    BY <2>2, <2>3, <2>5, SameView
  <2>7. QED
    BY <2>1, <2>6
<1>7. QED
  BY <1>6 DEF QueuesSame

LEMMA FindBucketSame ==
    ASSUME Inv, Inv', NEW t \in Threads, FindBucket(t)
    PROVE  QueuesSame
<1>1. PICK i, found, fresh : i = NextToFind(t) /\ found = tables[mine[t]].data[i] /\ fresh = Len(bucketQueue) + 1
  OBVIOUS
<1>2. pc[t] = "find" /\ ToFind(t) # {} /\ UNCHANGED <<numThreads, registered, address>>
  BY DEF FindBucket
<1>3. \/ UNCHANGED shared
      \/ /\ found = 0 /\ tables' = [tables EXCEPT ![mine[t]].data[i] = fresh]
         /\ bucketQueue' = Append(bucketQueue, <<>>)
         /\ bucketLock' = Append(bucketLock, Null)
         /\ buckets' = [buckets EXCEPT ![t] = @ \cup {fresh}]
         /\ UNCHANGED <<hashtable, pc, op, target, mine, count>>
  BY <1>1 DEF FindBucket
<1>4. CASE UNCHANGED shared
  BY <1>2, <1>4, SameTables DEF shared
<1>5. CASE /\ found = 0 /\ tables' = [tables EXCEPT ![mine[t]].data[i] = fresh]
           /\ bucketQueue' = Append(bucketQueue, <<>>)
           /\ bucketLock' = Append(bucketLock, Null)
           /\ buckets' = [buckets EXCEPT ![t] = @ \cup {fresh}]
           /\ UNCHANGED <<hashtable, pc, op, target, mine, count>>
  <2>1. InstallsBucket(t, i, fresh)
    BY <1>1, <1>2, <1>5 DEF InstallsBucket
  <2>2. QED
    BY <1>2, <2>1, FreshBucketSame
<1>6. QED
  BY <1>3, <1>4, <1>5

\* Only the queue of address a changes, to p.
QueueChanged(a, p) ==
    a \in Addresses /\ QueueOf(a)' = p /\ \A c \in Addresses : c # a => QueueOf(c)' = QueueOf(c)

(* enqueue() adds the thread at the end of the queue of its address, and    *)
(* does not disturb the others, in the same bucket or elsewhere.            *)
LEMMA EnqueuesAtEnd ==
    ASSUME Inv, Inv', NEW t \in Threads, NEW b, Enqueues(t, b), NEW a, a = target[t]
    PROVE  QueueChanged(a, Append(QueueOf(a), t)) /\ address[t] = Null
<1>1. /\ b \in 1..Len(bucketQueue) /\ target[t] \in Addresses /\ hashtable \in 1..Len(tables)
      /\ b = BucketAt(hashtable, target[t]) /\ address[t] = Null
      /\ t \notin Members(bucketQueue[b])
      /\ bucketQueue' \in Seq(Seq(Threads)) /\ Len(bucketQueue') = Len(bucketQueue)
      /\ bucketQueue'[b] = Append(bucketQueue[b], t)
      /\ \A c \in 1..Len(bucketQueue) : c # b => bucketQueue'[c] = bucketQueue[c]
      /\ address' \in [Threads -> Addresses \cup {Null}] /\ address'[t] = target[t]
      /\ \A u \in Threads \ {t} : address'[u] = address[u]
      /\ tables' = tables /\ hashtable' = hashtable
  BY TableAssumption, EnqueuesFacts
<1>2. TypeInv /\ LinkInv /\ TableAssumption /\ Null \notin Addresses
  BY TableAssumption DEF Inv, TableAssumption
<1>3. PICK g : g = bucketQueue[b] /\ a = target[t]
  OBVIOUS
<1>4. g \in Seq(Threads) /\ Distinct(g)
  BY <1>1, <1>2, <1>3, LinkedOnceHolds DEF TypeInv, TypeOK
<1>5. /\ \A v, w : Before(Append(g, t), v, w) <=> Before(g, v, w) \/ (v \in Members(g) /\ w = t)
      /\ bucketQueue'[b] = Append(g, t)
  BY <1>1, <1>3, <1>4, AppendInOrder
<1>6. \A x : BucketAt(hashtable, x)' = BucketAt(hashtable, x)
  BY <1>1 DEF BucketAt
<1>7. ASSUME NEW x \in Addresses, x # a PROVE QueueOf(x)' = QueueOf(x)
  <2>1. PICK p, q, c : p = QueueOf(x) /\ q = QueueOf(x)' /\ c = BucketAt(hashtable, x)
    OBVIOUS
  <2>2. SeesQueue(x, p, bucketQueue[c], address)
    BY <2>1, SeesNow
  <2>3. SeesQueue(x, q, bucketQueue'[c], address')
    BY <1>6, <2>1, SeesThen
  <2>4. \A w \in Threads : address'[w] = x <=> address[w] = x
    BY <1>1, <1>2, <1>3, <1>7
  <2>5. ASSUME NEW v \in Members(p), NEW w \in Members(p), Before(bucketQueue[c], v, w)
        PROVE  Before(bucketQueue'[c], v, w)
    <3>1. CASE c = b
      BY <1>3, <1>5, <2>5, <3>1
    <3>2. CASE c # b
      <4>1. v \in Threads /\ address[v] = x
        BY <2>2 DEF SeesQueue
      <4>2. c # 0
        BY <1>2, <2>1, <4>1 DEF LinkInv
      <4>3. c \in 1..Len(bucketQueue)
        <5>1. c \in 0..Len(bucketQueue) /\ Len(bucketQueue) \in Nat
          BY <1>1, <1>2, <2>1, BucketAtType, SpineTypes
        <5>2. QED
          BY <4>2, <5>1
      <4>4. QED
        BY <1>1, <2>5, <3>2, <4>3
    <3>3. QED
      BY <3>1, <3>2
  <2>6. p = q
    BY <2>2, <2>3, <2>4, <2>5, SameView
  <2>7. QED
    BY <2>1, <2>6
<1>8. QueueOf(a)' = Append(QueueOf(a), t)
  <2>1. PICK p, q, r : p = QueueOf(a) /\ q = QueueOf(a)' /\ r = Append(p, t)
    OBVIOUS
  <2>2. SeesQueue(a, p, g, address)
    BY <1>1, <1>3, <2>1, SeesNow
  <2>3. SeesQueue(a, q, Append(g, t), address')
    BY <1>1, <1>3, <1>5, <1>6, <2>1, SeesThen
  <2>4. /\ p \in Seq(Threads) /\ Distinct(p) /\ t \notin Members(p)
        /\ \A w : w \in Members(p) <=> w \in Threads /\ address[w] = a
    BY <1>1, <1>2, <1>3, <2>2 DEF SeesQueue
  <2>5. /\ r \in Seq(Threads) /\ Distinct(r) /\ Members(r) = Members(p) \cup {t}
        /\ \A v, w : Before(r, v, w) <=> Before(p, v, w) \/ (v \in Members(p) /\ w = t)
    BY <2>1, <2>4, AppendInOrder
  <2>6. q \in Seq(Threads) /\ Distinct(q) /\ \A w : w \in Members(q) <=> w \in Threads /\ address'[w] = a
    BY <2>3 DEF SeesQueue
  <2>7. Members(r) = Members(q)
    <3>1. ASSUME NEW w PROVE w \in Members(r) <=> w \in Members(q)
      <4>1. CASE w = t
        BY <1>1, <1>3, <2>5, <2>6, <4>1
      <4>2. CASE w # t
        <5>1. w \in Threads => address'[w] = address[w]
          BY <1>1, <4>2
        <5>2. QED
          BY <2>4, <2>5, <2>6, <4>2, <5>1
      <4>3. QED
        BY <4>1, <4>2
    <3>2. QED
      BY <3>1
  <2>8. ASSUME NEW v \in Members(r), NEW w \in Members(r), Before(r, v, w) PROVE Before(q, v, w)
    <3>1. Before(Append(g, t), v, w)
      <4>1. CASE Before(p, v, w)
        <5>1. v \in Members(p) /\ w \in Members(p)
          BY <4>1 DEF Before, Members
        <5>2. Before(g, v, w)
          BY <2>2, <4>1, <5>1 DEF SeesQueue
        <5>3. QED
          BY <1>5, <5>2
      <4>2. CASE v \in Members(p) /\ w = t
        <5>1. v \in Threads /\ address[v] = a
          BY <2>4, <4>2
        <5>2. v \in Members(g)
          BY <1>1, <1>2, <1>3, <5>1 DEF LinkInv
        <5>3. QED
          BY <1>5, <4>2, <5>2
      <4>3. QED
        BY <2>5, <2>8, <4>1, <4>2
    <3>2. QED
      BY <2>3, <2>7, <3>1 DEF SeesQueue
  <2>9. r = q
    BY <2>5, <2>6, <2>7, <2>8, SameSequence
  <2>10. QED
    BY <2>1, <2>9
<1>9. QED
  BY <1>1, <1>3, <1>7, <1>8 DEF QueueChanged

\* q is what is left of a's queue p without the threads in R, and no other queue changes.
RestInOrder(a, p, q, R) ==
    /\ a \in Addresses /\ \A x \in Addresses : x # a => QueueOf(x)' = QueueOf(x)
    /\ q \in Seq(Threads) /\ Distinct(q) /\ Members(q) = Members(p) \ R
    /\ \A v, w \in Members(q) : Before(q, v, w) <=> Before(p, v, w)

(* dequeue() takes threads out of the queue of its address and does not     *)
(* change the order of those that stay, nor any other queue.                *)
LEMMA DequeueKeepsOrder ==
    ASSUME Inv, Inv', NEW t \in Threads, NEW b, NEW R, Dequeued(t, b, R), NEW a, a = target[t],
           NEW p, p = QueueOf(a), NEW q, q = QueueOf(a)'
    PROVE  RestInOrder(a, p, q, R)
<1>1. /\ b \in 1..Len(bucketQueue) /\ target[t] \in Addresses /\ hashtable \in 1..Len(tables)
      /\ b = BucketAt(hashtable, target[t])
      /\ R \subseteq Threads /\ \A w \in R : address[w] # Null => address[w] = target[t]
      /\ bucketQueue'[b] = Kept(bucketQueue[b], Threads \ R)
      /\ \A c \in 1..Len(bucketQueue) : c # b => bucketQueue'[c] = bucketQueue[c]
      /\ \A w \in Threads : address'[w] = IF w \in R THEN Null ELSE address[w]
      /\ tables' = tables /\ hashtable' = hashtable
  BY DEF Dequeued
<1>2. TypeInv /\ LinkInv /\ TableAssumption /\ Null \notin Addresses
  BY TableAssumption DEF Inv, TableAssumption
<1>3. PICK g : g = bucketQueue[b] /\ a = target[t]
  OBVIOUS
<1>4. g \in Seq(Threads) /\ Distinct(g)
  BY <1>1, <1>2, <1>3, LinkedOnceHolds DEF TypeInv, TypeOK
<1>5. PICK h : h = bucketQueue'[b] /\ \A v, w \in Members(g) \cap (Threads \ R) : Before(h, v, w) <=> Before(g, v, w)
  BY <1>1, <1>3, <1>4, KeptInOrder
<1>6. \A x : BucketAt(hashtable, x)' = BucketAt(hashtable, x)
  BY <1>1 DEF BucketAt
<1>7. ASSUME NEW x \in Addresses, x # a PROVE QueueOf(x)' = QueueOf(x)
  <2>1. PICK r, s, c : r = QueueOf(x) /\ s = QueueOf(x)' /\ c = BucketAt(hashtable, x)
    OBVIOUS
  <2>2. SeesQueue(x, r, bucketQueue[c], address)
    BY <2>1, SeesNow
  <2>3. SeesQueue(x, s, bucketQueue'[c], address')
    BY <1>6, <2>1, SeesThen
  <2>4. \A w \in Threads : address'[w] = x <=> address[w] = x
    BY <1>1, <1>2, <1>3, <1>7
  <2>5. ASSUME NEW v \in Members(r) PROVE v \in Members(bucketQueue[c]) /\ v \in Threads \ R /\ c \in 1..Len(bucketQueue)
    <3>1. v \in Threads /\ address[v] = x
      BY <2>2 DEF SeesQueue
    <3>2. v \notin R /\ address[v] # Null
      BY <1>1, <1>2, <1>3, <1>7, <3>1
    <3>3. c # 0 /\ v \in Members(bucketQueue[c])
      BY <1>2, <2>1, <3>1, <3>2 DEF LinkInv
    <3>4. c \in 0..Len(bucketQueue) /\ Len(bucketQueue) \in Nat
      BY <1>1, <1>2, <2>1, BucketAtType, SpineTypes
    <3>5. QED
      BY <3>1, <3>2, <3>3, <3>4
  <2>6. ASSUME NEW v \in Members(r), NEW w \in Members(r), Before(bucketQueue[c], v, w)
        PROVE  Before(bucketQueue'[c], v, w)
    <3>1. CASE c = b
      BY <1>3, <1>5, <2>5, <2>6, <3>1
    <3>2. CASE c # b
      BY <1>1, <2>5, <2>6, <3>2
    <3>3. QED
      BY <3>1, <3>2
  <2>7. r = s
    BY <2>2, <2>3, <2>4, <2>6, SameView
  <2>8. QED
    BY <2>1, <2>7
<1>8. a \in Addresses
  BY <1>1
<1>9. SeesQueue(a, p, g, address) /\ SeesQueue(a, q, h, address')
  BY <1>1, <1>3, <1>5, <1>6, <1>8, SeesNow, SeesThen
<1>10. Members(q) = Members(p) \ R
  BY <1>1, <1>2, <1>3, <1>9 DEF SeesQueue
<1>11. ASSUME NEW v \in Members(q) PROVE v \in Members(p) /\ v \in Members(g) \cap (Threads \ R)
  <2>1. v \in Members(p) /\ v \notin R
    BY <1>10
  <2>2. v \in Threads /\ address[v] = a
    BY <1>9, <2>1 DEF SeesQueue
  <2>3. v \in Members(g)
    BY <1>1, <1>2, <1>3, <2>2 DEF LinkInv
  <2>4. QED
    BY <2>1, <2>2, <2>3
<1>12. \A v, w \in Members(q) : Before(q, v, w) <=> Before(p, v, w)
  <2>1. ASSUME NEW v \in Members(q), NEW w \in Members(q) PROVE Before(q, v, w) <=> Before(p, v, w)
    <3>1. Before(q, v, w) <=> Before(h, v, w)
      BY <1>9 DEF SeesQueue
    <3>2. Before(p, v, w) <=> Before(g, v, w)
      BY <1>9, <1>11 DEF SeesQueue
    <3>3. QED
      BY <1>5, <1>11, <3>1, <3>2
  <2>2. QED
    BY <2>1
<1>13. q \in Seq(Threads) /\ Distinct(q)
  BY <1>9 DEF SeesQueue
<1>14. QED
  BY <1>7, <1>8, <1>10, <1>12, <1>13 DEF RestInOrder

(* unparkOne() removes the first thread of the queue.                       *)
LEMMA FirstRemoved ==
    ASSUME Inv, NEW t \in Threads, op[t] = "unparkOne", NEW b \in 1..Len(bucketQueue), b = TheBucket(t),
           NEW a \in Addresses, a = target[t], b = BucketAt(hashtable, a), NEW p, p = QueueOf(a)
    PROVE  /\ p = <<>> => Removed(t) = {}
           /\ p # <<>> => Removed(t) = {p[1]}
<1>1. TypeInv /\ LinkInv /\ a # Null
  BY TableAssumption DEF Inv, TableAssumption
<1>2. PICK g : g = bucketQueue[b] /\ g \in Seq(Threads)
  BY <1>1 DEF TypeInv, TypeOK
<1>3. SeesQueue(a, p, g, address)
  BY <1>2, SeesNow
<1>4. /\ p \in Seq(Threads) /\ Distinct(p) /\ \A w : w \in Members(p) <=> w \in Threads /\ address[w] = a
      /\ \A v, w \in Members(p) : Before(p, v, w) <=> Before(g, v, w)
  BY <1>3 DEF SeesQueue
<1>5. Len(g) \in Nat /\ \A i \in 1..Len(g) : g[i] \in Threads
  BY <1>2
<1> DEFINE W == {i \in 1..Len(g) : address[g[i]] = a}
<1>6. Removed(t) = {g[i] : i \in {j \in W : \A k \in W : j <= k}}
  BY <1>2 DEF Removed
<1>7. CASE p = <<>>
  <2>1. \A w \in Threads : address[w] # a
    BY <1>4, <1>7, EmptyInOrder
  <2>2. W = {}
    BY <1>5, <2>1
  <2>3. QED
    BY <1>6, <1>7, <2>2
<1>8. CASE p # <<>>
  <2>1. Len(p) \in Nat /\ Len(p) >= 1
    BY <1>4, <1>8
  <2>2. PICK x : x = p[1] /\ x \in Members(p)
    BY <2>1 DEF Members
  <2>3. x \in Threads /\ address[x] = a
    BY <1>4, <2>2
  <2>4. x \in Members(g)
    BY <1>1, <1>2, <2>3 DEF LinkInv
  <2>5. PICK k \in 1..Len(g) : g[k] = x
    BY <2>4 DEF Members
  <2>6. k \in W /\ W \in SUBSET Nat
    BY <1>5, <2>3, <2>5
  <2>7. PICK i \in W : \A j \in W : i <= j
    <3> HIDE DEF W
    <3>1. QED
      BY <2>6, Least
  <2>8. {j \in W : \A l \in W : j <= l} = {i}
    BY <2>6, <2>7
  <2>9. Removed(t) = {g[i]}
    <3> HIDE DEF W
    <3>1. QED
      BY <1>6, <2>8
  <2>10. i \in 1..Len(g) /\ address[g[i]] = a /\ i <= k
    BY <2>6, <2>7
  <2>11. g[i] = x
    <3>1. SUFFICES ASSUME g[i] # x PROVE FALSE
      OBVIOUS
    <3>2. i < k
      BY <1>5, <2>5, <2>10, <3>1
    <3>3. Before(g, g[i], x)
      BY <2>5, <2>10, <3>2 DEF Before
    <3>4. g[i] \in Members(p)
      BY <1>4, <1>5, <2>10
    <3>5. Before(p, g[i], x)
      BY <1>4, <2>2, <3>3, <3>4
    <3>6. PICK m \in 1..Len(p), n \in 1..Len(p) : m < n /\ p[n] = x
      BY <3>5 DEF Before
    <3>7. n = 1
      BY <1>4, <2>1, <2>2, <3>6 DEF Distinct
    <3>8. QED
      BY <2>1, <3>6, <3>7
  <2>12. QED
    BY <1>8, <2>2, <2>9, <2>11
<1>9. QED
  BY <1>7, <1>8

LEMMA DequeueImplements ==
    ASSUME Inv, Inv', NEW t \in Threads, Dequeue(t), NEW a, a = target[t]
    PROVE  a \in Addresses /\ \/ QueuesSame
                              \/ QueueChanged(a, <<>>)
                              \/ QueueOf(a) # <<>> /\ QueueChanged(a, Tail(QueueOf(a)))
                              \/ QueueChanged(a, Kept(QueueOf(a), Threads \ {t}))
<1>1. PICK b, R, p, q : b = TheBucket(t) /\ R = Removed(t) /\ p = QueueOf(a) /\ q = QueueOf(a)'
  OBVIOUS
<1>2. Dequeued(t, b, R)
  BY <1>1, TableAssumption, DequeueFacts
<1>3. pc[t] = "find" /\ ToFind(t) = {} /\ op[t] \in {"unparkOne", "unparkAll", "timeout"}
  BY DEF Dequeue, HasLocked
<1>4. /\ a \in Addresses /\ \A x \in Addresses : x # a => QueueOf(x)' = QueueOf(x)
      /\ q \in Seq(Threads) /\ Distinct(q) /\ Members(q) = Members(p) \ R
      /\ \A v, w \in Members(q) : Before(q, v, w) <=> Before(p, v, w)
  <2>1. Dequeued(t, b, R) /\ p = QueueOf(a) /\ q = QueueOf(a)'
    BY <1>1, <1>2
  <2>2. RestInOrder(a, p, q, R)
    BY <2>1, DequeueKeepsOrder
  <2>3. QED
    BY <2>2 DEF RestInOrder
<1>5. \A r : q = r => QueueChanged(a, r)
  BY <1>1, <1>4 DEF QueueChanged
<1>6. p \in Seq(Threads) /\ Distinct(p) /\ \A w : w \in Members(p) <=> w \in Threads /\ address[w] = a
  <2>1. SeesQueue(a, p, bucketQueue[BucketAt(hashtable, a)], address)
    BY <1>1, <1>4, SeesNow
  <2>2. QED
    BY <2>1 DEF SeesQueue
<1>7. b \in 1..Len(bucketQueue) /\ b = BucketAt(hashtable, a) /\ TableAssumption
  BY <1>2, TableAssumption DEF Dequeued
<1>8. CASE op[t] = "unparkAll"
  <2>1. \A w \in Members(bucketQueue[b]) : address[w] = target[t] => w \in R
    BY <1>1, <1>3, <1>7, <1>8, RemovedFacts
  <2>2. ASSUME NEW w \in Members(p) PROVE w \in Members(bucketQueue[b])
    <3>1. w \in Threads /\ address[w] = a /\ a # Null
      BY <1>4, <1>6, <1>7 DEF TableAssumption
    <3>2. w \in Members(bucketQueue[BucketAt(hashtable, address[w])])
      BY <3>1 DEF Inv, LinkInv
    <3>3. QED
      BY <1>7, <3>1, <3>2
  <2>3. Members(q) = {}
    BY <1>4, <1>6, <2>1, <2>2
  <2>4. q = <<>>
    BY <1>4, <2>3, EmptyInOrder
  <2>5. QED
    BY <1>4, <1>5, <2>4
<1>9. CASE op[t] = "timeout"
  <2>1. R = {t}
    BY <1>1, <1>3, <1>7, <1>9, RemovedFacts
  <2>2. PICK r : r = Kept(p, Threads \ {t})
    OBVIOUS
  <2>3. /\ r \in Seq(Threads) /\ Distinct(r) /\ Members(r) = Members(p) \cap (Threads \ {t})
        /\ \A v, w \in Members(p) \cap (Threads \ {t}) : Before(r, v, w) <=> Before(p, v, w)
    BY <1>6, <2>2, KeptInOrder
  <2>4. Members(q) = Members(r)
    BY <1>4, <1>6, <2>1, <2>3
  <2>5. \A v, w \in Members(q) : Before(q, v, w) => Before(r, v, w)
    BY <1>4, <2>3, <2>4
  <2>6. q = r
    BY <1>4, <2>3, <2>4, <2>5, SameSequence
  <2>7. QED
    BY <1>1, <1>4, <1>5, <2>2, <2>6
<1>10. CASE op[t] = "unparkOne"
  <2>1. (p = <<>> => R = {}) /\ (p # <<>> => R = {p[1]})
    BY <1>1, <1>4, <1>7, <1>10, FirstRemoved
  <2>2. CASE p = <<>>
    <3>1. Members(q) = {}
      BY <1>4, <2>2, EmptyInOrder
    <3>2. q = p
      BY <1>4, <2>2, <3>1, EmptyInOrder
    <3>3. QueuesSame
      BY <1>1, <1>4, <3>2 DEF QueuesSame
    <3>4. QED
      BY <1>4, <3>3
  <2>3. CASE p # <<>>
    <3>1. PICK r : r = Tail(p)
      OBVIOUS
    <3>2. /\ r \in Seq(Threads) /\ Distinct(r) /\ Members(r) = Members(p) \ {p[1]}
          /\ \A v, w \in Members(r) : Before(p, v, w) => Before(r, v, w)
      BY <1>6, <2>3, <3>1, TailInOrder
    <3>3. Members(q) = Members(r)
      BY <1>4, <2>1, <2>3, <3>2
    <3>4. \A v, w \in Members(q) : Before(q, v, w) => Before(r, v, w)
      BY <1>4, <3>2, <3>3
    <3>5. q = r
      BY <1>4, <3>2, <3>3, <3>4, SameSequence
    <3>6. QED
      BY <1>1, <1>4, <1>5, <2>3, <3>1, <3>5
  <2>4. QED
    BY <2>2, <2>3
<1>11. QED
  BY <1>3, <1>8, <1>9, <1>10

LEMMA SameOperators ==
    /\ \A q, S : Q!Kept(q, S) = Kept(q, S)
    /\ \A q : Q!Members(q) = Members(q)
<1>1. \A q, S : Q!Kept(q, S) = Kept(q, S)
  BY Zenon DEF Q!Kept, Kept, Q!Cardinality, Cardinality
<1>2. QED
  BY <1>1 DEF Q!Members, Members

LEMMA ChangedFunction ==
    ASSUME NEW a, NEW p, QueueChanged(a, p)
    PROVE  [x \in Addresses |-> QueueOf(x)]' = [[x \in Addresses |-> QueueOf(x)] EXCEPT ![a] = p]
<1>1. a \in Addresses /\ QueueOf(a)' = p /\ \A c \in Addresses : c # a => QueueOf(c)' = QueueOf(c)
  BY DEF QueueChanged
<1>2. QED
  BY <1>1

LEMMA EnqueueSelfImplements ==
    ASSUME Inv, Inv', NEW t \in Threads, EnqueueSelf(t)
    PROVE  QueuesSame \/ Q!Next
<1>1. CASE UNCHANGED <<bucketQueue, address>>
  BY <1>1, SameTables DEF EnqueueSelf
<1>2. CASE /\ bucketQueue' = [bucketQueue EXCEPT ![TheBucket(t)] = Append(@, t)]
           /\ address' = [address EXCEPT ![t] = target[t]] /\ Finish(t, "parked")
  <2>1. PICK b, a : b = TheBucket(t) /\ a = target[t]
    OBVIOUS
  <2>2. Enqueues(t, b)
    BY <1>2, <2>1 DEF Enqueues, EnqueueSelf
  <2>3. QueueChanged(a, Append(QueueOf(a), t)) /\ address[t] = Null
    BY <2>1, <2>2, EnqueuesAtEnd
  <2>4. PICK p : p = Append(QueueOf(a), t)
    OBVIOUS
  <2>5. [x \in Addresses |-> QueueOf(x)]' = [[x \in Addresses |-> QueueOf(x)] EXCEPT ![a] = p]
    BY <2>3, <2>4, ChangedFunction
  <2>6. ASSUME NEW x \in Addresses PROVE t \notin Members(QueueOf(x))
    <3>1. QueueRight(x)
      BY QueuesRightHolds DEF QueuesRight
    <3>2. x # Null
      BY TableAssumption DEF TableAssumption
    <3>3. QED
      BY <2>3, <3>1, <3>2 DEF QueueRight
  <2>7. a \in Addresses
    BY <2>3 DEF QueueChanged
  <2>8. Q!Enqueue(t, a)
    BY <2>4, <2>5, <2>6, <2>7, SameOperators DEF Q!Enqueue
  <2>9. QED
    BY <2>7, <2>8 DEF Q!Next
<1>3. QED
  BY <1>1, <1>2 DEF EnqueueSelf

LEMMA DequeueIsAbstract ==
    ASSUME Inv, Inv', NEW t \in Threads, Dequeue(t)
    PROVE  QueuesSame \/ Q!Next
<1>1. PICK a, p : a = target[t] /\ p = QueueOf(a)
  OBVIOUS
<1>2. a \in Addresses /\ \/ QueuesSame
                         \/ QueueChanged(a, <<>>)
                         \/ p # <<>> /\ QueueChanged(a, Tail(p))
                         \/ QueueChanged(a, Kept(p, Threads \ {t}))
  BY <1>1, DequeueImplements
<1>3. CASE QueueChanged(a, <<>>)
  <2>1. Q!DequeueAll(a)
    BY <1>3, ChangedFunction DEF Q!DequeueAll
  <2>2. QED
    BY <1>2, <2>1 DEF Q!Next
<1>4. CASE p # <<>> /\ QueueChanged(a, Tail(p))
  <2>1. PICK r : r = Tail(p)
    OBVIOUS
  <2>2. [x \in Addresses |-> QueueOf(x)]' = [[x \in Addresses |-> QueueOf(x)] EXCEPT ![a] = r]
    BY <1>4, <2>1, ChangedFunction
  <2>3. Q!DequeueFirst(a)
    BY <1>1, <1>2, <1>4, <2>1, <2>2 DEF Q!DequeueFirst
  <2>4. QED
    BY <1>2, <2>3 DEF Q!Next
<1>5. CASE QueueChanged(a, Kept(p, Threads \ {t}))
  <2>1. PICK r : r = Kept(p, Threads \ {t})
    OBVIOUS
  <2>2. [x \in Addresses |-> QueueOf(x)]' = [[x \in Addresses |-> QueueOf(x)] EXCEPT ![a] = r]
    BY <1>5, <2>1, ChangedFunction
  <2>3. Q!DequeueSelf(t, a)
    BY <1>1, <1>2, <2>1, <2>2, SameOperators DEF Q!DequeueSelf
  <2>4. QED
    BY <1>2, <2>3 DEF Q!Next
<1>6. QED
  BY <1>2, <1>3, <1>4, <1>5

(* Every step of the table is a step of the queues, or changes none.        *)
LEMMA StepImplements ==
    ASSUME Inv, Inv', [Next]_vars
    PROVE  QueuesSame \/ Q!Next
<1>1. CASE UNCHANGED vars
  BY <1>1, SameTables DEF vars, shared
<1>2. ASSUME NEW t \in Threads, ThreadDataMade(t) \/ ThreadDataDestroyed(t) PROVE QueuesSame
  BY <1>2, SameTables DEF ThreadDataMade, ThreadDataDestroyed, shared
<1>3. ASSUME NEW t \in Threads, (\E a \in Addresses : ParkStart(t, a)) \/ TimeoutStart(t) \/ UnparkStart(t)
      PROVE  QueuesSame
  BY <1>3, SameTables DEF ParkStart, TimeoutStart, UnparkStart, shared
<1>4. ASSUME NEW t \in Threads, Step(t) PROVE QueuesSame \/ Q!Next
  <2>1. CASE SizeCheck(t) \/ LockBucket(t) \/ Retry(t) \/ ForEach(t) \/ NoNeedToRehash(t)
    BY <2>1, SameTables DEF SizeCheck, LockBucket, Retry, ForEach, NoNeedToRehash, shared
  <2>2. CASE EnsureHashtable(t) \/ FindBucket(t) \/ Rehash(t)
    BY <2>2, EnsureHashtableSame, FindBucketSame, RehashSame
  <2>3. CASE EnqueueSelf(t) \/ Dequeue(t)
    BY <2>3, EnqueueSelfImplements, DequeueIsAbstract
  <2>4. QED
    BY <1>4, <2>1, <2>2, <2>3 DEF Step
<1>5. QED
  BY <1>1, <1>2, <1>3, <1>4 DEF Next

(* The table implements a first-in first-out queue per address: enqueue()   *)
(* and dequeue() change one queue, and neither new buckets nor a rehash     *)
(* change any.                                                              *)
THEOREM TableImplementsQueues == Spec => ImplementsQueues
<1>1. Init => Q!Init
  BY DEF Init, Q!Init, QueueOf
<1>2. Inv /\ [Next]_vars => [Q!Next]_([a \in Addresses |-> QueueOf(a)])
  <2>1. SUFFICES ASSUME Inv, [Next]_vars PROVE [Q!Next]_([a \in Addresses |-> QueueOf(a)])
    OBVIOUS
  <2>2. Inv'
    BY <2>1, NextInv
  <2>3. QueuesSame => [a \in Addresses |-> QueueOf(a)]' = [a \in Addresses |-> QueueOf(a)]
    BY DEF QueuesSame
  <2>4. QED
    BY <2>1, <2>2, <2>3, StepImplements
<1>3. QED
  BY <1>1, <1>2, Invariant, PTL DEF Spec, ImplementsQueues, Q!Spec
=============================================================================
