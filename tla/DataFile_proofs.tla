--------------------------- MODULE DataFile_proofs ---------------------------
(***************************************************************************)
(* What the operators of DataFile return, for every file: the facts that   *)
(* the proofs about claves.c rest on.                                      *)
(***************************************************************************)
EXTENDS DataFile, Integers, FiniteSetTheorems, TLAPS

\* Ranks are numbers between 1 and the size of the set.
LEMMA RankRange ==
  ASSUME NEW P, IsFiniteSet(P), P \subseteq Nat, NEW i \in P
  PROVE  Rank(P, i) \in 1..Cardinality(P) /\ Rank(P, i) \in Nat
<1> DEFINE B == {j \in P : j <= i}
<1>1. B \in SUBSET P /\ i \in B
  OBVIOUS
<1>2. IsFiniteSet(B) /\ Cardinality(B) <= Cardinality(P)
  BY <1>1, FS_Subset
<1>3. Cardinality(P) \in Nat /\ Cardinality(B) \in Nat
  BY <1>2, FS_CardinalityType
<1>4. Cardinality(B) # 0
  BY <1>1, <1>2, FS_EmptySet
<1> HIDE DEF B
<1>5. Cardinality(B) \in 1..Cardinality(P) /\ Cardinality(B) \in Nat
  BY <1>2, <1>3, <1>4
<1> QED
  BY <1>5 DEF Rank, B

\* A larger element has a larger rank.
LEMMA RankMonotonic ==
  ASSUME NEW P, IsFiniteSet(P), P \subseteq Nat,
         NEW i \in P, NEW j \in P, i < j
  PROVE  Rank(P, i) < Rank(P, j)
<1> DEFINE B(x) == {y \in P : y <= x}
<1>1. B(i) \in SUBSET B(j) /\ B(j) \in SUBSET P /\ j \in B(j) /\ j \notin B(i)
  <2>1. i \in Nat /\ j \in Nat /\ \A y \in P : y \in Nat
    OBVIOUS
  <2>2. \A y \in P : y <= i => y <= j
    BY <2>1
  <2>3. j <= j /\ ~(j <= i)
    BY <2>1
  <2> QED BY <2>2, <2>3
<1>2. IsFiniteSet(B(j))
  BY <1>1, FS_Subset
<1>3. /\ IsFiniteSet(B(i))
      /\ Cardinality(B(i)) <= Cardinality(B(j))
      /\ Cardinality(B(j)) = Cardinality(B(i)) => B(j) = B(i)
  <2> HIDE DEF B
  <2> QED BY <1>1, <1>2, FS_Subset
<1>4. Cardinality(B(i)) \in Nat /\ Cardinality(B(j)) \in Nat
  BY <1>2, <1>3, FS_CardinalityType
<1>5. B(i) # B(j)
  BY <1>1
<1> HIDE DEF B
<1>6. Cardinality(B(i)) < Cardinality(B(j))
  BY <1>3, <1>4, <1>5
<1> QED
  BY <1>6 DEF Rank, B

\* Every rank up to the size of the set is taken, by one element.
LEMMA RankOnto ==
  ASSUME NEW P, IsFiniteSet(P), P \subseteq Nat, NEW n \in 1..Cardinality(P)
  PROVE  Nth(P, n) \in P /\ Rank(P, Nth(P, n)) = n
<1> DEFINE N == Cardinality(P)
           f == [i \in P |-> Rank(P, i)]
<1>1. N \in Nat
  BY FS_CardinalityType
<1>2. f \in [P -> 1..N]
  BY RankRange
<1>3. ASSUME NEW i \in P, NEW j \in P, f[i] = f[j]
      PROVE  i = j
  <2>1. i \in Nat /\ j \in Nat
    OBVIOUS
  <2>2. CASE i < j
    <3>1. Rank(P, i) < Rank(P, j)
      BY <2>2, RankMonotonic
    <3>2. Rank(P, i) \in Nat /\ Rank(P, j) \in Nat
      BY RankRange
    <3> QED BY <3>1, <3>2, <1>3
  <2>3. CASE j < i
    <3>1. Rank(P, j) < Rank(P, i)
      BY <2>3, RankMonotonic
    <3>2. Rank(P, i) \in Nat /\ Rank(P, j) \in Nat
      BY RankRange
    <3> QED BY <3>1, <3>2, <1>3
  <2> QED BY <2>1, <2>2, <2>3
<1>4. f \in Injection(P, 1..N)
  BY <1>2, <1>3 DEF Injection, IsInjective
<1>5. IsFiniteSet(1..N) /\ Cardinality(1..N) = N
  BY <1>1, FS_Interval
<1>6. f \in Surjection(P, 1..N)
  BY <1>4, <1>5, FS_Injection
<1>7. \E i \in P : f[i] = n
  BY <1>6 DEF Surjection
<1>8. \E i \in P : Rank(P, i) = n
  BY <1>7
<1> QED
  BY <1>8 DEF Nth

-----------------------------------------------------------------------------
\* Picked lines come from different positions, from all of them.
LEMMA PickLines ==
  ASSUME NEW L, NEW s \in Seq(L), NEW P \in SUBSET DOMAIN s
  PROVE  /\ Pick(s, P) \in Seq(L)
         /\ \A n \in DOMAIN Pick(s, P) : Nth(P, n) \in P /\ Pick(s, P)[n] = s[Nth(P, n)]
         /\ \A m, n \in DOMAIN Pick(s, P) : Nth(P, m) = Nth(P, n) => m = n
         /\ \A j \in P : \E n \in DOMAIN Pick(s, P) : Pick(s, P)[n] = s[j]
<1> DEFINE w == Pick(s, P)
           N == Cardinality(P)
<1>1. DOMAIN s = 1..Len(s) /\ Len(s) \in Nat /\ \A j \in DOMAIN s : s[j] \in L
  OBVIOUS
<1>2. P \subseteq Nat
  BY <1>1
<1>3. IsFiniteSet(P)
  <2>1. IsFiniteSet(1..Len(s)) /\ P \in SUBSET (1..Len(s))
    BY <1>1, FS_Interval
  <2> QED BY <2>1, FS_Subset
<1>4. N \in Nat
  BY <1>3, FS_CardinalityType
<1>5. \A n \in 1..N : Nth(P, n) \in P /\ Rank(P, Nth(P, n)) = n
  BY <1>2, <1>3, RankOnto
<1>6. \A i \in P : Rank(P, i) \in 1..N
  BY <1>2, <1>3, RankRange
<1>7. \A i, j \in P : Rank(P, i) = Rank(P, j) => i = j
  <2> SUFFICES ASSUME NEW i \in P, NEW j \in P, i < j
               PROVE  Rank(P, i) # Rank(P, j)
    BY <1>2
  <2>1. Rank(P, i) < Rank(P, j)
    BY <1>2, <1>3, RankMonotonic
  <2>2. Rank(P, i) \in Nat /\ Rank(P, j) \in Nat
    BY <1>2, <1>3, RankRange
  <2> QED BY <2>1, <2>2
<1>8. w = [n \in 1..N |-> s[Nth(P, n)]]
  BY DEF Pick
<1> HIDE DEF N, w
<1>9. \A n \in 1..N : w[n] = s[Nth(P, n)] /\ w[n] \in L
  BY <1>1, <1>5, <1>8
<1>10. DOMAIN w = 1..N
  BY <1>8
<1>11. w \in Seq(L)
  BY <1>4, <1>8, <1>9
<1>12. \A n \in DOMAIN w : Nth(P, n) \in P /\ w[n] = s[Nth(P, n)]
  BY <1>5, <1>9, <1>10
<1>13. \A m, n \in DOMAIN w : Nth(P, m) = Nth(P, n) => m = n
  BY <1>5, <1>10
<1>14. ASSUME NEW j \in P
       PROVE  \E n \in DOMAIN w : w[n] = s[j]
  <2>1. Rank(P, j) \in 1..N
    BY <1>6
  <2>2. Nth(P, Rank(P, j)) = j
    BY <1>5, <1>7, <2>1
  <2> QED BY <1>9, <1>10, <2>1, <2>2
<1> QED
  BY <1>11, <1>12, <1>13, <1>14 DEF w

\* delete_key copies every line of the other keys, once and in their order,
\* and no other line.
THEOREM WithoutLines ==
  ASSUME NEW L, NEW s \in Seq(L), NEW k
  PROVE  LET w == Without(s, k)
         IN /\ w \in Seq(L)
            /\ \A n \in DOMAIN w : \E j \in DOMAIN s : s[j].key # k /\ w[n] = s[j]
            /\ \A j \in DOMAIN s : s[j].key # k => \E n \in DOMAIN w : w[n] = s[j]
            /\ Unique(s) => Unique(w)
<1> DEFINE P == Kept(s, k)
           w == Without(s, k)
<1>1. P \in SUBSET DOMAIN s /\ \A j \in DOMAIN s : j \in P <=> s[j].key # k
  BY DEF Kept
<1>2. w = Pick(s, P)
  BY DEF Without
<1> HIDE DEF P, w
<1>3. /\ w \in Seq(L)
      /\ \A n \in DOMAIN w : Nth(P, n) \in P /\ w[n] = s[Nth(P, n)]
      /\ \A m, n \in DOMAIN w : Nth(P, m) = Nth(P, n) => m = n
      /\ \A j \in P : \E n \in DOMAIN w : w[n] = s[j]
  BY <1>1, <1>2, PickLines
<1>4. \A n \in DOMAIN w : \E j \in DOMAIN s : s[j].key # k /\ w[n] = s[j]
  BY <1>1, <1>3
<1>5. \A j \in DOMAIN s : s[j].key # k => \E n \in DOMAIN w : w[n] = s[j]
  BY <1>1, <1>3
<1>6. Unique(s) => Unique(w)
  BY <1>1, <1>3 DEF Unique
<1> QED
  BY <1>3, <1>4, <1>5, <1>6 DEF w

\* set_value appends a line: with a key that no line has, keys stay unique.
THEOREM AppendLine ==
  ASSUME NEW L, NEW s \in Seq(L), NEW l \in L
  PROVE  /\ Append(s, l) \in Seq(L)
         /\ KeysOf(Append(s, l)) = KeysOf(s) \cup {l.key}
         /\ Unique(s) /\ l.key \notin KeysOf(s) => Unique(Append(s, l))
<1> DEFINE a == Append(s, l)
<1>1. /\ a \in Seq(L) /\ Len(s) \in Nat
      /\ DOMAIN s = 1..Len(s) /\ DOMAIN a = 1..(Len(s) + 1)
      /\ \A n \in 1..Len(s) : a[n] = s[n]
      /\ a[Len(s) + 1] = l
  OBVIOUS
<1> HIDE DEF a
<1>2. DOMAIN a = DOMAIN s \cup {Len(s) + 1}
  BY <1>1
<1>3. KeysOf(a) = KeysOf(s) \cup {l.key}
  BY <1>1, <1>2 DEF KeysOf
<1>4. ASSUME Unique(s), l.key \notin KeysOf(s)
      PROVE  Unique(a)
  <2>1. \A n \in DOMAIN s : a[n].key = s[n].key /\ a[n].key # l.key
    BY <1>1, <1>4 DEF KeysOf
  <2> QED BY <1>1, <1>2, <1>4, <2>1 DEF Unique
<1> QED
  BY <1>1, <1>3, <1>4 DEF a

\* With unique keys, a scan for k finds the value of the one line of key k.
LEMMA LookupUnique ==
  ASSUME NEW L, NEW s \in Seq(L), Unique(s), NEW n \in DOMAIN s
  PROVE  Lookup(s, s[n].key) = s[n].val
<1> DEFINE First(x) == /\ s[x].key = s[n].key
                      /\ \A j \in DOMAIN s : j < x => s[j].key # s[n].key
<1>1. n \in Nat /\ ~(n < n)
  OBVIOUS
<1>2. \A j \in DOMAIN s : s[j].key = s[n].key => j = n
  BY DEF Unique
<1>3. First(n)
  BY <1>1, <1>2
<1>4. \A x \in DOMAIN s : First(x) => x = n
  BY <1>2
<1>5. (CHOOSE x \in DOMAIN s : First(x)) = n
  BY <1>3, <1>4
<1> QED
  BY <1>5 DEF Lookup

\* A scan for a key that some line has stops at a line of that key.
LEMMA LookupFirst ==
  ASSUME NEW L, NEW s \in Seq(L), NEW k \in KeysOf(s)
  PROVE  \E n \in DOMAIN s : s[n].key = k /\ Lookup(s, k) = s[n].val
<1> DEFINE P == {n \in DOMAIN s : s[n].key = k}
           First(x) == /\ s[x].key = k
                       /\ \A j \in DOMAIN s : j < x => s[j].key # k
<1>1. DOMAIN s = 1..Len(s) /\ Len(s) \in Nat
  OBVIOUS
<1>2. P \in SUBSET (1..Len(s)) /\ P \subseteq Nat /\ P # {}
  BY <1>1 DEF KeysOf
<1>3. IsFiniteSet(P) /\ Cardinality(P) \in Nat /\ Cardinality(P) # 0
  <2>1. IsFiniteSet(1..Len(s))
    BY <1>1, FS_Interval
  <2> HIDE DEF P
  <2> QED BY <1>2, <2>1, FS_Subset, FS_CardinalityType, FS_EmptySet
<1>4. Nth(P, 1) \in P /\ Rank(P, Nth(P, 1)) = 1
  <2> HIDE DEF P
  <2>1. 1 \in 1..Cardinality(P)
    BY <1>3
  <2> QED BY <1>2, <1>3, <2>1, RankOnto
<1>5. ASSUME NEW j \in P
      PROVE  ~(j < Nth(P, 1))
  <2> HIDE DEF P
  <2>1. Rank(P, j) \in 1..Cardinality(P)
    BY <1>2, <1>3, RankRange
  <2>2. j < Nth(P, 1) => Rank(P, j) < 1
    BY <1>2, <1>3, <1>4, RankMonotonic
  <2> QED BY <1>3, <2>1, <2>2
<1>6. First(Nth(P, 1)) /\ Nth(P, 1) \in DOMAIN s
  BY <1>4, <1>5
<1>7. \E n \in DOMAIN s : First(n)
  BY <1>6
<1> DEFINE n == CHOOSE x \in DOMAIN s : First(x)
<1>8. n \in DOMAIN s /\ First(n)
  BY <1>7
<1>9. Lookup(s, k) = s[n].val
  BY DEF Lookup
<1> QED
  BY <1>8, <1>9

\* Two files with unique keys and the same lines are the same tuples.
THEOREM SameLinesSameTuples ==
  ASSUME NEW L, NEW M, NEW s \in Seq(L), NEW u \in Seq(M), Unique(s), Unique(u),
         \A n \in DOMAIN s : \E j \in DOMAIN u : s[n] = u[j],
         \A j \in DOMAIN u : \E n \in DOMAIN s : s[n] = u[j]
  PROVE  TuplesOf(s) = TuplesOf(u)
<1>1. KeysOf(s) = KeysOf(u)
  BY DEF KeysOf
<1>2. ASSUME NEW k \in KeysOf(s)
      PROVE  Lookup(s, k) = Lookup(u, k)
  <2>1. PICK n \in DOMAIN s : s[n].key = k
    BY <1>2 DEF KeysOf
  <2>2. PICK j \in DOMAIN u : s[n] = u[j]
    OBVIOUS
  <2>3. Lookup(s, k) = s[n].val /\ Lookup(u, k) = u[j].val
    BY <2>1, <2>2, LookupUnique
  <2> QED BY <2>2, <2>3
<1> QED
  BY <1>1, <1>2 DEF TuplesOf

\* The copy that delete_key makes stands for the tuples of the other keys.
THEOREM WithoutTuples ==
  ASSUME NEW L, NEW s \in Seq(L), NEW k, Unique(s)
  PROVE  /\ KeysOf(Without(s, k)) = KeysOf(s) \ {k}
         /\ TuplesOf(Without(s, k)) = [x \in KeysOf(s) \ {k} |-> TuplesOf(s)[x]]
<1> DEFINE w == Without(s, k)
<1>1. /\ w \in Seq(L) /\ Unique(w)
      /\ \A n \in DOMAIN w : \E j \in DOMAIN s : s[j].key # k /\ w[n] = s[j]
      /\ \A j \in DOMAIN s : s[j].key # k => \E n \in DOMAIN w : w[n] = s[j]
  <2>1. w \in Seq(L) /\ Unique(w)
    BY WithoutLines
  <2>2. \A n \in DOMAIN w : \E j \in DOMAIN s : s[j].key # k /\ w[n] = s[j]
    BY WithoutLines
  <2>3. \A j \in DOMAIN s : s[j].key # k => \E n \in DOMAIN w : w[n] = s[j]
    BY WithoutLines
  <2> QED BY <2>1, <2>2, <2>3
<1> HIDE DEF w
<1>2. KeysOf(w) = KeysOf(s) \ {k}
  BY <1>1 DEF KeysOf
<1>3. ASSUME NEW x \in KeysOf(w)
      PROVE  Lookup(w, x) = Lookup(s, x)
  <2>1. PICK n \in DOMAIN w : w[n].key = x
    BY DEF KeysOf
  <2>2. PICK j \in DOMAIN s : w[n] = s[j]
    BY <1>1
  <2>3. Lookup(w, x) = w[n].val /\ Lookup(s, x) = s[j].val
    BY <1>1, <2>1, <2>2, LookupUnique
  <2> QED BY <2>2, <2>3
<1>4. TuplesOf(w) = [x \in KeysOf(s) \ {k} |-> TuplesOf(s)[x]]
  BY <1>2, <1>3 DEF TuplesOf
<1> QED
  BY <1>2, <1>4 DEF w
=============================================================================
