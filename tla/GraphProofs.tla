----------------------------- MODULE GraphProofs ------------------------------
(***************************************************************************)
(* The changes made to a graph keep its invariant, GraphOK.  A label is    *)
(* added (addLabelToGraph, blockThread, the probes of handleMalloc and     *)
(* handleFree).  Labels or coherence change and no event is added or       *)
(* removed: setRf with new views, in-place revisits and repairs, flags,    *)
(* addCo and moveCo.  Or the graph is cut or copied: removeLast,           *)
(* cutToStamp, copyGraphUpTo and the repair that follows.  The view that   *)
(* is kept is closed under prefixes, but for the last reads of threads,    *)
(* which lose their store and are repaired.                                *)
(*                                                                         *)
(* What is proved first about numbers and finite sets takes the place of   *)
(* induction over data: a set of naturals has a least element, a finite    *)
(* one a greatest one, and the events of a set are numbered without gaps   *)
(* by how many come before them. On these rest the stamps of a graph, its  *)
(* coherence sequences and the indices of its threads.                     *)
(***************************************************************************)
EXTENDS GraphInvariant, FiniteSetTheorems, FunctionTheorems, WellFoundedInduction, TLAPS

(************************* Orders, ranks and sequences *********************)

(* A nonempty set of naturals has a least element. *)
LEMMA LeastNat ==
  ASSUME NEW S, S \subseteq Nat, S # {}
  PROVE \E n \in S : \A m \in S : n <= m
<1> DEFINE R == {p \in Nat \X Nat : p[1] < p[2]}
<1>1. OpToRel(<, Nat) = R
  BY DEF OpToRel
<1>2. IsWellFoundedOn(R, Nat)
  BY <1>1, NatLessThanWellFounded
<1>3. \E n \in S : \A y \in S : ~(<<y, n>> \in R)
  <2> HIDE DEF R
  <2> QED BY <1>2, WFMin
<1>4. \A n, y \in S : ~(<<y, n>> \in R) => n <= y
  <2>1. SUFFICES ASSUME NEW n \in S, NEW y \in S, y < n PROVE <<y, n>> \in R
    OBVIOUS
  <2> QED BY <2>1
<1> HIDE DEF R
<1> QED BY <1>3, <1>4

(* A nonempty bounded set of naturals has a greatest element. *)
LEMMA GreatestNat ==
  ASSUME NEW n \in Nat, NEW S, S \subseteq 0 .. n, S # {}
  PROVE  \E m \in S : \A k \in S : k <= m
<1> DEFINE Rest == {n - k : k \in S}
<1>1. Rest \subseteq Nat /\ Rest # {}
  <2>1. \A k \in S : n - k \in Nat
    OBVIOUS
  <2> QED BY <2>1
<1>2. PICK r \in Rest : \A q \in Rest : r <= q
  BY <1>1, LeastNat
<1>3. PICK m \in S : r = n - m
  OBVIOUS
<1>4. \A k \in S : k <= m
  <2>1. TAKE k \in S
  <2>2. r <= n - k
    BY <1>2
  <2> QED BY <1>3, <2>2
<1> QED BY <1>4

(* How many elements of S have a smaller key than e. *)
Rank(S, key, e) == Cardinality({d \in S : key[d] < key[e]})

(* Ranks are in the order of the keys, and smaller than the size of the     *)
(* set.                                                                     *)
LEMMA RankOrder ==
  ASSUME NEW S, IsFiniteSet(S), NEW key \in [S -> Nat]
  PROVE  /\ Cardinality(S) \in Nat
         /\ \A e \in S : Rank(S, key, e) \in Nat /\ Rank(S, key, e) < Cardinality(S)
         /\ \A d, e \in S : key[d] <= key[e] => Rank(S, key, d) <= Rank(S, key, e)
         /\ \A d, e \in S : key[d] < key[e] => Rank(S, key, d) < Rank(S, key, e)
<1> DEFINE Below(e) == {d \in S : key[d] < key[e]}
<1>1. \A e \in S : IsFiniteSet(Below(e)) /\ Cardinality(Below(e)) \in Nat
  <2>1. TAKE e \in S
  <2>2. Below(e) \in SUBSET S
    OBVIOUS
  <2> HIDE DEF Below
  <2>3. IsFiniteSet(Below(e))
    BY <2>2, FS_Subset
  <2> QED BY <2>3, FS_CardinalityType
<1>2. Cardinality(S) \in Nat
  BY FS_CardinalityType
<1>3. ASSUME NEW e \in S PROVE Cardinality(Below(e)) < Cardinality(S)
  <2>1. Below(e) \in SUBSET S /\ Below(e) # S
    <3>1. e \notin Below(e)
      OBVIOUS
    <3> QED BY <3>1
  <2> HIDE DEF Below
  <2>2. Cardinality(Below(e)) <= Cardinality(S) /\ Cardinality(S) # Cardinality(Below(e))
    BY <2>1, FS_Subset
  <2> QED BY <1>1, <1>2, <2>2
<1>4. ASSUME NEW d \in S, NEW e \in S, key[d] <= key[e]
      PROVE  Cardinality(Below(d)) <= Cardinality(Below(e))
  <2>1. Below(d) \in SUBSET Below(e)
    BY <1>4
  <2> HIDE DEF Below
  <2> QED BY <1>1, <2>1, FS_Subset
<1>5. ASSUME NEW d \in S, NEW e \in S, key[d] < key[e]
      PROVE  Cardinality(Below(d)) < Cardinality(Below(e))
  <2>1. Below(d) \in SUBSET Below(e)
    BY <1>5
  <2>2. d \in Below(e) /\ d \notin Below(d)
    BY <1>5
  <2> HIDE DEF Below
  <2>3. Cardinality(Below(d)) <= Cardinality(Below(e)) /\ Cardinality(Below(e)) # Cardinality(Below(d))
    BY <1>1, <2>1, <2>2, FS_Subset
  <2> QED BY <1>1, <2>3
<1>6. \A e : Rank(S, key, e) = Cardinality(Below(e))
  BY DEF Rank
<1> HIDE DEF Below
<1> QED BY <1>1, <1>2, <1>3, <1>4, <1>5, <1>6

(* With distinct keys every rank is taken. *)
LEMMA RankOnto ==
  ASSUME NEW S, IsFiniteSet(S), NEW key \in [S -> Nat],
         \A d, e \in S : key[d] = key[e] => d = e
  PROVE  \A k \in 1 .. Cardinality(S) : \E e \in S : Rank(S, key, e) = k - 1
<1> DEFINE n == Cardinality(S)
           rank == [e \in S |-> Rank(S, key, e)]
<1>1. n \in Nat
  BY RankOrder
<1>2. rank \in [S -> 0 .. n - 1]
  <2>1. \A e \in S : Rank(S, key, e) \in Nat /\ Rank(S, key, e) < n
    BY RankOrder
  <2>2. \A e \in S : Rank(S, key, e) \in 0 .. n - 1
    <3> HIDE DEF n
    <3> QED BY <1>1, <2>1
  <2> QED BY <2>2
<1>3. ASSUME NEW d \in S, NEW e \in S, rank[d] = rank[e]
      PROVE  d = e
  <2>1. ~(key[d] < key[e]) /\ ~(key[e] < key[d])
    <3>1. Rank(S, key, d) = Rank(S, key, e) /\ Rank(S, key, d) \in Nat
      BY <1>3, RankOrder
    <3> QED BY <3>1, RankOrder
  <2>2. key[d] = key[e]
    BY <2>1
  <2> QED BY <2>2
<1>4. rank \in Injection(S, 0 .. n - 1)
  BY <1>2, <1>3, Fun_IsInj
<1>5. IsFiniteSet(0 .. n - 1) /\ Cardinality(0 .. n - 1) = n
  <2> HIDE DEF n
  <2>1. 0 \in Int /\ n - 1 \in Int
    BY <1>1
  <2>2. /\ IsFiniteSet(0 .. n - 1)
        /\ Cardinality(0 .. n - 1) = IF 0 > n - 1 THEN 0 ELSE n - 1 - 0 + 1
    BY <2>1, FS_Interval
  <2> QED BY <1>1, <2>2
<1>6. rank \in Surjection(S, 0 .. n - 1)
  BY <1>4, <1>5, FS_Injection
<1>7. \A i \in 0 .. n - 1 : \E e \in S : rank[e] = i
  <2> HIDE DEF rank, n
  <2> QED BY <1>6 DEF Surjection
<1>8. ASSUME NEW k \in 1 .. n PROVE \E e \in S : Rank(S, key, e) = k - 1
  <2>1. k - 1 \in 0 .. n - 1
    <3> HIDE DEF n
    <3> QED BY <1>1
  <2> QED BY <1>7, <2>1
<1> QED BY <1>8

(* No element comes twice. *)
Distinct(s) == \A i, j \in DOMAIN s : s[i] = s[j] => i = j

(* Kept, the subsequence of a sequence with the elements of a set: it has   *)
(* these elements, each as often as before.                                 *)
LEMMA KeptProperties ==
  ASSUME NEW R, NEW s \in Seq(R), NEW T
  PROVE  /\ Kept(s, T) \in Seq(R \cap T)
         /\ ToSet(Kept(s, T)) \subseteq ToSet(s) \cap T
         /\ ToSet(s) \cap T \subseteq ToSet(Kept(s, T))
         /\ Distinct(s) => Distinct(Kept(s, T))
<1> DEFINE I == {i \in DOMAIN s : s[i] \in T}
           key == [i \in I |-> i]
           n == Cardinality(I)
           at(k) == CHOOSE i \in I : Cardinality({j \in I : j < i}) = k - 1
<1>1. Len(s) \in Nat /\ DOMAIN s = 1 .. Len(s) /\ \A i \in 1 .. Len(s) : s[i] \in R
  OBVIOUS
<1>2. I \subseteq 1 .. Len(s)
  BY <1>1
<1>3. IsFiniteSet(I) /\ n \in Nat
  <2>1. IsFiniteSet(1 .. Len(s))
    BY <1>1, FS_Interval
  <2>2. IsFiniteSet(I)
    <3> HIDE DEF I
    <3> QED BY <1>2, <2>1, FS_Subset
  <2> HIDE DEF I
  <2> QED BY <2>2, FS_CardinalityType
<1>4. key \in [I -> Nat] /\ \A d, e \in I : key[d] = key[e] => d = e
  BY <1>1, <1>2
<1>5. ASSUME NEW i \in I PROVE Rank(I, key, i) = Cardinality({j \in I : j < i})
  <2>1. {j \in I : key[j] < key[i]} = {j \in I : j < i}
    OBVIOUS
  <2> QED BY <2>1 DEF Rank
<1> HIDE DEF key
<1>6. \A k \in 1 .. n : at(k) \in I
  <2>1. TAKE k \in 1 .. n
  <2>2. \E i \in I : Rank(I, key, i) = k - 1
    <3> HIDE DEF I
    <3> QED BY <1>3, <1>4, RankOnto
  <2>3. \E i \in I : Cardinality({j \in I : j < i}) = k - 1
    <3> HIDE DEF I
    <3> QED BY <1>5, <2>2
  <2> HIDE DEF I
  <2> QED BY <2>3
<1>7. Kept(s, T) = [k \in 1 .. n |-> s[at(k)]]
  BY DEF Kept
<1>8. \A k \in 1 .. n : s[at(k)] \in R \cap T /\ at(k) \in DOMAIN s
  <2>1. TAKE k \in 1 .. n
  <2>2. at(k) \in I
    BY <1>6
  <2> HIDE DEF at
  <2> QED BY <2>2, <1>1
<1>9. \A i \in I : \E k \in 1 .. n : at(k) = i
  <2>1. TAKE i \in I
  <2>2. /\ Rank(I, key, i) \in Nat
        /\ Rank(I, key, i) < n
        /\ \A j \in I : key[i] < key[j] => Rank(I, key, i) < Rank(I, key, j)
        /\ \A j \in I : key[j] < key[i] => Rank(I, key, j) < Rank(I, key, i)
        /\ \A j \in I : Rank(I, key, j) \in Nat
    <3> HIDE DEF I
    <3> QED BY <1>3, <1>4, RankOrder
  <2> DEFINE k == Rank(I, key, i) + 1
  <2>3. k \in 1 .. n /\ k - 1 = Rank(I, key, i)
    <3> HIDE DEF I, n
    <3> QED BY <1>3, <2>2
  <2>4. at(k) \in I
    BY <1>6, <2>3
  <2>5. Cardinality({j \in I : j < at(k)}) = k - 1
    <3>1. Cardinality({j \in I : j < i}) = k - 1
      <4> HIDE DEF I
      <4> QED BY <1>5, <2>3
    <3> HIDE DEF I, k
    <3> QED BY <3>1
  <2> HIDE DEF at
  <2>6. Rank(I, key, at(k)) = Rank(I, key, i)
    <3> HIDE DEF I, k
    <3> QED BY <1>5, <2>3, <2>4, <2>5
  <2>7. ~(key[i] < key[at(k)]) /\ ~(key[at(k)] < key[i])
    <3> HIDE DEF I, k
    <3> QED BY <2>2, <2>4, <2>6
  <2>8. at(k) = i
    <3> HIDE DEF I, k
    <3>1. key[i] \in Nat /\ key[at(k)] \in Nat
      BY <1>4, <2>4
    <3>2. key[i] = key[at(k)]
      BY <2>7, <3>1
    <3> QED BY <1>4, <2>4, <3>2
  <2> HIDE DEF k
  <2> QED BY <2>3, <2>8
<1>13. ASSUME NEW k \in 1 .. n, NEW m \in 1 .. n, at(k) = at(m) PROVE k = m
  <2>1. \A i \in 1 .. n : Cardinality({j \in I : j < at(i)}) = i - 1
    <3>1. TAKE i \in 1 .. n
    <3>2. \E a \in I : Rank(I, key, a) = i - 1
      <4> HIDE DEF I
      <4> QED BY <1>3, <1>4, RankOnto
    <3>3. \E a \in I : Cardinality({j \in I : j < a}) = i - 1
      <4> HIDE DEF I
      <4> QED BY <1>5, <3>2
    <3> HIDE DEF I
    <3> QED BY <3>3
  <2> HIDE DEF at, I
  <2>2. k - 1 = m - 1
    BY <2>1, <1>13
  <2> QED BY <1>3, <2>2
<1> HIDE DEF at, n
<1>10. Kept(s, T) \in Seq(R \cap T)
  BY <1>3, <1>7, <1>8
<1>11. ToSet(Kept(s, T)) \subseteq ToSet(s) \cap T
  BY <1>7, <1>8 DEF ToSet
<1>12. ASSUME NEW x \in ToSet(s) \cap T PROVE x \in ToSet(Kept(s, T))
  <2>1. PICK i \in DOMAIN s : x = s[i]
    BY DEF ToSet
  <2>2. i \in I
    BY <2>1
  <2>3. PICK k \in 1 .. n : at(k) = i
    BY <1>9, <2>2
  <2> QED BY <1>7, <2>1, <2>3 DEF ToSet
<1>14. ASSUME Distinct(s),
              NEW k \in DOMAIN Kept(s, T), NEW m \in DOMAIN Kept(s, T), Kept(s, T)[k] = Kept(s, T)[m]
       PROVE  k = m
  <2>1. k \in 1 .. n /\ m \in 1 .. n /\ s[at(k)] = s[at(m)]
    BY <1>7, <1>14
  <2>2. at(k) = at(m)
    BY <1>8, <1>14, <2>1 DEF Distinct
  <2> QED BY <1>13, <2>1, <2>2
<1> QED BY <1>10, <1>11, <1>12, <1>14 DEF Distinct

(* Where a thread has no gaps, LastIndex is the index of its last event     *)
(* (getThreadSize).                                                         *)
LEMMA ThreadIndices ==
  ASSUME NEW g, NEW t \in Nat, IsFiniteSet(Events(g)), Events(g) \subseteq Nat \X Nat,
         <<t, 0>> \in Events(g),
         \A e \in Events(g) : \A i \in 0 .. e[2] - 1 : <<e[1], i>> \in Events(g)
  PROVE  /\ LastIndex(g, t) \in Nat
         /\ <<t, LastIndex(g, t)>> \in Events(g)
         /\ \A d \in Events(g) : d[1] = t => d[2] <= LastIndex(g, t)
<1> DEFINE T == ThreadEvents(g, t)
           S == {i \in Nat : <<t, i>> \in Events(g)}
           n == Cardinality(T)
<1>1. T \in SUBSET Events(g) /\ \A e : e \in T <=> e \in Events(g) /\ e[1] = t
  BY DEF ThreadEvents
<1>2. IsFiniteSet(T) /\ n \in Nat
  <2>1. IsFiniteSet(T)
    <3> HIDE DEF T
    <3> QED BY <1>1, FS_Subset
  <2> HIDE DEF T
  <2> QED BY <2>1, FS_CardinalityType
<1> HIDE DEF T
<1>3. \A e \in T : e[2] \in S /\ e = <<t, e[2]>>
  BY <1>1
<1>4. ASSUME NEW i \in S PROVE i < n
  <2> DEFINE f == [j \in 0 .. i |-> <<t, j>>]
             B == {<<t, j>> : j \in 0 .. i}
  <2>1. B \in SUBSET T
    <3>1. ASSUME NEW j \in 0 .. i PROVE <<t, j>> \in Events(g)
      <4>1. <<t, i>> \in Events(g) /\ i \in Nat
        OBVIOUS
      <4>2. CASE j = i
        BY <4>1, <4>2
      <4>3. CASE j # i
        <5>1. j \in 0 .. <<t, i>>[2] - 1
          BY <4>1, <4>3
        <5> QED BY <4>1, <5>1
      <4> QED BY <4>2, <4>3
    <3> QED BY <1>1, <3>1
  <2>2. f \in [0 .. i -> B]
    OBVIOUS
  <2>3. \A j, k \in 0 .. i : f[j] = f[k] => j = k
    OBVIOUS
  <2>4. \A b \in B : \E j \in 0 .. i : f[j] = b
    OBVIOUS
  <2>5. f \in Bijection(0 .. i, B)
    BY <2>2, <2>3, <2>4, Fun_IsBij
  <2>6. IsFiniteSet(0 .. i) /\ Cardinality(0 .. i) = i + 1
    <3>1. 0 \in Int /\ i \in Int /\ i >= 0
      OBVIOUS
    <3>2. IsFiniteSet(0 .. i) /\ Cardinality(0 .. i) = IF 0 > i THEN 0 ELSE i - 0 + 1
      BY <3>1, FS_Interval
    <3> QED BY <3>1, <3>2
  <2> HIDE DEF f, B
  <2>7. Cardinality(B) = i + 1
    BY <2>5, <2>6, FS_Bijection DEF ExistsBijection
  <2>8. Cardinality(B) <= n
    BY <1>2, <2>1, FS_Subset
  <2> QED BY <1>2, <2>7, <2>8
<1>5. 0 \in S
  OBVIOUS
<1>6. S \subseteq 0 .. n
  <2> HIDE DEF n
  <2>1. \A i \in S : i \in Nat
    OBVIOUS
  <2> HIDE DEF S
  <2> QED BY <1>2, <1>4, <2>1
<1>7. PICK m \in S : \A k \in S : k <= m
  <2> HIDE DEF n, S
  <2> QED BY <1>2, <1>5, <1>6, GreatestNat
<1>8. T \subseteq {<<t, j>> : j \in 0 .. m}
  <2>1. ASSUME NEW e \in T PROVE e[2] \in 0 .. m
    <3>1. e[2] \in S /\ e[2] \in Nat
      BY <1>3
    <3> QED BY <1>7, <3>1
  <2> QED BY <1>3, <2>1
<1>9. n <= m + 1
  <2> DEFINE f == [j \in 0 .. m |-> <<t, j>>]
             B == {<<t, j>> : j \in 0 .. m}
  <2>1. f \in [0 .. m -> B] /\ (\A b \in B : \E j \in 0 .. m : f[j] = b)
    OBVIOUS
  <2>2. f \in Surjection(0 .. m, B)
    BY <2>1, Fun_IsSurj
  <2>3. m \in Nat
    OBVIOUS
  <2>4. IsFiniteSet(0 .. m) /\ Cardinality(0 .. m) = m + 1
    <3>1. 0 \in Int /\ m \in Int /\ m >= 0
      BY <2>3
    <3>2. IsFiniteSet(0 .. m) /\ Cardinality(0 .. m) = IF 0 > m THEN 0 ELSE m - 0 + 1
      BY <3>1, FS_Interval
    <3> QED BY <3>1, <3>2
  <2>5. T \in SUBSET B
    BY <1>8
  <2> HIDE DEF f, B
  <2>6. IsFiniteSet(B) /\ Cardinality(B) <= m + 1
    BY <2>2, <2>4, FS_Surjection
  <2>7. n <= Cardinality(B) /\ Cardinality(B) \in Nat
    BY <2>5, <2>6, FS_Subset, FS_CardinalityType
  <2> QED BY <1>2, <2>3, <2>6, <2>7
<1>10. n = m + 1
  <2>1. m < n /\ m \in Nat
    BY <1>4
  <2> HIDE DEF n
  <2> QED BY <1>2, <1>9, <2>1
<1>11. LastIndex(g, t) = m
  <2>1. LastIndex(g, t) = n - 1
    BY DEF LastIndex, T
  <2>2. m \in Nat
    OBVIOUS
  <2> HIDE DEF n
  <2> QED BY <1>10, <2>1, <2>2
<1>12. \A d \in Events(g) : d[1] = t => d[2] <= m
  BY <1>1, <1>3, <1>7
<1> QED BY <1>11, <1>12

(* A finite set of naturals without gaps holds the numbers below its size. *)
LEMMA InitialInterval ==
  ASSUME NEW S, S \subseteq Nat, IsFiniteSet(S), 0 \in S, \A i \in S : 0 .. i \subseteq S
  PROVE  /\ Cardinality(S) \in Nat
         /\ \A i \in Nat : i \in S <=> i < Cardinality(S)
<1> DEFINE n == Cardinality(S)
<1>1. n \in Nat
  BY FS_CardinalityType
<1>2. ASSUME NEW m \in Nat PROVE IsFiniteSet(0 .. m) /\ Cardinality(0 .. m) = m + 1
  <2>1. 0 \in Int /\ m \in Int /\ m >= 0
    OBVIOUS
  <2>2. IsFiniteSet(0 .. m) /\ Cardinality(0 .. m) = IF 0 > m THEN 0 ELSE m - 0 + 1
    BY <2>1, FS_Interval
  <2> QED BY <2>1, <2>2
<1>3. ASSUME NEW i \in S PROVE i < n
  <2>1. i \in Nat /\ 0 .. i \in SUBSET S
    OBVIOUS
  <2>2. Cardinality(0 .. i) <= n
    BY <2>1, FS_Subset
  <2>3. Cardinality(0 .. i) = i + 1
    BY <1>2, <2>1
  <2> HIDE DEF n
  <2> QED BY <1>1, <2>1, <2>2, <2>3
<1> HIDE DEF n
<1>4. S \subseteq 0 .. n
  <2>1. ASSUME NEW i \in S PROVE i \in 0 .. n
    <3>1. i < n /\ i \in Nat
      BY <1>3
    <3> QED BY <1>1, <3>1
  <2> QED BY <2>1
<1>5. PICK m \in S : \A k \in S : k <= m
  BY <1>1, <1>4, GreatestNat
<1>6. m \in Nat /\ S = 0 .. m
  <2>1. m \in Nat
    OBVIOUS
  <2>2. S \subseteq 0 .. m
    BY <1>5, <2>1
  <2> QED BY <2>1, <2>2
<1>7. n = m + 1
  BY <1>2, <1>6 DEF n
<1>8. \A i \in Nat : i \in S <=> i < n
  BY <1>6, <1>7
<1> QED BY <1>1, <1>8 DEF n

(* Thread ids are the numbers below the number of threads: the next id is   *)
(* that number (handleThreadCreate).                                        *)
LEMMA ThreadCount ==
  ASSUME NEW g, IsFiniteSet(Events(g)), Events(g) \subseteq Nat \X Nat, InitEvent \in Events(g),
         \A e \in Events(g) : \A t \in 0 .. e[1] : <<t, 0>> \in Events(g)
  PROVE  /\ Cardinality(ThreadIds(g)) \in Nat \ {0}
         /\ \A t : t \in ThreadIds(g) <=> t \in Nat /\ <<t, 0>> \in Events(g)
         /\ \A t \in Nat : t \in ThreadIds(g) <=> t < Cardinality(ThreadIds(g))
<1> DEFINE T == ThreadIds(g)
           B == {d \in Events(g) : d[2] = 0}
           f == [d \in B |-> d[1]]
<1>1. \A t : t \in T <=> t \in Nat /\ <<t, 0>> \in Events(g)
  <2>1. \A d \in B : d = <<d[1], 0>> /\ d[1] \in Nat
    OBVIOUS
  <2>2. \A t : t \in T <=> \E d \in B : t = d[1]
    BY DEF ThreadIds
  <2>3. \A t \in Nat : <<t, 0>> \in Events(g) => <<t, 0>> \in B /\ t = <<t, 0>>[1]
    OBVIOUS
  <2> HIDE DEF T
  <2>4. ASSUME NEW t, t \in T PROVE t \in Nat /\ <<t, 0>> \in Events(g)
    BY <2>1, <2>2, <2>4
  <2>5. ASSUME NEW t, t \in Nat /\ <<t, 0>> \in Events(g) PROVE t \in T
    BY <2>2, <2>3, <2>5
  <2> QED BY <2>4, <2>5
<1>2. IsFiniteSet(T)
  <2>1. B \in SUBSET Events(g)
    OBVIOUS
  <2>2. f \in [B -> T] /\ \A t \in T : \E d \in B : f[d] = t
    BY DEF ThreadIds
  <2>3. f \in Surjection(B, T)
    <3> HIDE DEF f, B, T
    <3> QED BY <2>2, Fun_IsSurj
  <2>4. IsFiniteSet(B)
    <3> HIDE DEF f, B, T
    <3> QED BY <2>1, FS_Subset
  <2> HIDE DEF f, B, T
  <2> QED BY <2>3, <2>4, FS_Surjection
<1> HIDE DEF T
<1>3. T \subseteq Nat /\ 0 \in T
  BY <1>1 DEF InitEvent
<1>4. ASSUME NEW i \in T PROVE 0 .. i \subseteq T
  <2>1. <<i, 0>> \in Events(g) /\ i \in Nat
    BY <1>1
  <2>2. \A t \in 0 .. <<i, 0>>[1] : <<t, 0>> \in Events(g)
    BY <2>1
  <2> QED BY <1>1, <2>1, <2>2
<1>5. Cardinality(T) \in Nat /\ \A i \in Nat : i \in T <=> i < Cardinality(T)
  BY <1>2, <1>3, <1>4, InitialInterval
<1>6. Cardinality(T) # 0
  BY <1>3, <1>5
<1> QED BY <1>1, <1>5, <1>6 DEF T

(* Fixing the stamps keeps the order of the events that are kept, and the   *)
(* stamps are below their number again (the end of cutToStamp).             *)
LEMMA RestampedProperties ==
  ASSUME NEW g, NEW kept, kept \subseteq Events(g), IsFiniteSet(Events(g)), Stamps(g)
  PROVE  /\ IsFiniteSet(kept)
         /\ Restamped(g, kept) \in [kept -> Nat]
         /\ \A e \in kept : Restamped(g, kept)[e] < Cardinality(kept)
         /\ \A d, e \in kept : Restamped(g, kept)[d] < Restamped(g, kept)[e] <=> Stamp(g, d) < Stamp(g, e)
<1> DEFINE key == [e \in kept |-> Stamp(g, e)]
           s == Restamped(g, kept)
<1>1. IsFiniteSet(kept)
  BY FS_Subset
<1>2. key \in [kept -> Nat] /\ \A e \in kept : key[e] = Stamp(g, e)
  BY DEF Stamps, Stamp
<1>3. CASE kept = Events(g)
  <2>1. s = g.stamp
    BY <1>3 DEF Restamped
  <2> QED BY <1>1, <1>3, <2>1 DEF Stamps, Stamp
<1>4. CASE kept # Events(g)
  <2>1. \A e \in kept : s[e] = Rank(kept, key, e)
    <3>1. TAKE e \in kept
    <3>2. s[e] = Cardinality({d \in kept : Stamp(g, d) < Stamp(g, e)})
      BY <1>4 DEF Restamped
    <3>3. {d \in kept : Stamp(g, d) < Stamp(g, e)} = {d \in kept : key[d] < key[e]}
      BY <1>2
    <3> QED BY <3>2, <3>3 DEF Rank
  <2>2. DOMAIN s = kept /\ s = [e \in kept |-> s[e]]
    BY <1>4 DEF Restamped
  <2> HIDE DEF key, s
  <2>3. /\ \A e \in kept : Rank(kept, key, e) \in Nat /\ Rank(kept, key, e) < Cardinality(kept)
        /\ \A d, e \in kept : key[d] <= key[e] => Rank(kept, key, d) <= Rank(kept, key, e)
        /\ \A d, e \in kept : key[d] < key[e] => Rank(kept, key, d) < Rank(kept, key, e)
    BY <1>1, <1>2, RankOrder
  <2>4. s \in [kept -> Nat] /\ \A e \in kept : s[e] < Cardinality(kept)
    <3>1. \A e \in kept : s[e] \in Nat
      BY <2>1, <2>3
    <3> QED BY <2>1, <2>2, <2>3, <3>1
  <2>5. ASSUME NEW d \in kept, NEW e \in kept
        PROVE  s[d] < s[e] <=> Stamp(g, d) < Stamp(g, e)
    <3>1. key[d] \in Nat /\ key[e] \in Nat /\ s[d] \in Nat /\ s[e] \in Nat
      BY <1>2, <2>4
    <3>2. s[d] < s[e] <=> key[d] < key[e]
      BY <2>1, <2>3, <3>1
    <3> QED BY <1>2, <3>2
  <2> QED BY <1>1, <2>4, <2>5 DEF s
<1> QED BY <1>3, <1>4

(* NewestFirst lists elements of its set (the sort in                       *)
(* getRevisitableApproximation).                                            *)
LEMMA NewestFirstIsSeq ==
  ASSUME NEW g, NEW S, S \subseteq Events(g), IsFiniteSet(Events(g)), Stamps(g)
  PROVE  NewestFirst(g, S) \in Seq(S)
<1> DEFINE N == Cardinality(Events(g))
           key == [e \in S |-> N - Stamp(g, e)]
           n == Cardinality(S)
           at(k) == CHOOSE e \in S : Cardinality({d \in S : Stamp(g, d) > Stamp(g, e)}) = k - 1
<1>1. IsFiniteSet(S) /\ n \in Nat /\ N \in Nat
  <2>1. IsFiniteSet(S)
    BY FS_Subset
  <2> QED BY <2>1, FS_CardinalityType
<1>2. \A e \in S : Stamp(g, e) \in Nat /\ Stamp(g, e) < N
  BY DEF Stamps, Stamp
<1>3. key \in [S -> Nat] /\ \A d, e \in S : key[d] = key[e] => d = e
  <2> HIDE DEF N
  <2>1. \A e \in S : N - Stamp(g, e) \in Nat
    BY <1>1, <1>2
  <2>2. \A d, e \in S : N - Stamp(g, d) = N - Stamp(g, e) => Stamp(g, d) = Stamp(g, e)
    BY <1>1, <1>2
  <2>3. \A d, e \in S : Stamp(g, d) = Stamp(g, e) => d = e
    BY DEF Stamps
  <2> QED BY <2>1, <2>2, <2>3
<1>4. ASSUME NEW e \in S
      PROVE  Rank(S, key, e) = Cardinality({d \in S : Stamp(g, d) > Stamp(g, e)})
  <2>1. {d \in S : key[d] < key[e]} = {d \in S : Stamp(g, d) > Stamp(g, e)}
    <3> HIDE DEF N
    <3>1. \A d \in S : (N - Stamp(g, d) < N - Stamp(g, e)) <=> Stamp(g, d) > Stamp(g, e)
      BY <1>1, <1>2
    <3> QED BY <3>1
  <2> QED BY <2>1 DEF Rank
<1>5. ASSUME NEW k \in 1 .. n PROVE at(k) \in S
  <2> HIDE DEF key
  <2>1. \E e \in S : Rank(S, key, e) = k - 1
    BY <1>1, <1>3, RankOnto
  <2>2. \E e \in S : Cardinality({d \in S : Stamp(g, d) > Stamp(g, e)}) = k - 1
    BY <1>4, <2>1
  <2> QED BY <2>2
<1>6. NewestFirst(g, S) = [k \in 1 .. n |-> at(k)]
  BY DEF NewestFirst
<1> HIDE DEF at, n
<1> QED BY <1>1, <1>5, <1>6

(***************************** Adding a label ******************************)

(* h is g with the label l at a new position. *)
Added(g, h, l) ==
    /\ l.pos \notin Events(g)
    /\ DOMAIN h = DOMAIN g
    /\ Events(h) = Events(g) \cup {l.pos}
    /\ \A e \in Events(g) : h.lab[e] = g.lab[e] /\ Stamp(h, e) = Stamp(g, e)
    /\ h.lab[l.pos] = l /\ Stamp(h, l.pos) = Cardinality(Events(g))
    /\ h.stamp \in [Events(h) -> Nat]
    /\ h.co = g.co

(* add() puts a label at a new position and gives it the next stamp. *)
LEMMA AddAdds ==
  ASSUME NEW g, Shape(g), Stamps(g), NEW l, l.pos \notin Events(g)
  PROVE  Added(g, add(g, l), l)
<1> DEFINE h == add(g, l)
           stamps == [e \in Events(g) \cup {l.pos} |->
                        IF e = l.pos THEN Cardinality(Events(g)) ELSE g.stamp[e]]
<1>1. Events(g) \ {l.pos} = Events(g)
  OBVIOUS
<1>2. Restamped(g, Events(g)) = g.stamp
  BY DEF Restamped
<1>3. h = [g EXCEPT !.stamp = stamps, !.lab = WithLabel(g, l)]
  BY <1>1, <1>2 DEF add
<1>4. /\ DOMAIN h = DOMAIN g
      /\ h.stamp = stamps
      /\ h.lab = WithLabel(g, l)
      /\ h.co = g.co
  BY <1>3 DEF Shape
<1>5. Cardinality(Events(g)) \in Nat
  BY FS_CardinalityType DEF Shape
<1>6. /\ Events(h) = Events(g) \cup {l.pos}
      /\ h.lab[l.pos] = l
      /\ \A e \in Events(g) : h.lab[e] = g.lab[e]
  BY <1>4 DEF Events, WithLabel
<1>7. /\ h.stamp \in [Events(h) -> Nat]
      /\ Stamp(h, l.pos) = Cardinality(Events(g))
      /\ \A e \in Events(g) : Stamp(h, e) = Stamp(g, e)
  <2>1. g.stamp \in [Events(g) -> Nat]
    BY DEF Stamps
  <2> HIDE DEF h
  <2> QED BY <1>4, <1>5, <1>6, <2>1 DEF Stamp
<1> HIDE DEF h
<1> QED BY <1>4, <1>6, <1>7 DEF Added, h

(* The fields of a label. *)
LEMMA LabelFieldsAre ==
  LabelFields = {"pos", "typ", "ip", "ins", "val", "deps", "rf", "createId",
                 "addedMax", "revisitable", "wwRacy", "views", "prefix"}
BY DEF LabelFields, NewLabel

(* So does addLabelToGraph(), which then computes the label's views and its *)
(* prefix.                                                                  *)
LEMMA AddLabelAdds ==
  ASSUME NEW g, Shape(g), Stamps(g), NEW l, DOMAIN l = LabelFields, l.pos \notin Events(g)
  PROVE  Added(g, addLabelToGraph(g, l),
               [l EXCEPT !.views = CalculateViews(add(g, l), l.pos),
                         !.prefix = CalculatePrefixView(add(g, l), l.pos)])
<1> DEFINE a == add(g, l)
           V == CalculateViews(a, l.pos)
           P == CalculatePrefixView(a, l.pos)
           m == [l EXCEPT !.views = V, !.prefix = P]
           h == addLabelToGraph(g, l)
<1>1. Added(g, a, l)
  BY AddAdds
<1>2. h = [a EXCEPT !.lab[l.pos].views = V, !.lab[l.pos].prefix = P]
  BY DEF addLabelToGraph, updateLabelViews
<1> HIDE DEF a
<1>3. DOMAIN a = {"stamp", "lab", "co", "lin"} /\ l.pos \in DOMAIN a.lab /\ a.lab[l.pos] = l
  BY <1>1 DEF Added, Shape, Events
<1>4. h.lab = [a.lab EXCEPT ![l.pos] = m]
  <2> HIDE DEF V, P
  <2> QED BY <1>2, <1>3
<1>5. DOMAIN h = DOMAIN a /\ h.stamp = a.stamp /\ h.co = a.co
  BY <1>2, <1>3
<1>6. m.pos = l.pos
  BY LabelFieldsAre
<1> HIDE DEF m, h
<1>7. Events(h) = Events(a) /\ h.lab[l.pos] = m /\ \A e \in Events(g) : h.lab[e] = a.lab[e]
  BY <1>1, <1>3, <1>4 DEF Events, Added
<1>8. Added(g, h, m)
  BY <1>1, <1>5, <1>6, <1>7 DEF Added, Stamp
<1> QED BY <1>8 DEF h, m, V, P, a

(* A label may go to the end of a thread that is not blocked and has not    *)
(* finished, or start the next thread.                                      *)
Extends(p, g, l) ==
    LET t == l.pos[1]
        i == l.pos[2]
        before == <<t, i - 1>>
    IN /\ l.pos = <<t, i>> /\ t \in Nat /\ i \in Nat \ {0}
       /\ before \in Events(g) /\ IsLast(g, before)
       /\ g.lab[before].typ \notin {"B", "TF"}
       /\ l.typ \in EventTypes \ {"INIT", "TS"}
       /\ Ipr /\ g.lab[before].typ = "R" /\ g.lab[before].rf # Bottom /\ ReadBlocks(g, before) => l.typ = "B"
(* l begins a new thread, which main has created last. *)
Starts(p, g, l) ==
    LET t == l.pos[1]
    IN /\ l.pos = <<t, 0>> /\ t \in Nat \ {0}
       /\ <<t - 1, 0>> \in Events(g)
       /\ \A e \in Events(g) : e[1] < t
       /\ l.typ = "TS" /\ l.val \in 1 .. Len(p) - 1
       /\ l.createId \in Events(g) /\ l.createId[1] = 0 /\ g.lab[l.createId].typ = "TC"
       /\ \A u \in ThreadIds(g) \ {0} : CreateId(g, u)[2] < l.createId[2]
(* What holds of a label before it is added: no store yet, and a load's     *)
(* label comes from the program.                                            *)
LabelOK(p, g, l) ==
    /\ DOMAIN l = LabelFields
    /\ l.rf = Bottom
    /\ l.ip \in Nat
    /\ l.typ \in {"R", "W"} => l.ins.loc \in Locs
    /\ l.typ = "R" => /\ l.ip \in DOMAIN CodeOf(p, g, l.pos[1])
                      /\ l.ins = CodeOf(p, g, l.pos[1])[l.ip]
                      /\ l.ins.op \in LoadOps

(* Adding a label: stamps and program order agree, blocks and finishes stay *)
(* last in their threads.                                                   *)
LEMMA AddedBasics ==
  ASSUME NEW p, NEW g, NEW h, NEW l, NEW X, GraphOK(p, g, X), Added(g, h, l), LabelOK(p, g, l),
         Extends(p, g, l) \/ Starts(p, g, l)
  PROVE  Shape(h) /\ Stamps(h) /\ PoOrder(h) /\ Kinds(h)
<1> USE DEF Added
<1>1. l.pos \in Nat \X Nat /\ l.pos = <<l.pos[1], l.pos[2]>>
  BY DEF Extends, Starts
<1>2. IsFiniteSet(Events(h)) /\ Cardinality(Events(h)) = Cardinality(Events(g)) + 1 /\ Cardinality(Events(g)) \in Nat
  <2>1. IsFiniteSet(Events(g)) /\ l.pos \notin Events(g) /\ Events(h) = Events(g) \cup {l.pos}
    BY DEF GraphOK, Shape
  <2>2. Cardinality(Events(g)) \in Nat
    BY <2>1, FS_CardinalityType
  <2> QED BY <2>1, <2>2, FS_AddElement
<1>3. Shape(h)
  <2>1. Shape(g)
    BY DEF GraphOK
  <2> QED BY <1>1, <1>2, <2>1 DEF Shape, LabelOK
<1>4. Stamps(h)
  <2>1. \A e \in Events(g) : Stamp(g, e) \in Nat /\ Stamp(g, e) < Cardinality(Events(g))
    BY DEF GraphOK, Stamps, Stamp
  <2>2. \A d, e \in Events(g) : Stamp(g, d) = Stamp(g, e) => d = e
    BY DEF GraphOK, Stamps
  <2>3. \A e \in Events(h) : Stamp(h, e) < Cardinality(Events(h))
    BY <1>2, <2>1
  <2>4. \A d, e \in Events(h) : Stamp(h, d) = Stamp(h, e) => d = e
    <3>1. \A e \in Events(g) : Stamp(h, e) # Stamp(h, l.pos)
      BY <1>2, <2>1
    <3> QED BY <2>2, <3>1
  <2> QED BY <2>3, <2>4 DEF Stamps
<1>5. ASSUME NEW e \in Events(h), NEW i \in 0 .. e[2] - 1
      PROVE  <<e[1], i>> \in Events(h) /\ Stamp(h, <<e[1], i>>) < Stamp(h, e)
  <2>1. CASE e \in Events(g)
    <3>1. <<e[1], i>> \in Events(g) /\ Stamp(g, <<e[1], i>>) < Stamp(g, e)
      BY <2>1 DEF GraphOK, PoOrder
    <3> QED BY <2>1, <3>1
  <2>2. CASE e = l.pos
    <3>1. Extends(p, g, l) /\ e[2] \in Nat \ {0}
      BY <2>2, <1>1 DEF Starts, Extends
    <3> DEFINE b == <<e[1], e[2] - 1>>
    <3>2. b \in Events(g)
      BY <2>2, <3>1 DEF Extends
    <3>3. <<e[1], i>> \in Events(g)
      <4>1. CASE i = e[2] - 1
        BY <3>2, <4>1
      <4>2. CASE i # e[2] - 1
        <5>1. i \in 0 .. b[2] - 1 /\ b[1] = e[1]
          BY <3>1, <4>2
        <5> QED BY <3>2, <5>1 DEF GraphOK, PoOrder
      <4> QED BY <4>1, <4>2
    <3>4. Stamp(g, <<e[1], i>>) < Cardinality(Events(g))
      BY <3>3 DEF GraphOK, Stamps
    <3> QED BY <2>2, <3>3, <3>4
  <2> QED BY <2>1, <2>2
<1>6. Kinds(h)
  <2>1. ASSUME NEW e \in Events(g), g.lab[e].typ \in {"B", "TF"} PROVE IsLast(h, e)
    <3>1. IsLast(g, e)
      BY <2>1 DEF GraphOK, Kinds
    <3>2. l.pos[1] # e[1]
      <4>1. CASE Extends(p, g, l)
        <5> DEFINE b == <<l.pos[1], l.pos[2] - 1>>
        <5>1. b \in Events(g) /\ IsLast(g, b) /\ b # e /\ e \in Nat \X Nat
          BY <2>1, <4>1 DEF Extends, GraphOK, Shape
        <5>2. b[1] = e[1] => b[2] = e[2]
          BY <3>1, <5>1, <1>1 DEF IsLast
        <5> QED BY <5>1, <5>2
      <4>2. CASE Starts(p, g, l)
        BY <4>2 DEF Starts, GraphOK, Shape
      <4> QED BY <4>1, <4>2
    <3> QED BY <3>1, <3>2 DEF IsLast
  <2>2. ASSUME l.typ \in {"B", "TF"} PROVE IsLast(h, l.pos)
    <3>1. Extends(p, g, l)
      BY <2>2 DEF Starts
    <3>2. \A d \in Events(g) : d[1] = l.pos[1] => d[2] <= l.pos[2] - 1 /\ d[2] \in Nat
      BY <3>1 DEF Extends, IsLast, GraphOK, Shape
    <3>3. \A d \in Events(g) : d[1] = l.pos[1] => d[2] <= l.pos[2]
      BY <1>1, <3>2
    <3>4. l.pos[2] <= l.pos[2]
      BY <1>1
    <3> QED BY <3>3, <3>4 DEF IsLast
  <2>3. ASSUME NEW e \in Events(g)
        PROVE  /\ h.lab[e].typ \in EventTypes
               /\ h.lab[e].typ = "INIT" <=> e = InitEvent
               /\ e[2] = 0 <=> h.lab[e].typ \in {"INIT", "TS"}
    BY DEF GraphOK, Kinds
  <2>4. /\ l.typ \in EventTypes
        /\ l.typ = "INIT" <=> l.pos = InitEvent
        /\ l.pos[2] = 0 <=> l.typ \in {"INIT", "TS"}
    <3>1. l.pos # InitEvent
      BY DEF GraphOK, Shape
    <3>2. CASE Extends(p, g, l)
      BY <3>1, <3>2 DEF Extends
    <3>3. CASE Starts(p, g, l)
      BY <3>1, <3>3 DEF Starts, EventTypes
    <3> QED BY <3>2, <3>3
  <2> QED BY <2>1, <2>2, <2>3, <2>4 DEF Kinds
<1> QED BY <1>3, <1>4, <1>5, <1>6 DEF PoOrder

(* Adding a label: thread ids have no gaps, and every thread has its        *)
(* creation.                                                                *)
LEMMA AddedThreads ==
  ASSUME NEW p, NEW g, NEW h, NEW l, NEW X, GraphOK(p, g, X), Added(g, h, l), LabelOK(p, g, l),
         Extends(p, g, l) \/ Starts(p, g, l)
  PROVE  Threads(p, h) /\ Texts(p, h)
<1> USE DEF Added
<1>1. Shape(h)
  BY AddedBasics
<1>2. \A t : <<t, 0>> \in Events(g) => h.lab[<<t, 0>>] = g.lab[<<t, 0>>] /\ CreateId(h, t) = CreateId(g, t)
  BY DEF CreateId
<1>3. \A e \in Events(g) : e[1] \in Nat /\ \A t \in 0 .. e[1] : <<t, 0>> \in Events(g)
  BY DEF GraphOK, Threads, Shape
<1>4. \A e \in Events(h) : \A t \in 0 .. e[1] : <<t, 0>> \in Events(h)
  <2>1. \A t \in 0 .. l.pos[1] : <<t, 0>> \in Events(h)
    <3>1. CASE Extends(p, g, l)
      <4> DEFINE b == <<l.pos[1], l.pos[2] - 1>>
      <4>1. b \in Events(g) /\ b[1] = l.pos[1]
        BY <3>1 DEF Extends
      <4> QED BY <1>3, <4>1
    <3>2. CASE Starts(p, g, l)
      <4> DEFINE b == <<l.pos[1] - 1, 0>>
      <4>1. b \in Events(g) /\ b[1] = l.pos[1] - 1 /\ l.pos = <<l.pos[1], 0>> /\ l.pos[1] \in Nat
        BY <3>2 DEF Starts
      <4>2. \A t \in 0 .. l.pos[1] - 1 : <<t, 0>> \in Events(h)
        BY <1>3, <4>1
      <4>3. ASSUME NEW t \in 0 .. l.pos[1] PROVE <<t, 0>> \in Events(h)
        <5>1. t \in 0 .. l.pos[1] - 1 \/ t = l.pos[1]
          BY <4>1
        <5> QED BY <4>1, <4>2, <5>1
      <4> QED BY <4>3
    <3> QED BY <3>1, <3>2
  <2> QED BY <1>3, <2>1
<1>5. \A t : t \in ThreadIds(h) <=> t \in ThreadIds(g) \/ (t = l.pos[1] /\ Starts(p, g, l))
  <2>1. \A t : t \in ThreadIds(h) <=> \E d \in Events(h) : d[2] = 0 /\ t = d[1]
    BY DEF ThreadIds
  <2>2. \A t : t \in ThreadIds(g) <=> \E d \in Events(g) : d[2] = 0 /\ t = d[1]
    BY DEF ThreadIds
  <2>3. l.pos[2] = 0 <=> Starts(p, g, l)
    BY DEF Starts, Extends
  <2> QED BY <2>1, <2>2, <2>3
<1>6. \A t \in ThreadIds(g) : <<t, 0>> \in Events(g) /\ t \in Nat
  <2>1. \A d \in Events(g) : d[2] = 0 => d = <<d[1], 0>> /\ d[1] \in Nat
    BY DEF GraphOK, Shape
  <2> QED BY <2>1 DEF ThreadIds
<1>7. ASSUME NEW t \in ThreadIds(h) \ {0}
      PROVE  /\ CreateId(h, t) \in Events(h) /\ CreateId(h, t)[1] = 0
             /\ h.lab[CreateId(h, t)].typ = "TC"
             /\ Stamp(h, CreateId(h, t)) < Stamp(h, <<t, 0>>)
             /\ h.lab[<<t, 0>>].val \in 1 .. Len(p) - 1
  <2>1. CASE t \in ThreadIds(g)
    <3>1. /\ CreateId(g, t) \in Events(g) /\ CreateId(g, t)[1] = 0
          /\ g.lab[CreateId(g, t)].typ = "TC"
          /\ Stamp(g, CreateId(g, t)) < Stamp(g, <<t, 0>>)
          /\ g.lab[<<t, 0>>].val \in 1 .. Len(p) - 1
      BY <2>1 DEF GraphOK, Threads
    <3>2. <<t, 0>> \in Events(g)
      BY <1>6, <2>1
    <3> QED BY <1>2, <3>1, <3>2
  <2>2. CASE t = l.pos[1] /\ Starts(p, g, l)
    <3>1. l.pos = <<t, 0>> /\ CreateId(h, t) = l.createId
      BY <2>2 DEF Starts, CreateId
    <3>2. l.createId \in Events(g) => Stamp(g, l.createId) < Cardinality(Events(g))
      BY DEF GraphOK, Stamps
    <3> QED BY <2>2, <3>1, <3>2 DEF Starts
  <2> QED BY <1>5, <2>1, <2>2
<1>8. ASSUME NEW t \in ThreadIds(h) \ {0}, NEW u \in ThreadIds(h) \ {0}, t < u
      PROVE  CreateId(h, t)[2] < CreateId(h, u)[2]
  <2>1. CASE t \in ThreadIds(g) /\ u \in ThreadIds(g)
    BY <1>2, <1>6, <1>8, <2>1 DEF GraphOK, Threads
  <2>2. CASE t \in ThreadIds(g) /\ u = l.pos[1] /\ Starts(p, g, l)
    <3>1. l.pos = <<u, 0>> /\ CreateId(h, u) = l.createId
      BY <2>2 DEF Starts, CreateId
    <3> QED BY <1>2, <1>6, <2>2, <3>1 DEF Starts
  <2>3. CASE t = l.pos[1] /\ Starts(p, g, l) /\ u \in ThreadIds(g)
    <3>1. <<u, 0>> \in Events(g) /\ u < t
      BY <1>6, <2>3 DEF Starts
    <3> QED BY <1>6, <1>8, <2>3, <3>1 DEF Starts
  <2>4. CASE t = l.pos[1] /\ u = l.pos[1] /\ Starts(p, g, l)
    BY <1>8, <2>4 DEF Starts
  <2> QED BY <1>5, <2>1, <2>2, <2>3, <2>4
<1>9. h.lab[InitEvent].val = 0 /\ h.lab[InitEvent].prefix = {}
  BY DEF GraphOK, Threads, Shape
<1>10. Threads(p, h)
  BY <1>4, <1>7, <1>8, <1>9 DEF Threads
<1>11. ASSUME NEW e \in Events(h)
       PROVE  LET k == h.lab[e]
              IN /\ k.ip \in Nat
                 /\ k.typ \in {"R", "W"} => k.ins.loc \in Locs
                 /\ k.typ = "R" => /\ k.ip \in DOMAIN CodeOf(p, h, e[1]) /\ k.ins = CodeOf(p, h, e[1])[k.ip]
                                   /\ k.ins.op \in LoadOps
  <2>1. \A t : <<t, 0>> \in Events(g) => CodeOf(p, h, t) = CodeOf(p, g, t)
    BY <1>2 DEF CodeOf
  <2>2. CASE e \in Events(g)
    <3>1. <<e[1], 0>> \in Events(g)
      BY <1>3, <2>2
    <3> QED BY <2>1, <2>2, <3>1 DEF GraphOK, Texts
  <2>3. CASE e = l.pos
    <3>1. l.typ = "R" => <<e[1], 0>> \in Events(g)
      <4>1. l.typ = "R" => Extends(p, g, l)
        BY DEF Starts
      <4> DEFINE b == <<l.pos[1], l.pos[2] - 1>>
      <4>2. Extends(p, g, l) => b \in Events(g) /\ b[1] = e[1]
        BY <2>3 DEF Extends
      <4> QED BY <1>3, <4>1, <4>2
    <3> QED BY <2>1, <2>3, <3>1 DEF LabelOK
  <2> QED BY <2>2, <2>3
<1> QED BY <1>10, <1>11 DEF Texts

(* What a read reads from is a write of the graph or the initializer. *)
LEMMA StoreIsEvent ==
  ASSUME NEW p, NEW g, NEW X, GraphOK(p, g, X), NEW e \in Events(g), g.lab[e].rf # Bottom
  PROVE  /\ g.lab[e].typ = "R"
         /\ g.lab[e].rf \in Events(g)
         /\ g.lab[e].rf = InitEvent \/ g.lab[g.lab[e].rf].typ = "W"
<1>1. g.lab[e].typ = "R" /\ g.lab[e].rf \in {InitEvent} \cup ToSet(g.co[Loc(g, e)])
  BY DEF GraphOK, ReadsFrom
<1>2. Loc(g, e) \in Locs
  BY <1>1 DEF GraphOK, Texts, Loc
<1>3. \A w \in ToSet(g.co[Loc(g, e)]) : w \in Events(g) /\ g.lab[w].typ = "W"
  BY <1>2 DEF GraphOK, CoherenceOK, ToSet
<1> QED BY <1>1, <1>3 DEF GraphOK, Shape

(* Adding a label: coherence and reads-from are as before. *)
LEMMA AddedRelations ==
  ASSUME NEW p, NEW g, NEW h, NEW l, GraphOK(p, g, {}), Added(g, h, l), LabelOK(p, g, l),
         Extends(p, g, l) \/ Starts(p, g, l)
  PROVE  CoherenceOK(h) /\ ReadsFrom(h) /\ StoreFirst(h) /\ Blocked(h)
<1> USE DEF Added
<1>1. \A e \in Events(g) : Loc(h, e) = Loc(g, e) /\ h.lab[e] = g.lab[e]
  BY DEF Loc
<1>2. CoherenceOK(h)
  <2>1. CoherenceOK(g)
    BY DEF GraphOK
  <2>2. \A k \in Locs : \A w \in ToSet(g.co[k]) : w \in Events(g)
    BY <2>1 DEF CoherenceOK, ToSet
  <2>3. g.co \in [Locs -> Seq(Events(h))]
    BY <2>1 DEF CoherenceOK
  <2>4. ASSUME NEW k \in Locs
        PROVE  /\ \A w \in ToSet(h.co[k]) : h.lab[w].typ = "W" /\ Loc(h, w) = k
               /\ \A i, j \in DOMAIN h.co[k] : h.co[k][i] = h.co[k][j] => i = j
    BY <1>1, <2>1, <2>2 DEF CoherenceOK
  <2> QED BY <2>3, <2>4 DEF CoherenceOK
<1>3. ReadsFrom(h)
  <2>1. \A e \in Events(g) : IF h.lab[e].typ = "R" THEN h.lab[e].rf \in {Bottom, InitEvent} \cup ToSet(h.co[Loc(h, e)])
                             ELSE h.lab[e].rf = Bottom
    BY <1>1 DEF GraphOK, ReadsFrom
  <2>2. h.lab[l.pos].rf = Bottom
    BY DEF LabelOK
  <2> QED BY <2>1, <2>2 DEF ReadsFrom
<1>4. \A e \in Events(g) : g.lab[e].rf # Bottom => g.lab[e].typ = "R" /\ g.lab[e].rf \in Events(g)
  BY StoreIsEvent
<1>5. ASSUME NEW r \in Reads(h), h.lab[r].rf # Bottom PROVE r \in Reads(g) /\ h.lab[r] = g.lab[r] /\ g.lab[r].rf \in Events(g)
  <2>1. r \in Events(h) /\ h.lab[r].typ = "R"
    BY DEF Reads, OfType
  <2>2. r \in Events(g)
    BY <1>5, <2>1 DEF LabelOK
  <2> QED BY <1>1, <1>4, <1>5, <2>1, <2>2 DEF Reads, OfType
<1>6. ASSUME NEW r \in Reads(h), h.lab[r].rf # Bottom, NEW e \in Events(h), e[1] = r[1], e[2] > r[2]
      PROVE  Stamp(h, h.lab[r].rf) < Stamp(h, e)
  <2>1. r \in Reads(g) /\ h.lab[r] = g.lab[r] /\ g.lab[r].rf \in Events(g)
    BY <1>5, <1>6
  <2>2. CASE e \in Events(g)
    BY <1>6, <2>1, <2>2 DEF GraphOK, StoreFirst
  <2>3. CASE e = l.pos
    <3>1. Stamp(g, g.lab[r].rf) < Cardinality(Events(g))
      BY <2>1 DEF GraphOK, Stamps
    <3> QED BY <2>1, <2>3, <3>1
  <2> QED BY <2>2, <2>3
<1>7. ASSUME Ipr, NEW r \in Reads(h), h.lab[r].rf # Bottom, ReadBlocks(h, r),
             NEW e \in Events(h), e[1] = r[1], e[2] > r[2]
      PROVE  h.lab[e].typ = "B"
  <2>1. r \in Reads(g) /\ h.lab[r] = g.lab[r] /\ g.lab[r].rf \in Events(g)
    BY <1>5, <1>7
  <2>2. ReadBlocks(g, r)
    BY <1>1, <1>7, <2>1 DEF ReadBlocks, ReadValue, ValueOf, Annotated
  <2>3. \A d \in Events(g) : d[1] = r[1] /\ d[2] > r[2] => g.lab[d].typ = "B"
    BY <1>7, <2>1, <2>2 DEF GraphOK, Blocked
  <2>4. CASE e \in Events(g)
    BY <1>1, <1>7, <2>3, <2>4
  <2>5. CASE e = l.pos
    <3>1. r \in Events(g) /\ r \in Nat \X Nat /\ r[1] = l.pos[1] /\ r[2] < l.pos[2] /\ g.lab[r].typ = "R"
      BY <1>7, <2>1, <2>5 DEF Reads, OfType, GraphOK, Shape
    <3>2. Extends(p, g, l)
      BY <3>1 DEF Starts
    <3> DEFINE b == <<l.pos[1], l.pos[2] - 1>>
    <3>3. b \in Events(g) /\ IsLast(g, b) /\ g.lab[b].typ # "B" /\ l.pos[2] \in Nat
      BY <3>2 DEF Extends
    <3>4. ~(b[1] = r[1] /\ b[2] > r[2])
      BY <2>3, <3>3
    <3>5. r = b
      <4>1. r[2] <= b[2]
        BY <3>1, <3>3 DEF IsLast
      <4>2. r[2] = b[2] /\ r[1] = b[1]
        BY <3>1, <3>3, <3>4, <4>1
      <4> QED BY <3>1, <4>2
    <3> QED BY <1>7, <2>1, <2>2, <2>5, <3>1, <3>2, <3>5 DEF Extends
  <2> QED BY <2>4, <2>5
<1> QED BY <1>2, <1>3, <1>6, <1>7 DEF StoreFirst, Blocked

(* Adding a label: the prefixes of the other events do not change. *)
LEMMA AddedKeepsPrefix ==
  ASSUME NEW p, NEW g, NEW h, NEW l, GraphOK(p, g, {}), Added(g, h, l), NEW e \in Events(g), g.lab[e].typ # "B"
  PROVE  PrefixOK(g, e) /\ PrefixOK(h, e)
<1> USE DEF Added
<1>1. \A d \in Events(g) : h.lab[d] = g.lab[d] /\ FullPrefix(h, d) = FullPrefix(g, d) /\ Stamp(h, d) = Stamp(g, d)
  BY DEF FullPrefix
<1>2. PrefixOK(g, e)
  BY DEF GraphOK, PrefixesOK
<1>3. e[1] > 0 => CreateId(h, e[1]) = CreateId(g, e[1])
  <2>1. e[1] > 0 => <<e[1], 0>> \in Events(g)
    BY DEF GraphOK, Threads, Shape
  <2> QED BY <2>1 DEF CreateId
<1>4. g.lab[e].rf # Bottom => g.lab[e].rf \in Events(g)
  BY StoreIsEvent
<1>5. FullPrefix(g, e) \subseteq Events(g)
  BY <1>2 DEF PrefixOK
<1>6. ASSUME NEW d \in FullPrefix(g, e)
      PROVE  /\ d[2] > 0 /\ h.lab[d].typ # "B"
             /\ FullPrefix(h, d) \subseteq FullPrefix(h, e)
             /\ h.lab[d].typ = "R" /\ d # e => <<d[1], d[2] + 1>> \in FullPrefix(h, e)
             /\ \/ Stamp(h, d) <= Stamp(h, e)
                \/ h.lab[e].rf \notin {Bottom, InitEvent} /\ h.lab[e].rf \in FullPrefix(h, e)
                   /\ d \in FullPrefix(h, h.lab[e].rf)
  BY <1>1, <1>2, <1>4, <1>5 DEF PrefixOK
<1>7. e[1] > 0 /\ e[2] = 0 => FullPrefix(h, e) \subseteq FullPrefix(h, CreateId(h, e[1]))
  <2>1. e[1] > 0 => CreateId(g, e[1]) \in Events(g)
    BY <1>2, <1>5 DEF PrefixOK
  <2> QED BY <1>1, <1>2, <1>3, <2>1 DEF PrefixOK
<1>8. PrefixOK(h, e)
  BY <1>1, <1>2, <1>3, <1>5, <1>6, <1>7 DEF PrefixOK
<1> QED BY <1>2, <1>8

(* Adding a label with a right prefix: all prefixes are right. *)
LEMMA AddedPrefixes ==
  ASSUME NEW p, NEW g, NEW h, NEW l, GraphOK(p, g, {}), Added(g, h, l), LabelOK(p, g, l),
         l.typ # "B" => PrefixOK(h, l.pos),
         l.typ \in {"R", "W", "TC", "TF"} => UpTo(l.pos) \subseteq l.prefix
  PROVE  PrefixesOK(h, {})
<1> USE DEF Added
<1>1. \A e \in Events(g) : h.lab[e] = g.lab[e]
  OBVIOUS
<1>2. \A e \in Events(g) : g.lab[e].typ # "B" => PrefixOK(h, e)
  BY AddedKeepsPrefix
<1>3. \A e \in Events(g) : g.lab[e].typ \in {"R", "W", "TC", "TF"} => UpTo(e) \subseteq g.lab[e].prefix
  BY DEF GraphOK, PrefixesOK
<1> QED BY <1>1, <1>2, <1>3 DEF PrefixesOK

(* Adding a label with a right prefix keeps the invariant. *)
LEMMA AddedOK ==
  ASSUME NEW p, NEW g, NEW h, NEW l, GraphOK(p, g, {}), Added(g, h, l), LabelOK(p, g, l),
         Extends(p, g, l) \/ Starts(p, g, l),
         l.typ # "B" => PrefixOK(h, l.pos),
         l.typ \in {"R", "W", "TC", "TF"} => UpTo(l.pos) \subseteq l.prefix
  PROVE  GraphOK(p, h, {})
BY AddedBasics, AddedThreads, AddedRelations, AddedPrefixes DEF GraphOK

(* The events of a thread up to one of them. *)
LEMMA UpToMember ==
  ASSUME NEW e \in Nat \X Nat, NEW c
  PROVE  c \in UpTo(e) <=> c \in Nat \X Nat /\ c[1] = e[1] /\ c[2] > 0 /\ c[2] <= e[2]
<1>1. c \in UpTo(e) <=> \E i \in 1 .. e[2] : c = <<e[1], i>>
  BY DEF UpTo
<1>2. ASSUME c \in UpTo(e) PROVE c \in Nat \X Nat /\ c[1] = e[1] /\ c[2] > 0 /\ c[2] <= e[2]
  BY <1>1, <1>2
<1>3. ASSUME c \in Nat \X Nat, c[1] = e[1], c[2] > 0, c[2] <= e[2] PROVE c \in UpTo(e)
  <2>1. c = <<e[1], c[2]>> /\ c[2] \in 1 .. e[2]
    BY <1>3
  <2> QED BY <1>1, <2>1
<1> QED BY <1>2, <1>3

(* What the prefix of e is made of: its thread, and the prefixes of D. *)
JoinOf(g, e, D) ==
    /\ FullPrefix(g, e) = UpTo(e) \cup UNION {FullPrefix(g, d) : d \in D}
    /\ \A d \in D : d \in Events(g) /\ PrefixOK(g, d) /\ (g.lab[d].typ = "R" => d = <<e[1], e[2] - 1>>)
    /\ e[2] > 0 => <<e[1], e[2] - 1>> \in D

(* A prefix that is the join of right prefixes is right                     *)
(* (calculatePrefixView).                                                   *)
LEMMA PrefixJoin ==
  ASSUME NEW g, Shape(g), PoOrder(g), Kinds(g), Stamps(g), NEW e \in Events(g), g.lab[e].typ # "B",
         NEW D, JoinOf(g, e, D),
         \A d \in D : \A c \in FullPrefix(g, d) :
             \/ Stamp(g, c) <= Stamp(g, e)
             \/ g.lab[e].rf \notin {Bottom, InitEvent} /\ g.lab[e].rf \in FullPrefix(g, e)
                /\ c \in FullPrefix(g, g.lab[e].rf),
         e[1] > 0 => CreateId(g, e[1]) \in FullPrefix(g, e),
         e[1] > 0 /\ e[2] = 0 => FullPrefix(g, e) \subseteq FullPrefix(g, CreateId(g, e[1])),
         g.lab[e].typ = "R" /\ g.lab[e].ins.mo # "na" /\ g.lab[e].rf \notin {Bottom, InitEvent}
           => g.lab[e].rf \in FullPrefix(g, e)
  PROVE  PrefixOK(g, e)
<1> DEFINE P == FullPrefix(g, e)
           b == <<e[1], e[2] - 1>>
<1>1. e \in Nat \X Nat
  BY DEF Shape
<1>2. ASSUME NEW c \in UpTo(e)
      PROVE  /\ c \in Events(g) /\ c[2] > 0 /\ g.lab[c].typ # "B"
             /\ FullPrefix(g, c) \subseteq P
             /\ g.lab[c].typ = "R" /\ c # e => <<c[1], c[2] + 1>> \in P
             /\ Stamp(g, c) <= Stamp(g, e)
  <2>1. c \in Nat \X Nat /\ c[1] = e[1] /\ c[2] > 0 /\ c[2] <= e[2]
    BY <1>1, UpToMember
  <2>2. CASE c = e
    BY <1>1, <2>1, <2>2 DEF Stamps, Stamp
  <2>3. CASE c # e
    <3>1. c = <<e[1], c[2]>> /\ c[2] \in 0 .. e[2] - 1
      BY <1>1, <2>1, <2>3
    <3>2. c \in Events(g) /\ Stamp(g, c) < Stamp(g, e)
      BY <3>1 DEF PoOrder
    <3>3. g.lab[c].typ # "B"
      <4>1. ~IsLast(g, c)
        BY <1>1, <2>1, <3>1 DEF IsLast
      <4> QED BY <3>2, <4>1 DEF Kinds
    <3>4. c \in UpTo(b) /\ b \in Nat \X Nat
      <4>1. b \in Nat \X Nat /\ c[1] = b[1] /\ c[2] <= b[2]
        BY <1>1, <2>1, <3>1
      <4> QED BY <2>1, <4>1, UpToMember
    <3>5. b \in D
      BY <1>1, <2>1 DEF JoinOf
    <3>6. FullPrefix(g, b) \subseteq P
      BY <3>5 DEF JoinOf
    <3>7. FullPrefix(g, c) \subseteq FullPrefix(g, b)
      <4>1. PrefixOK(g, b)
        BY <3>5 DEF JoinOf
      <4>2. c \in FullPrefix(g, b)
        BY <3>4 DEF FullPrefix
      <4> QED BY <4>1, <4>2 DEF PrefixOK
    <3>8. <<c[1], c[2] + 1>> \in UpTo(e)
      <4>1. <<c[1], c[2] + 1>> \in Nat \X Nat /\ c[2] + 1 > 0 /\ c[2] + 1 <= e[2]
        BY <1>1, <2>1, <3>1
      <4> QED BY <1>1, <2>1, <4>1, UpToMember
    <3>9. Stamp(g, c) \in Nat /\ Stamp(g, e) \in Nat
      BY <3>2 DEF Stamps, Stamp
    <3> QED BY <2>1, <3>2, <3>3, <3>6, <3>7, <3>8, <3>9 DEF FullPrefix
  <2> QED BY <2>2, <2>3
<1>3. ASSUME NEW d \in D, NEW c \in FullPrefix(g, d)
      PROVE  /\ c \in Events(g) /\ c[2] > 0 /\ g.lab[c].typ # "B"
             /\ FullPrefix(g, c) \subseteq P
             /\ g.lab[c].typ = "R" /\ c # e => <<c[1], c[2] + 1>> \in P
             /\ \/ Stamp(g, c) <= Stamp(g, e)
                \/ g.lab[e].rf \notin {Bottom, InitEvent} /\ g.lab[e].rf \in FullPrefix(g, e)
                   /\ c \in FullPrefix(g, g.lab[e].rf)
  <2>1. PrefixOK(g, d) /\ FullPrefix(g, d) \subseteq P
    BY DEF JoinOf
  <2>2. /\ c \in Events(g) /\ c[2] > 0 /\ g.lab[c].typ # "B"
        /\ FullPrefix(g, c) \subseteq FullPrefix(g, d)
        /\ g.lab[c].typ = "R" /\ c # d => <<c[1], c[2] + 1>> \in FullPrefix(g, d)
    BY <2>1 DEF PrefixOK
  <2>3. ASSUME g.lab[c].typ = "R", c = d PROVE <<c[1], c[2] + 1>> \in P
    <3>1. c = b /\ c \in Nat \X Nat
      BY <2>2, <2>3 DEF JoinOf, Shape
    <3>2. <<c[1], c[2] + 1>> = e /\ e[2] > 0
      <4>1. c[1] = e[1] /\ c[2] = e[2] - 1 /\ c[2] \in Nat
        BY <3>1
      <4>2. c[2] + 1 = e[2] /\ e[2] > 0
        BY <1>1, <4>1
      <4> QED BY <1>1, <4>1, <4>2
    <3>3. e \in UpTo(e)
      BY <1>1, <3>2, UpToMember
    <3> QED BY <3>2, <3>3 DEF FullPrefix
  <2> QED BY <2>1, <2>2, <2>3
<1>4. ASSUME NEW c \in P
      PROVE  /\ c \in Events(g) /\ c[2] > 0 /\ g.lab[c].typ # "B"
             /\ FullPrefix(g, c) \subseteq P
             /\ g.lab[c].typ = "R" /\ c # e => <<c[1], c[2] + 1>> \in P
             /\ \/ Stamp(g, c) <= Stamp(g, e)
                \/ g.lab[e].rf \notin {Bottom, InitEvent} /\ g.lab[e].rf \in FullPrefix(g, e)
                   /\ c \in FullPrefix(g, g.lab[e].rf)
  <2>1. c \in UpTo(e) \/ \E d \in D : c \in FullPrefix(g, d)
    BY DEF JoinOf
  <2> QED BY <1>2, <1>3, <2>1
<1> HIDE DEF P
<1>5. P \subseteq Events(g)
  BY <1>4
<1> QED BY <1>4, <1>5 DEF PrefixOK, P

(* The label that was added has the greatest stamp. *)
LEMMA AddedNewest ==
  ASSUME NEW p, NEW g, NEW h, NEW l, NEW X, GraphOK(p, g, X), Added(g, h, l), Stamps(h)
  PROVE  \A e \in Events(h) : Stamp(h, e) <= Stamp(h, l.pos) /\ Stamp(h, e) \in Nat
<1>1. \A e \in Events(g) : Stamp(g, e) < Cardinality(Events(g)) /\ Stamp(g, e) \in Nat
  BY DEF GraphOK, Stamps, Stamp
<1>2. Stamp(h, l.pos) \in Nat
  BY DEF Stamps, Stamp, Added
<1> QED BY <1>1, <1>2 DEF Added

(* addLabelToGraph() keeps the invariant: the prefix that the checker       *)
(* computes is the join of the prefixes of what comes right before the      *)
(* event.                                                                   *)
LEMMA AddLabelOK ==
  ASSUME CheckerOK, NEW p, NEW g, NEW l, GraphOK(p, g, {}), LabelOK(p, g, l), l.pos \notin Events(g),
         Extends(p, g, l) \/ Starts(p, g, l), l.typ # "B"
  PROVE  /\ GraphOK(p, addLabelToGraph(g, l), {})
         /\ Added(g, addLabelToGraph(g, l),
                  [l EXCEPT !.views = CalculateViews(add(g, l), l.pos),
                            !.prefix = CalculatePrefixView(add(g, l), l.pos)])
<1> DEFINE a == add(g, l)
           h == addLabelToGraph(g, l)
           m == [l EXCEPT !.views = CalculateViews(a, l.pos), !.prefix = CalculatePrefixView(a, l.pos)]
           e == l.pos
           b == <<e[1], e[2] - 1>>
           D == po_imm_pred(a, e) \cup rf_pred(a, e) \cup tc_pred(a, e) \cup tj_pred(a, e)
<1>1. Added(g, a, l)
  BY AddAdds DEF GraphOK
<1>2. Added(g, h, m)
  BY AddLabelAdds DEF GraphOK, LabelOK
<1>3. /\ DOMAIN m = LabelFields /\ m.prefix = PrefixOf(a, e)
      /\ m.pos = l.pos /\ m.typ = l.typ /\ m.ip = l.ip /\ m.ins = l.ins /\ m.rf = l.rf /\ m.val = l.val
      /\ m.createId = l.createId
  BY LabelFieldsAre DEF LabelOK, CheckerOK
<1> HIDE DEF a, h, m
<1>4. LabelOK(p, g, m) /\ (Extends(p, g, m) \/ Starts(p, g, m))
  BY <1>3 DEF LabelOK, Extends, Starts
<1>5. Shape(h) /\ Stamps(h) /\ PoOrder(h) /\ Kinds(h)
  BY <1>2, <1>4, AddedBasics
<1>6. e \in Events(h) /\ h.lab[e] = m /\ e \in Nat \X Nat /\ e = <<e[1], e[2]>>
  <2>1. e \in Events(h) /\ h.lab[e] = m
    BY <1>2, <1>3 DEF Added
  <2>2. e \in Nat \X Nat
    BY <1>5, <2>1 DEF Shape
  <2> QED BY <2>1, <2>2
<1>7. ASSUME NEW d \in D
      PROVE  /\ d \in Events(g) /\ g.lab[d].typ # "B"
             /\ d = b \/ g.lab[d].typ \in {"TC", "TF"}
  <2>1. CASE d \in po_imm_pred(a, e)
    <3>1. e[2] # 0 /\ d = b /\ d \in Events(a)
      BY <2>1 DEF po_imm_pred
    <3>2. Extends(p, g, l)
      BY <3>1 DEF Starts
    <3> QED BY <3>1, <3>2 DEF Extends
  <2>2. CASE d \in rf_pred(a, e)
    BY <1>1, <2>2 DEF rf_pred, Added, LabelOK
  <2>3. CASE d \in tc_pred(a, e)
    <3>1. d \in Events(a) /\ a.lab[d].typ = "TC" /\ a.lab[e].typ = "TS"
      BY <2>3 DEF tc_pred, Creator
    <3> QED BY <1>1, <3>1 DEF Added
  <2>4. CASE d \in tj_pred(a, e)
    <3>1. d \in Events(a) /\ a.lab[d].typ = "TF" /\ a.lab[e].typ = "TJ"
      BY <2>4 DEF tj_pred, Finish
    <3> QED BY <1>1, <3>1 DEF Added
  <2> QED BY <2>1, <2>2, <2>3, <2>4
<1>8. e[2] > 0 => b \in D
  <2>1. ASSUME e[2] > 0 PROVE b \in po_imm_pred(a, e)
    <3>1. Extends(p, g, l)
      BY <2>1 DEF Starts
    <3>2. b \in Events(a)
      BY <1>1, <3>1 DEF Added, Extends
    <3> QED BY <2>1, <3>2 DEF po_imm_pred
  <2> QED BY <2>1
<1>9. \A d \in D : a.lab[d] = g.lab[d] /\ h.lab[d] = g.lab[d] /\ d \in Events(h)
  BY <1>1, <1>2, <1>7 DEF Added
<1>10. FullPrefix(h, e) = UpTo(e) \cup UNION {FullPrefix(h, d) : d \in D}
  <2>1. FullPrefix(h, e) = UpTo(e) \cup UNION {g.lab[d].prefix : d \in D}
    <3>1. FullPrefix(h, e) = PrefixOf(a, e) \cup UpTo(e)
      BY <1>3, <1>6 DEF FullPrefix
    <3>2. PrefixOf(a, e) = UpTo(e) \cup UNION {a.lab[d].prefix : d \in D}
      BY DEF PrefixOf
    <3>3. {a.lab[d].prefix : d \in D} = {g.lab[d].prefix : d \in D}
      <4> HIDE DEF D
      <4> QED BY <1>9
    <3> HIDE DEF D
    <3> QED BY <3>1, <3>2, <3>3
  <2>2. ASSUME NEW d \in D
        PROVE  g.lab[d].prefix \subseteq FullPrefix(h, d) /\ FullPrefix(h, d) \subseteq g.lab[d].prefix \cup UpTo(e)
    <3>1. FullPrefix(h, d) = g.lab[d].prefix \cup UpTo(d)
      BY <1>9 DEF FullPrefix
    <3>2. CASE d = b
      <4>1. d \in Nat \X Nat
        BY <1>5, <1>9 DEF Shape
      <4>2. \A c : c \in UpTo(d) => c \in UpTo(e)
        <5>1. d[1] = e[1] /\ d[2] = e[2] - 1
          BY <3>2
        <5>2. \A i \in Nat : i <= d[2] => i <= e[2]
          BY <1>6, <4>1, <5>1
        <5> QED BY <1>6, <4>1, <5>1, <5>2, UpToMember
      <4> QED BY <3>1, <4>2
    <3>3. CASE g.lab[d].typ \in {"TC", "TF"}
      <4>1. UpTo(d) \subseteq g.lab[d].prefix
        BY <1>7, <3>3 DEF GraphOK, PrefixesOK
      <4> QED BY <3>1, <4>1
    <3> QED BY <1>7, <3>2, <3>3
  <2> HIDE DEF D
  <2> QED BY <2>1, <2>2
<1>11. JoinOf(h, e, D)
  <2>1. ASSUME NEW d \in D PROVE PrefixOK(h, d) /\ (h.lab[d].typ = "R" => d = b)
    <3>1. d \in Events(g) /\ g.lab[d].typ # "B" /\ (d = b \/ g.lab[d].typ \in {"TC", "TF"})
      BY <1>7
    <3> HIDE DEF D
    <3> QED BY <1>2, <1>9, <3>1, AddedKeepsPrefix
  <2> HIDE DEF D
  <2> QED BY <1>8, <1>9, <1>10, <2>1 DEF JoinOf
<1>12. \A c \in Events(h) : Stamp(h, c) <= Stamp(h, e)
  BY <1>2, <1>3, <1>5, AddedNewest
<1>13. e[1] > 0 => CreateId(h, e[1]) \in FullPrefix(h, e)
  <2>1. ASSUME e[1] > 0, Extends(p, g, l) PROVE CreateId(h, e[1]) \in FullPrefix(h, e)
    <3>1. b \in D /\ e[2] > 0
      BY <1>8, <2>1 DEF Extends
    <3>2. PrefixOK(h, b)
      BY <1>11, <3>1 DEF JoinOf
    <3>3. CreateId(h, b[1]) \in FullPrefix(h, b)
      BY <2>1, <3>2 DEF PrefixOK
    <3>4. FullPrefix(h, b) \subseteq FullPrefix(h, e)
      <4> HIDE DEF D
      <4> QED BY <1>10, <3>1
    <3> QED BY <3>3, <3>4
  <2>2. ASSUME Starts(p, g, l) PROVE CreateId(h, e[1]) \in FullPrefix(h, e)
    <3> DEFINE c == l.createId
    <3>1. CreateId(h, e[1]) = c /\ e = <<e[1], 0>> /\ c \in Events(g) /\ g.lab[c].typ = "TC" /\ l.typ = "TS"
      BY <1>3, <1>6, <2>2 DEF Starts, CreateId
    <3>2. c \in tc_pred(a, e)
      BY <1>1, <3>1 DEF tc_pred, Creator, Added
    <3>3. c \in D
      BY <3>2
    <3>4. c \in UpTo(c)
      <4>1. c \in Nat \X Nat /\ c[2] > 0
        <5>1. c \in Nat \X Nat /\ c[2] # 0
          BY <3>1 DEF GraphOK, Shape, Kinds
        <5> QED BY <5>1
      <4> QED BY <4>1, UpToMember
    <3>5. FullPrefix(h, c) \subseteq FullPrefix(h, e)
      <4> HIDE DEF D
      <4> QED BY <1>10, <3>3
    <3> QED BY <3>1, <3>4, <3>5 DEF FullPrefix
  <2> QED BY <2>1, <2>2
<1>14. e[1] > 0 /\ e[2] = 0 => FullPrefix(h, e) \subseteq FullPrefix(h, CreateId(h, e[1]))
  <2> SUFFICES ASSUME e[1] > 0, e[2] = 0 PROVE FullPrefix(h, e) \subseteq FullPrefix(h, CreateId(h, e[1]))
    OBVIOUS
  <2> DEFINE c == l.createId
  <2>1. Starts(p, g, l)
    BY DEF Extends
  <2>2. CreateId(h, e[1]) = c /\ l.typ = "TS"
    BY <1>3, <1>6, <2>1 DEF Starts, CreateId
  <2>3. a.lab[e] = l /\ e = <<e[1], 0>>
    BY <1>1, <2>1 DEF Added, Starts
  <2>4. \A d \in D : d = c
    BY <2>1, <2>2, <2>3 DEF po_imm_pred, rf_pred, LabelOK, tc_pred, tj_pred, Creator
  <2>5. \A d : d \notin UpTo(e)
    BY <1>6, UpToMember
  <2> HIDE DEF D
  <2> QED BY <1>10, <2>2, <2>4, <2>5
<1>15. PrefixOK(h, e)
  <2>1. h.lab[e].rf = Bottom /\ h.lab[e].typ # "B"
    BY <1>3, <1>6 DEF LabelOK
  <2>2. \A d \in D : \A c \in FullPrefix(h, d) : Stamp(h, c) <= Stamp(h, e)
    <3>1. \A d \in D : FullPrefix(h, d) \subseteq Events(h)
      BY <1>11 DEF JoinOf, PrefixOK
    <3> HIDE DEF D
    <3> QED BY <1>12, <3>1
  <2> HIDE DEF D
  <2> QED BY <1>5, <1>6, <1>11, <1>13, <1>14, <2>1, <2>2, PrefixJoin
<1>16. UpTo(e) \subseteq m.prefix
  BY <1>3 DEF PrefixOf
<1>17. GraphOK(p, h, {})
  BY <1>2, <1>3, <1>4, <1>15, <1>16, AddedOK
<1> QED BY <1>2, <1>17 DEF h, m, a

(* blockThread() keeps the invariant. A block has no prefix of its own. *)
LEMMA AddBlockOK ==
  ASSUME NEW p, NEW g, NEW l, GraphOK(p, g, {}), LabelOK(p, g, l), l.pos \notin Events(g),
         Extends(p, g, l), l.typ = "B"
  PROVE  GraphOK(p, add(g, l), {}) /\ Added(g, add(g, l), l)
<1>1. Added(g, add(g, l), l)
  BY AddAdds DEF GraphOK
<1> QED BY <1>1, AddedOK

(* The label that handleMalloc() and handleFree() add to check an           *)
(* allocation has the views of its predecessor, and keeps the invariant.    *)
LEMMA AddProbeOK ==
  ASSUME NEW p, NEW g, NEW l, NEW b, GraphOK(p, g, {}), LabelOK(p, g, l), l.pos \notin Events(g),
         Extends(p, g, l), l.typ \in {"M", "D", "RET"}, b = <<l.pos[1], l.pos[2] - 1>>
  PROVE  /\ GraphOK(p, add(g, Probe(g.lab[b], l)), {})
         /\ Added(g, add(g, Probe(g.lab[b], l)), Probe(g.lab[b], l))
<1> DEFINE m == Probe(g.lab[b], l)
           h == add(g, m)
           e == l.pos
<1>1. /\ DOMAIN m = LabelFields /\ m.prefix = g.lab[b].prefix
      /\ m.pos = l.pos /\ m.typ = l.typ /\ m.ip = l.ip /\ m.ins = l.ins /\ m.rf = l.rf /\ m.val = l.val
      /\ m.createId = l.createId
  BY LabelFieldsAre DEF LabelOK, Probe
<1> HIDE DEF m
<1>2. Added(g, h, m)
  BY <1>1, AddAdds DEF GraphOK
<1> HIDE DEF h
<1>3. LabelOK(p, g, m) /\ Extends(p, g, m)
  BY <1>1 DEF LabelOK, Extends
<1>4. Shape(h) /\ Stamps(h) /\ PoOrder(h) /\ Kinds(h)
  BY <1>2, <1>3, AddedBasics
<1>5. e \in Events(h) /\ h.lab[e] = m /\ e \in Nat \X Nat
  BY <1>1, <1>2, <1>4 DEF Added, Shape
<1>6. b \in Events(g) /\ g.lab[b].typ # "B" /\ h.lab[b] = g.lab[b] /\ b \in Nat \X Nat /\ e[2] > 0 /\ b \in Events(h)
  BY <1>2 DEF Extends, Added, GraphOK, Shape
<1>7. PrefixOK(h, b)
  BY <1>2, <1>6, AddedKeepsPrefix
<1>8. UpTo(b) \subseteq UpTo(e)
  <2>1. b[1] = e[1] /\ \A i \in Nat : i <= b[2] => i <= e[2]
    BY <1>5, <1>6
  <2> QED BY <1>5, <1>6, <2>1, UpToMember
<1>9. FullPrefix(h, e) = UpTo(e) \cup FullPrefix(h, b)
  BY <1>1, <1>5, <1>6, <1>8 DEF FullPrefix
<1>10. JoinOf(h, e, {b})
  BY <1>6, <1>7, <1>9 DEF JoinOf
<1>11. \A c \in Events(h) : Stamp(h, c) <= Stamp(h, e)
  BY <1>1, <1>2, <1>4, AddedNewest
<1>12. e[1] > 0 => CreateId(h, e[1]) \in FullPrefix(h, e)
  <2>1. b[1] = e[1]
    OBVIOUS
  <2> QED BY <1>7, <1>9, <2>1 DEF PrefixOK
<1>13. PrefixOK(h, e)
  <2>1. h.lab[e].rf = Bottom /\ h.lab[e].typ # "B"
    BY <1>1, <1>5 DEF LabelOK
  <2>2. \A d \in {b} : \A c \in FullPrefix(h, d) : Stamp(h, c) <= Stamp(h, e)
    BY <1>7, <1>11 DEF PrefixOK
  <2> QED BY <1>4, <1>5, <1>6, <1>10, <1>12, <2>1, <2>2, PrefixJoin
<1>14. GraphOK(p, h, {})
  BY <1>1, <1>2, <1>3, <1>13, AddedOK
<1> QED BY <1>2, <1>14 DEF h, m

(* h has the events of g, and only what they read from, what is known of    *)
(* them and the flags may differ.                                           *)
SameText(g, h) ==
    /\ DOMAIN h = DOMAIN g /\ Events(h) = Events(g)
    /\ h.stamp = g.stamp
    /\ \A e \in Events(g) :
          /\ DOMAIN h.lab[e] = DOMAIN g.lab[e] /\ h.lab[e].typ = g.lab[e].typ /\ h.lab[e].ip = g.lab[e].ip
          /\ h.lab[e].ins = g.lab[e].ins /\ h.lab[e].val = g.lab[e].val /\ h.lab[e].createId = g.lab[e].createId
    /\ h.lab[InitEvent].prefix = g.lab[InitEvent].prefix

(* Where only stores, views and flags change, what the graph says about its *)
(* events and threads still holds.                                          *)
LEMMA SameTextOK ==
  ASSUME NEW p, NEW g, NEW h, NEW X, GraphOK(p, g, X), SameText(g, h)
  PROVE  /\ Shape(h) /\ Stamps(h) /\ PoOrder(h) /\ Kinds(h) /\ Threads(p, h) /\ Texts(p, h)
         /\ h.co = g.co => CoherenceOK(h)
<1> USE DEF SameText
<1>1. Shape(h)
  BY DEF GraphOK, Shape
<1>2. \A e : Stamp(h, e) = Stamp(g, e)
  BY DEF Stamp
<1>3. Stamps(h) /\ PoOrder(h)
  BY <1>2 DEF GraphOK, Stamps, PoOrder
<1>4. Kinds(h)
  BY DEF GraphOK, Kinds, IsLast
<1>5. \A e \in Events(g) : <<e[1], 0>> \in Events(g)
  BY DEF GraphOK, Threads, Shape
<1>6. ThreadIds(h) = ThreadIds(g) /\ \A t \in ThreadIds(g) : <<t, 0>> \in Events(g) /\ CreateId(h, t) = CreateId(g, t)
  <2>1. ThreadIds(h) = ThreadIds(g)
    BY DEF ThreadIds
  <2>2. \A t \in ThreadIds(g) : <<t, 0>> \in Events(g)
    <3>1. \A d \in Events(g) : d[2] = 0 => d = <<d[1], 0>>
      BY DEF GraphOK, Shape
    <3> QED BY <3>1 DEF ThreadIds
  <2> QED BY <2>1, <2>2 DEF CreateId
<1>7. Threads(p, h)
  <2>1. Threads(p, g) /\ InitEvent \in Events(g)
    BY DEF GraphOK, Shape
  <2>2. \A e \in Events(h) : \A t \in 0 .. e[1] : <<t, 0>> \in Events(h)
    BY <2>1 DEF Threads
  <2>3. ASSUME NEW t \in ThreadIds(h) \ {0}
        PROVE  /\ CreateId(h, t) \in Events(h) /\ CreateId(h, t)[1] = 0
               /\ h.lab[CreateId(h, t)].typ = "TC"
               /\ Stamp(h, CreateId(h, t)) < Stamp(h, <<t, 0>>)
               /\ h.lab[<<t, 0>>].val \in 1 .. Len(p) - 1
    <3>1. /\ CreateId(g, t) \in Events(g) /\ CreateId(g, t)[1] = 0
          /\ g.lab[CreateId(g, t)].typ = "TC"
          /\ Stamp(g, CreateId(g, t)) < Stamp(g, <<t, 0>>)
          /\ g.lab[<<t, 0>>].val \in 1 .. Len(p) - 1
      BY <1>6, <2>1 DEF Threads
    <3> QED BY <1>2, <1>6, <3>1
  <2>4. ASSUME NEW t \in ThreadIds(h) \ {0}, NEW u \in ThreadIds(h) \ {0}, t < u
        PROVE  CreateId(h, t)[2] < CreateId(h, u)[2]
    BY <1>6, <2>1, <2>4 DEF Threads
  <2>5. h.lab[InitEvent].val = 0 /\ h.lab[InitEvent].prefix = {}
    BY <2>1 DEF Threads
  <2> QED BY <2>2, <2>3, <2>4, <2>5 DEF Threads
<1>8. \A e \in Events(g) : CodeOf(p, h, e[1]) = CodeOf(p, g, e[1])
  BY <1>5 DEF CodeOf
<1>9. Texts(p, h)
  <2>1. Texts(p, g)
    BY DEF GraphOK
  <2> QED BY <1>8, <2>1 DEF Texts
<1>10. ASSUME h.co = g.co PROVE CoherenceOK(h)
  <2>1. \A k \in Locs : \A w \in ToSet(g.co[k]) : w \in Events(g)
    BY DEF GraphOK, CoherenceOK, ToSet
  <2> QED BY <1>10, <2>1 DEF GraphOK, CoherenceOK, Loc
<1> QED BY <1>1, <1>3, <1>4, <1>7, <1>9, <1>10

(********************* Changes of labels and coherence *********************)

(* A join that waits still waits for the same thread. *)
LEMMA SameTextJoins ==
  ASSUME NEW g, NEW h, SameText(g, h), Joins(g)
  PROVE  Joins(h)
BY DEF SameText, Joins

(* What an event knows of depends on its prefix and its store only. *)
LEMMA SamePrefixOK ==
  ASSUME NEW p, NEW g, NEW h, NEW X, GraphOK(p, g, X), SameText(g, h), NEW e \in Events(g), PrefixOK(g, e),
         h.lab[e].rf = g.lab[e].rf,
         FullPrefix(h, e) = FullPrefix(g, e),
         \A d \in FullPrefix(g, e) : FullPrefix(h, d) = FullPrefix(g, d),
         g.lab[e].rf # Bottom => FullPrefix(h, g.lab[e].rf) = FullPrefix(g, g.lab[e].rf)
  PROVE  PrefixOK(h, e)
<1> USE DEF SameText
<1>1. \A d : Stamp(h, d) = Stamp(g, d)
  BY DEF Stamp
<1>2. e[1] > 0 => CreateId(h, e[1]) = CreateId(g, e[1])
  <2>1. e[1] > 0 => <<e[1], 0>> \in Events(g)
    BY DEF GraphOK, Threads, Shape
  <2> QED BY <2>1 DEF CreateId
<1>3. FullPrefix(g, e) \subseteq Events(g)
  BY DEF PrefixOK
<1>4. ASSUME NEW d \in FullPrefix(g, e)
      PROVE  /\ d[2] > 0 /\ h.lab[d].typ # "B"
             /\ FullPrefix(h, d) \subseteq FullPrefix(h, e)
             /\ h.lab[d].typ = "R" /\ d # e => <<d[1], d[2] + 1>> \in FullPrefix(h, e)
             /\ \/ Stamp(h, d) <= Stamp(h, e)
                \/ h.lab[e].rf \notin {Bottom, InitEvent} /\ h.lab[e].rf \in FullPrefix(h, e)
                   /\ d \in FullPrefix(h, h.lab[e].rf)
  <2>1. /\ d[2] > 0 /\ g.lab[d].typ # "B"
        /\ FullPrefix(g, d) \subseteq FullPrefix(g, e)
        /\ g.lab[d].typ = "R" /\ d # e => <<d[1], d[2] + 1>> \in FullPrefix(g, e)
        /\ \/ Stamp(g, d) <= Stamp(g, e)
           \/ g.lab[e].rf \notin {Bottom, InitEvent} /\ g.lab[e].rf \in FullPrefix(g, e)
              /\ d \in FullPrefix(g, g.lab[e].rf)
    BY DEF PrefixOK
  <2>2. d \in Events(g)
    BY <1>3
  <2> QED BY <1>1, <2>1, <2>2
<1>5. /\ e[1] > 0 => CreateId(h, e[1]) \in FullPrefix(h, e)
      /\ e[1] > 0 /\ e[2] = 0 => FullPrefix(h, e) \subseteq FullPrefix(h, CreateId(h, e[1]))
      /\ h.lab[e].typ = "R" /\ h.lab[e].ins.mo # "na" /\ h.lab[e].rf \notin {Bottom, InitEvent}
           => h.lab[e].rf \in FullPrefix(h, e)
  BY <1>2 DEF PrefixOK
<1> QED BY <1>3, <1>4, <1>5 DEF PrefixOK

(* Changing flags and views is of no consequence. *)
SameReads(g, h) ==
    /\ SameText(g, h) /\ h.co = g.co
    /\ \A e \in Events(g) : h.lab[e].rf = g.lab[e].rf /\ h.lab[e].prefix = g.lab[e].prefix

(* A read with the same store has the same value. *)
LEMMA SameValues ==
  ASSUME NEW p, NEW g, NEW h, NEW X, GraphOK(p, g, X), SameText(g, h), NEW r \in Events(g),
         h.lab[r].rf = g.lab[r].rf, g.lab[r].rf # Bottom
  PROVE  ReadBlocks(h, r) <=> ReadBlocks(g, r)
<1>1. g.lab[r].rf \in Events(g)
  BY StoreIsEvent
<1> QED BY <1>1 DEF SameText, ReadBlocks, ReadValue, ValueOf, Annotated

(* Flags and views that are not prefixes do not matter. *)
LEMMA SameReadsOK ==
  ASSUME NEW p, NEW g, NEW h, NEW X, GraphOK(p, g, X), SameReads(g, h)
  PROVE  GraphOK(p, h, X)
<1> USE DEF SameReads
<1>1. Shape(h) /\ Stamps(h) /\ PoOrder(h) /\ Kinds(h) /\ Threads(p, h) /\ Texts(p, h) /\ CoherenceOK(h)
  BY SameTextOK
<1>2. \A e \in Events(g) : Loc(h, e) = Loc(g, e) /\ h.lab[e].typ = g.lab[e].typ /\ FullPrefix(h, e) = FullPrefix(g, e)
  BY DEF Loc, SameText, FullPrefix
<1>3. Events(h) = Events(g) /\ Reads(h) = Reads(g) /\ \A e : Stamp(h, e) = Stamp(g, e)
  BY <1>2 DEF Reads, OfType, SameText, Stamp
<1>4. ReadsFrom(h)
  BY <1>2, <1>3 DEF ReadsFrom, GraphOK
<1>5. Reads(g) \subseteq Events(g)
  BY DEF Reads, OfType
<1>6. StoreFirst(h)
  BY <1>3, <1>5 DEF StoreFirst, GraphOK
<1>7. Blocked(h)
  <2>1. \A r \in Reads(g) : h.lab[r].rf # Bottom => (ReadBlocks(h, r) <=> ReadBlocks(g, r))
    BY <1>5, SameValues
  <2> QED BY <1>2, <1>3, <1>5, <2>1 DEF Blocked, GraphOK
<1>8. \A e \in Events(g) \ X : g.lab[e].typ # "B" => PrefixOK(h, e)
  <2> SUFFICES ASSUME NEW e \in Events(g) \ X, g.lab[e].typ # "B" PROVE PrefixOK(h, e)
    OBVIOUS
  <2>1. PrefixOK(g, e)
    BY DEF GraphOK, PrefixesOK
  <2>2. \A d \in FullPrefix(g, e) : FullPrefix(h, d) = FullPrefix(g, d)
    BY <1>2, <2>1 DEF PrefixOK
  <2>3. g.lab[e].rf # Bottom => g.lab[e].rf \in Events(g)
    BY StoreIsEvent
  <2> QED BY <1>2, <2>1, <2>2, <2>3, SamePrefixOK
<1>9. PrefixesOK(h, X)
  BY <1>2, <1>3, <1>8 DEF PrefixesOK, GraphOK
<1> QED BY <1>1, <1>4, <1>6, <1>7, <1>9 DEF GraphOK

(* Some reads, the last events of their threads, read from other stores. *)
Reread(g, h, rf) ==
    /\ SameText(g, h) /\ h.co = g.co
    /\ \A e \in Events(g) \ DOMAIN rf : h.lab[e].rf = g.lab[e].rf /\ h.lab[e].prefix = g.lab[e].prefix
    /\ \A r \in DOMAIN rf :
          /\ h.lab[r].rf = rf[r]
          /\ h.lab[r].prefix = UpTo(r) \cup g.lab[<<r[1], r[2] - 1>>].prefix \cup g.lab[rf[r]].prefix
(* rf gives last reads of threads a store of their location. *)
LastReads(g, rf) ==
    \A r \in DOMAIN rf : r \in Reads(g) /\ IsLast(g, r) /\ rf[r] \in StoresOf(g, r)

(* The stores of a location are its writes and the initializer. *)
LEMMA StoresAre ==
  ASSUME NEW p, NEW g, NEW X, GraphOK(p, g, X), NEW r \in Events(g), g.lab[r].typ \in {"R", "W"},
         NEW w \in StoresOf(g, r)
  PROVE  /\ w \in Events(g) /\ w \in Nat \X Nat /\ w # Bottom
         /\ w = InitEvent \/ (g.lab[w].typ = "W" /\ w[2] > 0 /\ w \in UpTo(w))
         /\ g.lab[w].typ \in {"INIT", "W"}
         /\ g.lab[w].rf = Bottom
<1>1. Loc(g, r) \in Locs
  BY DEF GraphOK, Texts, Loc
<1>2. \A v \in ToSet(g.co[Loc(g, r)]) : v \in Events(g) /\ g.lab[v].typ = "W"
  BY <1>1 DEF GraphOK, CoherenceOK, ToSet
<1>3. w \in Events(g) /\ (w = InitEvent \/ g.lab[w].typ = "W")
  BY <1>2 DEF StoresOf, GraphOK, Shape
<1>4. w \in Nat \X Nat
  BY <1>3 DEF GraphOK, Shape
<1>5. w # Bottom
  <2>1. PICK a \in Nat, b \in Nat : w = <<a, b>>
    BY <1>4
  <2>2. Len(<<a, b>>) = 2 /\ Len(<<>>) = 0
    OBVIOUS
  <2> QED BY <2>1, <2>2 DEF Bottom
<1>6. g.lab[w].typ = "W" => w[2] > 0
  <2>1. g.lab[w].typ = "W" => w[2] # 0
    BY <1>3 DEF GraphOK, Kinds
  <2> QED BY <1>4, <2>1
<1>7. w[2] > 0 => w \in UpTo(w)
  BY <1>4, UpToMember
<1>8. g.lab[w].typ \in {"INIT", "W"}
  BY <1>3 DEF GraphOK, Kinds
<1>9. g.lab[w].rf = Bottom
  BY <1>3, <1>8 DEF GraphOK, ReadsFrom
<1> QED BY <1>3, <1>4, <1>5, <1>6, <1>7, <1>8, <1>9

(* Last reads may get other stores: nothing but their own prefix depends on *)
(* what they read.                                                          *)
LEMMA RereadOK ==
  ASSUME NEW p, NEW g, NEW h, NEW rf, GraphOK(p, g, DOMAIN rf), LastReads(g, rf), Reread(g, h, rf)
  PROVE  GraphOK(p, h, {})
<1> DEFINE X == DOMAIN rf
<1>1. SameText(g, h) /\ h.co = g.co
  BY DEF Reread
<1>2. Shape(h) /\ Stamps(h) /\ PoOrder(h) /\ Kinds(h) /\ Threads(p, h) /\ Texts(p, h) /\ CoherenceOK(h)
  BY <1>1, SameTextOK
<1>3. \A e \in Events(g) : Loc(h, e) = Loc(g, e) /\ h.lab[e].typ = g.lab[e].typ /\ h.lab[e].ins = g.lab[e].ins
  BY <1>1 DEF Loc, SameText
<1>4. Events(h) = Events(g) /\ Reads(h) = Reads(g) /\ \A e : Stamp(h, e) = Stamp(g, e)
  BY <1>1, <1>3 DEF Reads, OfType, SameText, Stamp
<1>5. \A e \in Events(g) \ X : h.lab[e].rf = g.lab[e].rf /\ FullPrefix(h, e) = FullPrefix(g, e)
  BY DEF Reread, FullPrefix
<1>6. ASSUME NEW r \in X
      PROVE  /\ r \in Events(g) /\ g.lab[r].typ = "R" /\ IsLast(g, r) /\ h.lab[r].rf = rf[r]
             /\ rf[r] \in StoresOf(g, r)
  BY DEF LastReads, Reads, OfType, Reread
<1>7. ReadsFrom(h)
  <2>1. \A e \in Events(g) \ X :
            IF h.lab[e].typ = "R" THEN h.lab[e].rf \in {Bottom, InitEvent} \cup ToSet(h.co[Loc(h, e)])
            ELSE h.lab[e].rf = Bottom
    BY <1>1, <1>3, <1>5 DEF GraphOK, ReadsFrom
  <2>2. \A r \in X : h.lab[r].typ = "R" /\ h.lab[r].rf \in {Bottom, InitEvent} \cup ToSet(h.co[Loc(h, r)])
    BY <1>1, <1>3, <1>6 DEF StoresOf
  <2> QED BY <1>4, <2>1, <2>2 DEF ReadsFrom
<1>8. \A r \in X : \A e \in Events(g) : ~(e[1] = r[1] /\ e[2] > r[2])
  <2>1. \A r \in X : \A e \in Events(g) : e[1] = r[1] => e[2] <= r[2]
    BY <1>6 DEF IsLast
  <2>2. \A e \in Events(g) : e[2] \in Nat
    BY DEF GraphOK, Shape
  <2> QED BY <1>6, <2>1, <2>2
<1>9. StoreFirst(h)
  <2>1. ASSUME NEW r \in Reads(h), h.lab[r].rf # Bottom, NEW e \in Events(h), e[1] = r[1], e[2] > r[2]
        PROVE  Stamp(h, h.lab[r].rf) < Stamp(h, e)
    <3>1. r \in Reads(g) /\ r \in Events(g) /\ r \notin X
      BY <1>4, <1>8, <2>1 DEF Reads, OfType
    <3> QED BY <1>4, <1>5, <2>1, <3>1 DEF GraphOK, StoreFirst
  <2> QED BY <2>1 DEF StoreFirst
<1>10. Blocked(h)
  <2>1. ASSUME Ipr, NEW r \in Reads(h), h.lab[r].rf # Bottom, ReadBlocks(h, r),
               NEW e \in Events(h), e[1] = r[1], e[2] > r[2]
        PROVE  h.lab[e].typ = "B"
    <3>1. r \in Reads(g) /\ r \in Events(g) /\ r \notin X
      BY <1>4, <1>8, <2>1 DEF Reads, OfType
    <3>2. ReadBlocks(g, r)
      BY <1>1, <1>5, <2>1, <3>1, SameValues
    <3> QED BY <1>3, <1>4, <1>5, <2>1, <3>1, <3>2 DEF GraphOK, Blocked
  <2> QED BY <2>1 DEF Blocked
<1>11. ASSUME NEW e \in Events(g), g.lab[e].rf # Bottom
       PROVE  g.lab[e].rf \in Events(g) \ X
  BY <1>6, <1>11, StoreIsEvent DEF GraphOK, Kinds
<1>12. ASSUME NEW e \in Events(g) \ X, g.lab[e].typ # "B"
       PROVE  PrefixOK(g, e) /\ PrefixOK(h, e)
  <2>1. PrefixOK(g, e)
    BY <1>12 DEF GraphOK, PrefixesOK
  <2>2. ASSUME NEW d \in FullPrefix(g, e) PROVE d \in Events(g) \ X
    <3>1. d \in Events(g) /\ FullPrefix(g, e) \subseteq Events(g)
      BY <2>1 DEF PrefixOK
    <3>2. ASSUME d \in X PROVE FALSE
      <4>1. g.lab[d].typ = "R" /\ d # e
        BY <1>6, <3>2
      <4> DEFINE n == <<d[1], d[2] + 1>>
      <4>2. n \in Events(g)
        BY <2>1, <3>1, <4>1 DEF PrefixOK
      <4>3. n[1] = d[1] /\ n[2] > d[2]
        BY <3>1 DEF GraphOK, Shape
      <4> QED BY <1>8, <3>2, <4>2, <4>3
    <3> QED BY <3>1, <3>2
  <2> QED BY <1>1, <1>5, <1>11, <2>1, <2>2, SamePrefixOK
<1>13. ASSUME NEW r \in X
       PROVE  PrefixOK(h, r) /\ UpTo(r) \subseteq h.lab[r].prefix
  <2> DEFINE b == <<r[1], r[2] - 1>>
             w == rf[r]
  <2>1. /\ r \in Events(g) /\ g.lab[r].typ = "R" /\ IsLast(g, r) /\ h.lab[r].rf = rf[r]
        /\ w \in StoresOf(g, r)
    BY <1>6
  <2>2. /\ w \in Events(g) /\ w \in Nat \X Nat /\ w # Bottom
        /\ w = InitEvent \/ (g.lab[w].typ = "W" /\ w[2] > 0 /\ w \in UpTo(w))
        /\ g.lab[w].typ \in {"INIT", "W"}
        /\ g.lab[w].rf = Bottom
    BY <2>1, StoresAre
  <2>3. r \in Nat \X Nat /\ r[2] > 0
    <3>1. r \in Nat \X Nat /\ r[2] # 0
      BY <2>1 DEF GraphOK, Shape, Kinds
    <3> QED BY <3>1
  <2>4. b \in Events(g) /\ b \in Nat \X Nat /\ Stamp(g, b) < Stamp(g, r)
    BY <2>1, <2>3 DEF GraphOK, Shape, PoOrder
  <2>5. b \notin X /\ g.lab[b].typ # "B"
    <3>1. r[1] = b[1] /\ r[2] > b[2]
      BY <2>3
    <3>2. ~IsLast(g, b)
      BY <2>1, <2>3, <2>4, <3>1 DEF IsLast
    <3> QED BY <2>4, <1>6, <3>2 DEF GraphOK, Kinds
  <2>6. w \notin X /\ g.lab[w].typ # "B"
    BY <1>6, <2>2
  <2>7. PrefixOK(g, b) /\ PrefixOK(h, b) /\ PrefixOK(g, w) /\ PrefixOK(h, w)
    BY <1>12, <2>2, <2>4, <2>5, <2>6
  <2>8. FullPrefix(h, r) = UpTo(r) \cup FullPrefix(g, b) \cup FullPrefix(g, w)
    <3>1. UpTo(b) \subseteq UpTo(r)
      <4>1. b[1] = r[1] /\ \A i \in Nat : i <= b[2] => i <= r[2]
        BY <2>3, <2>4
      <4> QED BY <2>3, <2>4, <4>1, UpToMember
    <3>2. UpTo(w) \subseteq g.lab[w].prefix
      <4>1. CASE w = InitEvent
        <5>1. \A c : c \notin UpTo(w)
          BY <2>2, <4>1, UpToMember DEF InitEvent
        <5> QED BY <5>1
      <4>2. CASE g.lab[w].typ = "W"
        BY <2>2, <4>2 DEF GraphOK, PrefixesOK
      <4> QED BY <2>2, <4>1, <4>2
    <3> QED BY <3>1, <3>2 DEF Reread, FullPrefix
  <2>9. FullPrefix(h, b) = FullPrefix(g, b) /\ FullPrefix(h, w) = FullPrefix(g, w)
    BY <1>5, <2>2, <2>4, <2>5, <2>6
  <2>10. JoinOf(h, r, {b, w})
    <3>1. FullPrefix(h, r) = UpTo(r) \cup UNION {FullPrefix(h, d) : d \in {b, w}}
      BY <2>8, <2>9
    <3> QED BY <1>3, <1>4, <2>2, <2>4, <2>7, <3>1 DEF JoinOf
  <2>11. ASSUME NEW c \in FullPrefix(g, b) PROVE Stamp(g, c) <= Stamp(g, r)
    <3>1. Stamp(g, c) \in Nat /\ Stamp(g, b) \in Nat /\ Stamp(g, r) \in Nat
      BY <2>1, <2>4, <2>7 DEF PrefixOK, GraphOK, Stamps, Stamp
    <3>2. CASE Stamp(g, c) <= Stamp(g, b)
      BY <2>4, <3>1, <3>2
    <3>3. CASE g.lab[b].rf \notin {Bottom, InitEvent} /\ c \in FullPrefix(g, g.lab[b].rf)
      <4> DEFINE v == g.lab[b].rf
      <4>1. v \in Events(g) \ X /\ g.lab[v].typ = "W" /\ g.lab[b].typ = "R"
        BY <1>11, <2>4, <3>3, StoreIsEvent
      <4>2. PrefixOK(g, v) /\ g.lab[v].rf = Bottom
        BY <1>12, <4>1 DEF GraphOK, ReadsFrom
      <4>3. Stamp(g, c) <= Stamp(g, v)
        BY <3>3, <4>2 DEF PrefixOK
      <4>4. Stamp(g, v) < Stamp(g, r) /\ Stamp(g, v) \in Nat
        <5>1. b \in Reads(g) /\ r[1] = b[1] /\ r[2] > b[2]
          BY <2>3, <2>4, <4>1 DEF Reads, OfType
        <5> QED BY <2>1, <3>3, <4>1, <5>1 DEF GraphOK, StoreFirst, Stamps, Stamp
      <4> QED BY <3>1, <4>3, <4>4
    <3> QED BY <2>7, <3>2, <3>3 DEF PrefixOK
  <2>12. \A c \in FullPrefix(g, w) : w # InitEvent
    <3>1. w = InitEvent => FullPrefix(g, w) = {}
      <4>1. \A c : c \notin UpTo(InitEvent)
        BY UpToMember DEF InitEvent
      <4> QED BY <4>1 DEF FullPrefix, GraphOK, Threads
    <3> QED BY <3>1
  <2>13. h.lab[r].rf \notin {Bottom, InitEvent} => h.lab[r].rf \in FullPrefix(h, r)
    BY <2>1, <2>2, <2>8 DEF FullPrefix
  <2>14. \A d \in {b, w} : \A c \in FullPrefix(h, d) :
             \/ Stamp(h, c) <= Stamp(h, r)
             \/ h.lab[r].rf \notin {Bottom, InitEvent} /\ h.lab[r].rf \in FullPrefix(h, r)
                /\ c \in FullPrefix(h, h.lab[r].rf)
    BY <1>4, <2>1, <2>2, <2>9, <2>11, <2>12, <2>13
  <2>15. r[1] > 0 => CreateId(h, r[1]) \in FullPrefix(h, r)
    <3>1. b[1] = r[1]
      OBVIOUS
    <3> QED BY <2>7, <2>8, <2>9, <3>1 DEF PrefixOK
  <2>16. r \in Events(h) /\ h.lab[r].typ # "B"
    BY <1>3, <1>4, <2>1
  <2> HIDE DEF b, w
  <2>17. PrefixOK(h, r)
    BY <1>2, <2>3, <2>10, <2>13, <2>14, <2>15, <2>16, PrefixJoin
  <2> QED BY <2>17 DEF Reread
<1>14. PrefixesOK(h, {})
  <2>1. \A e \in Events(h) : h.lab[e].typ # "B" => PrefixOK(h, e)
    BY <1>3, <1>4, <1>12, <1>13
  <2>2. ASSUME NEW e \in Events(h), h.lab[e].typ \in {"R", "W", "TC", "TF"} PROVE UpTo(e) \subseteq h.lab[e].prefix
    <3>1. CASE e \in X
      BY <1>13, <3>1
    <3>2. CASE e \notin X
      BY <1>3, <1>4, <2>2, <3>2 DEF Reread, GraphOK, PrefixesOK
    <3> QED BY <3>1, <3>2
  <2> QED BY <2>1, <2>2 DEF PrefixesOK
<1> QED BY <1>2, <1>7, <1>9, <1>10, <1>14 DEF GraphOK

(* The prefix of a read: its predecessor's and its store's. *)
LEMMA PrefixOfRead ==
  ASSUME NEW g, NEW r, g.lab[r].typ = "R", r[2] # 0, NEW b, b = <<r[1], r[2] - 1>>, b \in Events(g),
         NEW w, g.lab[r].rf = w, w # Bottom
  PROVE  PrefixOf(g, r) = UpTo(r) \cup g.lab[b].prefix \cup g.lab[w].prefix
<1>1. po_imm_pred(g, r) = {b} /\ rf_pred(g, r) = {w} /\ tc_pred(g, r) = {} /\ tj_pred(g, r) = {}
  BY DEF po_imm_pred, rf_pred, tc_pred, tj_pred
<1>2. PrefixOf(g, r) = UpTo(r) \cup UNION {g.lab[d].prefix : d \in {b} \cup {w} \cup {} \cup {}}
  BY <1>1 DEF PrefixOf
<1>3. UNION {g.lab[d].prefix : d \in {b} \cup {w} \cup {} \cup {}} = g.lab[b].prefix \cup g.lab[w].prefix
  OBVIOUS
<1> QED BY <1>2, <1>3

(* What is known about such reads. *)
LEMMA LastReadsAre ==
  ASSUME NEW p, NEW g, NEW X, NEW rf, GraphOK(p, g, X), LastReads(g, rf), NEW r \in DOMAIN rf
  PROVE  /\ r \in Events(g) /\ g.lab[r].typ = "R" /\ r[2] # 0 /\ <<r[1], r[2] - 1>> \in Events(g)
         /\ r \in Nat \X Nat
         /\ rf[r] # Bottom /\ rf[r] \in Events(g)
<1>1. r \in Events(g) /\ g.lab[r].typ = "R" /\ rf[r] \in StoresOf(g, r)
  BY DEF LastReads, Reads, OfType
<1>2. r \in Nat \X Nat /\ r[2] # 0
  BY <1>1 DEF GraphOK, Shape, Kinds
<1>3. r[2] - 1 \in 0 .. r[2] - 1
  BY <1>2
<1>4. <<r[1], r[2] - 1>> \in Events(g)
  BY <1>1, <1>3 DEF GraphOK, PoOrder
<1>5. rf[r] # Bottom /\ rf[r] \in Events(g)
  BY <1>1, StoresAre
<1> QED BY <1>1, <1>2, <1>4, <1>5

(* revisitInPlace() and repairDanglingReads() change reads in this way. *)
LEMMA ReadMaximallyRereads ==
  ASSUME CheckerOK, NEW p, NEW g, NEW rf, GraphOK(p, g, DOMAIN rf), LastReads(g, rf)
  PROVE  Reread(g, ReadMaximally(g, rf), rf)
<1> DEFINE lab0 == [e \in Events(g) |->
                       IF e \in DOMAIN rf THEN [g.lab[e] EXCEPT !.rf = rf[e], !.addedMax = TRUE]
                       ELSE g.lab[e]]
           a == [g EXCEPT !.lab = lab0]
           h == ReadMaximally(g, rf)
<1>1. CASE DOMAIN rf = {}
  <2>1. h = g
    BY <1>1 DEF ReadMaximally
  <2> QED BY <1>1, <2>1 DEF Reread, SameText
<1>2. CASE DOMAIN rf # {}
  <2> DEFINE lab1 == [e \in Events(g) |->
                        IF e \in DOMAIN rf
                        THEN [a.lab[e] EXCEPT !.views = CalculateViews(a, e), !.prefix = CalculatePrefixView(a, e)]
                        ELSE a.lab[e]]
  <2>1. h = [a EXCEPT !.lab = lab1]
    BY <1>2 DEF ReadMaximally
  <2>2. DOMAIN a = DOMAIN g /\ a.lab = lab0 /\ a.stamp = g.stamp /\ a.co = g.co /\ "lab" \in DOMAIN a
    BY DEF GraphOK, Shape
  <2> HIDE DEF a
  <2>3. DOMAIN h = DOMAIN g /\ h.lab = lab1 /\ h.stamp = g.stamp /\ h.co = g.co
    BY <2>1, <2>2 DEF GraphOK, Shape
  <2> HIDE DEF h
  <2>4. \A e \in Events(g) : DOMAIN g.lab[e] = LabelFields
    BY DEF GraphOK, Shape
  <2>5. \A e \in Events(g) \ DOMAIN rf : a.lab[e] = g.lab[e] /\ h.lab[e] = g.lab[e]
    BY <2>2, <2>3
  <2>6. Events(h) = Events(g) /\ Events(a) = Events(g)
    BY <2>2, <2>3 DEF Events
  <2>7. ASSUME NEW r \in DOMAIN rf
        PROVE  /\ DOMAIN h.lab[r] = DOMAIN g.lab[r] /\ h.lab[r].typ = g.lab[r].typ /\ h.lab[r].ip = g.lab[r].ip
               /\ h.lab[r].ins = g.lab[r].ins /\ h.lab[r].val = g.lab[r].val
               /\ h.lab[r].createId = g.lab[r].createId
               /\ h.lab[r].rf = rf[r]
               /\ h.lab[r].prefix = UpTo(r) \cup g.lab[<<r[1], r[2] - 1>>].prefix \cup g.lab[rf[r]].prefix
    <3> DEFINE b == <<r[1], r[2] - 1>>
    <3>1. /\ r \in Events(g) /\ g.lab[r].typ = "R" /\ r[2] # 0 /\ b \in Events(g)
          /\ rf[r] # Bottom /\ rf[r] \in Events(g)
      BY LastReadsAre
    <3>2. a.lab[r] = [g.lab[r] EXCEPT !.rf = rf[r], !.addedMax = TRUE]
      BY <2>2, <3>1
    <3>3. /\ DOMAIN a.lab[r] = LabelFields /\ a.lab[r].typ = g.lab[r].typ /\ a.lab[r].ip = g.lab[r].ip
          /\ a.lab[r].ins = g.lab[r].ins /\ a.lab[r].val = g.lab[r].val /\ a.lab[r].createId = g.lab[r].createId
          /\ a.lab[r].rf = rf[r]
      BY <2>4, <3>1, <3>2, LabelFieldsAre
    <3>4. h.lab[r] = [a.lab[r] EXCEPT !.views = CalculateViews(a, r), !.prefix = CalculatePrefixView(a, r)]
      BY <2>3, <3>1
    <3>5. /\ DOMAIN h.lab[r] = LabelFields /\ h.lab[r].typ = g.lab[r].typ /\ h.lab[r].ip = g.lab[r].ip
          /\ h.lab[r].ins = g.lab[r].ins /\ h.lab[r].val = g.lab[r].val /\ h.lab[r].createId = g.lab[r].createId
          /\ h.lab[r].rf = rf[r] /\ h.lab[r].prefix = CalculatePrefixView(a, r)
      BY <3>3, <3>4, LabelFieldsAre
    <3>6. ASSUME NEW e \in Events(g) PROVE a.lab[e].prefix = g.lab[e].prefix
      <4>1. CASE e \in DOMAIN rf
        <5>1. a.lab[e] = [g.lab[e] EXCEPT !.rf = rf[e], !.addedMax = TRUE]
          BY <2>2, <4>1
        <5> QED BY <2>4, <5>1, LabelFieldsAre
      <4>2. CASE e \notin DOMAIN rf
        BY <2>5, <4>2
      <4> QED BY <4>1, <4>2
    <3>7. CalculatePrefixView(a, r) = PrefixOf(a, r)
      BY DEF CheckerOK
    <3>8. PrefixOf(a, r) = UpTo(r) \cup a.lab[b].prefix \cup a.lab[rf[r]].prefix
      <4> HIDE DEF lab0, lab1
      <4>1. b \in Events(a) /\ a.lab[r].typ = "R"
        BY <2>6, <3>1, <3>3
      <4> QED BY <3>1, <3>3, <4>1, PrefixOfRead
    <3> QED BY <2>4, <3>1, <3>5, <3>6, <3>7, <3>8
  <2>8. \A e \in Events(g) :
          /\ DOMAIN h.lab[e] = DOMAIN g.lab[e] /\ h.lab[e].typ = g.lab[e].typ /\ h.lab[e].ip = g.lab[e].ip
          /\ h.lab[e].ins = g.lab[e].ins /\ h.lab[e].val = g.lab[e].val /\ h.lab[e].createId = g.lab[e].createId
    BY <2>5, <2>7
  <2>9. h.lab[InitEvent].prefix = g.lab[InitEvent].prefix
    <3>1. InitEvent \in Events(g) /\ InitEvent \notin DOMAIN rf
      BY LastReadsAre DEF GraphOK, Shape, Kinds
    <3> QED BY <2>5, <3>1
  <2>10. SameText(g, h)
    BY <2>3, <2>6, <2>8, <2>9 DEF SameText
  <2> QED BY <2>3, <2>5, <2>7, <2>10 DEF Reread, h
<1> QED BY <1>1, <1>2

(* So they keep the invariant, also where the reads they change had lost    *)
(* their stores.                                                            *)
LEMMA ReadMaximallyOK ==
  ASSUME CheckerOK, NEW p, NEW g, NEW rf, GraphOK(p, g, DOMAIN rf), LastReads(g, rf)
  PROVE  GraphOK(p, ReadMaximally(g, rf), {})
BY ReadMaximallyRereads, RereadOK

(* One read reads from a store. *)
SetsRf(g, h, r, w) ==
    /\ SameText(g, h) /\ h.co = g.co
    /\ h.lab[r].rf = w /\ h.lab[r].prefix = g.lab[r].prefix
    /\ \A e \in Events(g) \ {r} : h.lab[e] = g.lab[e]

(* setRf() changes the store of one read. *)
LEMMA SetRfSets ==
  ASSUME NEW p, NEW g, NEW X, GraphOK(p, g, X), NEW r \in Events(g), NEW w
  PROVE  SetsRf(g, setRf(g, r, w), r, w)
<1> DEFINE m == (w = co_max(g, Loc(g, r)))
           h == setRf(g, r, w)
           l == [g.lab[r] EXCEPT !.rf = w, !.addedMax = m]
<1>1. "lab" \in DOMAIN g /\ r \in DOMAIN g.lab /\ DOMAIN g.lab[r] = LabelFields
  BY DEF GraphOK, Shape, Events
<1>2. h = [g EXCEPT !.lab[r].rf = w, !.lab[r].addedMax = m]
  BY DEF setRf
<1> HIDE DEF m
<1>3. DOMAIN h = DOMAIN g /\ h.stamp = g.stamp /\ h.co = g.co /\ h.lab = [g.lab EXCEPT ![r] = l]
  BY <1>1, <1>2 DEF GraphOK, Shape
<1> HIDE DEF h
<1>4. /\ DOMAIN l = LabelFields /\ l.typ = g.lab[r].typ /\ l.ip = g.lab[r].ip
      /\ l.ins = g.lab[r].ins /\ l.val = g.lab[r].val /\ l.createId = g.lab[r].createId
      /\ l.rf = w /\ l.prefix = g.lab[r].prefix
  BY <1>1, LabelFieldsAre
<1> HIDE DEF l
<1>5. Events(h) = Events(g) /\ h.lab[r] = l /\ \A e \in Events(g) \ {r} : h.lab[e] = g.lab[e]
  BY <1>1, <1>3 DEF Events
<1>6. h.lab[InitEvent].prefix = g.lab[InitEvent].prefix
  BY <1>4, <1>5 DEF GraphOK, Shape
<1>7. SameText(g, h)
  BY <1>1, <1>3, <1>4, <1>5, <1>6 DEF SameText
<1> QED BY <1>3, <1>4, <1>5, <1>7 DEF SetsRf, h

(* setRf() followed by updateLabelViews(), at a load or a forward revisit,  *)
(* is such a change too.                                                    *)
LEMMA ReadFromRereads ==
  ASSUME CheckerOK, NEW p, NEW g, NEW r, NEW w, NEW X, GraphOK(p, g, X),
         NEW rf, DOMAIN rf = {r}, rf[r] = w, LastReads(g, rf)
  PROVE  Reread(g, updateLabelViews(setRf(g, r, w), r), rf)
<1> DEFINE a == setRf(g, r, w)
           V == CalculateViews(a, r)
           P == CalculatePrefixView(a, r)
           h == updateLabelViews(a, r)
           b == <<r[1], r[2] - 1>>
           l == [a.lab[r] EXCEPT !.views = V, !.prefix = P]
<1>1. DOMAIN rf = {r} /\ rf[r] = w
  OBVIOUS
<1>2. /\ r \in Events(g) /\ g.lab[r].typ = "R" /\ r[2] # 0 /\ b \in Events(g) /\ r \in Nat \X Nat
      /\ w # Bottom /\ w \in Events(g)
  BY <1>1, LastReadsAre
<1>3. SetsRf(g, a, r, w)
  BY <1>2, SetRfSets
<1> HIDE DEF a
<1>4. /\ "lab" \in DOMAIN a /\ r \in DOMAIN a.lab /\ DOMAIN a.lab[r] = LabelFields
      /\ DOMAIN a = {"stamp", "lab", "co", "lin"}
  BY <1>2, <1>3 DEF SetsRf, SameText, GraphOK, Shape, Events
<1>5. h = [a EXCEPT !.lab[r].views = V, !.lab[r].prefix = P]
  BY DEF updateLabelViews
<1>6. P = UpTo(r) \cup g.lab[b].prefix \cup g.lab[w].prefix
  <2>1. P = PrefixOf(a, r)
    BY DEF CheckerOK
  <2>2. a.lab[r].typ = "R" /\ a.lab[r].rf = w /\ b \in Events(a)
    BY <1>2, <1>3 DEF SetsRf, SameText
  <2>3. \A e \in Events(g) : a.lab[e].prefix = g.lab[e].prefix
    BY <1>3 DEF SetsRf
  <2>4. PrefixOf(a, r) = UpTo(r) \cup a.lab[b].prefix \cup a.lab[w].prefix
    BY <1>2, <2>2, PrefixOfRead
  <2> QED BY <1>2, <2>1, <2>3, <2>4
<1> HIDE DEF V, P
<1>7. DOMAIN h = DOMAIN a /\ h.stamp = a.stamp /\ h.co = a.co /\ h.lab = [a.lab EXCEPT ![r] = l]
  BY <1>4, <1>5
<1> HIDE DEF h
<1>8. /\ DOMAIN l = LabelFields /\ l.typ = a.lab[r].typ /\ l.ip = a.lab[r].ip
      /\ l.ins = a.lab[r].ins /\ l.val = a.lab[r].val /\ l.createId = a.lab[r].createId
      /\ l.rf = a.lab[r].rf /\ l.prefix = P
  BY <1>4, LabelFieldsAre
<1> HIDE DEF l
<1>9. Events(h) = Events(g) /\ h.lab[r] = l /\ \A e \in Events(g) \ {r} : h.lab[e] = g.lab[e]
  BY <1>3, <1>4, <1>7 DEF Events, SetsRf, SameText
<1>10. r # InitEvent
  BY <1>2 DEF GraphOK, Kinds
<1>11. /\ DOMAIN h.lab[r] = DOMAIN g.lab[r] /\ h.lab[r].typ = g.lab[r].typ /\ h.lab[r].ip = g.lab[r].ip
       /\ h.lab[r].ins = g.lab[r].ins /\ h.lab[r].val = g.lab[r].val /\ h.lab[r].createId = g.lab[r].createId
       /\ h.lab[r].rf = w /\ h.lab[r].prefix = P
  BY <1>2, <1>3, <1>4, <1>8, <1>9 DEF SetsRf, SameText
<1>12. SameText(g, h)
  <2>1. h.lab[InitEvent] = g.lab[InitEvent]
    BY <1>9, <1>10 DEF GraphOK, Shape
  <2>2. DOMAIN h = DOMAIN g /\ h.stamp = g.stamp
    BY <1>3, <1>7 DEF SetsRf, SameText
  <2> QED BY <1>9, <1>11, <2>1, <2>2 DEF SameText
<1>13. h.co = g.co
  BY <1>3, <1>7 DEF SetsRf
<1>14. Reread(g, h, rf)
  BY <1>1, <1>6, <1>9, <1>11, <1>12, <1>13 DEF Reread
<1> QED BY <1>14 DEF h, a

(* A non-atomic load takes the store that it reads from when it is added;   *)
(* its prefix stays.                                                        *)
LEMMA NALoadOK ==
  ASSUME NEW p, NEW g, NEW h, NEW r, NEW w, GraphOK(p, g, {}), SetsRf(g, h, r, w),
         r \in Reads(g), IsLast(g, r), g.lab[r].rf = Bottom, g.lab[r].ins.mo = "na", w \in StoresOf(g, r)
  PROVE  GraphOK(p, h, {})
<1>1. SameText(g, h) /\ h.co = g.co
  BY DEF SetsRf
<1>2. Shape(h) /\ Stamps(h) /\ PoOrder(h) /\ Kinds(h) /\ Threads(p, h) /\ Texts(p, h) /\ CoherenceOK(h)
  BY <1>1, SameTextOK
<1>3. \A e \in Events(g) : Loc(h, e) = Loc(g, e) /\ h.lab[e].typ = g.lab[e].typ /\ h.lab[e].ins = g.lab[e].ins
  BY <1>1 DEF Loc, SameText
<1>4. Events(h) = Events(g) /\ Reads(h) = Reads(g) /\ \A e : Stamp(h, e) = Stamp(g, e)
  BY <1>1, <1>3 DEF Reads, OfType, SameText, Stamp
<1>5. \A e \in Events(g) \ {r} : h.lab[e].rf = g.lab[e].rf
  BY DEF SetsRf
<1>6. \A e \in Events(g) : h.lab[e].prefix = g.lab[e].prefix /\ FullPrefix(h, e) = FullPrefix(g, e)
  BY DEF SetsRf, FullPrefix
<1>7. r \in Events(g) /\ g.lab[r].typ = "R"
  BY DEF Reads, OfType
<1>8. ReadsFrom(h)
  <2>1. \A e \in Events(g) \ {r} :
            IF h.lab[e].typ = "R" THEN h.lab[e].rf \in {Bottom, InitEvent} \cup ToSet(h.co[Loc(h, e)])
            ELSE h.lab[e].rf = Bottom
    BY <1>1, <1>3, <1>5 DEF GraphOK, ReadsFrom
  <2>2. h.lab[r].typ = "R" /\ h.lab[r].rf \in {Bottom, InitEvent} \cup ToSet(h.co[Loc(h, r)])
    BY <1>1, <1>3, <1>7 DEF StoresOf, SetsRf
  <2> QED BY <1>4, <2>1, <2>2 DEF ReadsFrom
<1>9. \A e \in Events(g) : ~(e[1] = r[1] /\ e[2] > r[2])
  <2>1. \A e \in Events(g) : e[2] \in Nat
    BY DEF GraphOK, Shape
  <2> QED BY <1>7, <2>1 DEF IsLast
<1>10. StoreFirst(h)
  <2>1. ASSUME NEW q \in Reads(h), h.lab[q].rf # Bottom, NEW e \in Events(h), e[1] = q[1], e[2] > q[2]
        PROVE  Stamp(h, h.lab[q].rf) < Stamp(h, e)
    <3>1. q \in Reads(g) /\ q \in Events(g) /\ q # r
      BY <1>4, <1>9, <2>1 DEF Reads, OfType
    <3> QED BY <1>4, <1>5, <2>1, <3>1 DEF GraphOK, StoreFirst
  <2> QED BY <2>1 DEF StoreFirst
<1>11. Blocked(h)
  <2>1. ASSUME Ipr, NEW q \in Reads(h), h.lab[q].rf # Bottom, ReadBlocks(h, q),
               NEW e \in Events(h), e[1] = q[1], e[2] > q[2]
        PROVE  h.lab[e].typ = "B"
    <3>1. q \in Reads(g) /\ q \in Events(g) /\ q # r
      BY <1>4, <1>9, <2>1 DEF Reads, OfType
    <3>2. ReadBlocks(g, q)
      BY <1>1, <1>5, <2>1, <3>1, SameValues
    <3> QED BY <1>3, <1>4, <1>5, <2>1, <3>1, <3>2 DEF GraphOK, Blocked
  <2> QED BY <2>1 DEF Blocked
<1>12. ASSUME NEW e \in Events(g), g.lab[e].typ # "B" PROVE PrefixOK(h, e)
  <2>1. PrefixOK(g, e)
    BY <1>12 DEF GraphOK, PrefixesOK
  <2>2. \A d \in FullPrefix(g, e) : d \in Events(g)
    BY <2>1 DEF PrefixOK
  <2>3. CASE e # r
    <3>1. g.lab[e].rf # Bottom => g.lab[e].rf \in Events(g)
      BY StoreIsEvent
    <3> QED BY <1>1, <1>5, <1>6, <2>1, <2>2, <2>3, <3>1, SamePrefixOK
  <2>4. CASE e = r
    <3>1. ASSUME NEW d \in FullPrefix(g, r)
          PROVE  /\ d[2] > 0 /\ h.lab[d].typ # "B"
                 /\ FullPrefix(h, d) \subseteq FullPrefix(h, r)
                 /\ h.lab[d].typ = "R" /\ d # r => <<d[1], d[2] + 1>> \in FullPrefix(h, r)
                 /\ Stamp(h, d) <= Stamp(h, r)
      BY <1>3, <1>4, <1>6, <2>1, <2>2, <2>4 DEF PrefixOK
    <3>2. r[1] > 0 => CreateId(h, r[1]) = CreateId(g, r[1])
      <4>1. r[1] > 0 => <<r[1], 0>> \in Events(g)
        BY <1>7 DEF GraphOK, Threads, Shape
      <4> QED BY <1>1, <4>1 DEF CreateId, SameText
    <3>3. FullPrefix(h, r) = FullPrefix(g, r) /\ FullPrefix(g, r) \subseteq Events(h) /\ h.lab[r].ins.mo = "na"
      BY <1>3, <1>4, <1>6, <1>7, <2>2, <2>4
    <3>4. r[1] > 0 => CreateId(h, r[1]) \in FullPrefix(h, r)
      BY <2>1, <2>4, <3>2, <3>3 DEF PrefixOK
    <3>5. r[2] # 0
      BY <1>7 DEF GraphOK, Kinds
    <3> QED BY <2>4, <3>1, <3>3, <3>4, <3>5 DEF PrefixOK
  <2> QED BY <2>3, <2>4
<1>13. PrefixesOK(h, {})
  BY <1>3, <1>4, <1>6, <1>12 DEF PrefixesOK, GraphOK
<1> QED BY <1>2, <1>8, <1>10, <1>11, <1>13 DEF GraphOK

(* Coherence changes, without losing a store. *)
CoGrows(g, h) ==
    /\ SameText(g, h) /\ CoherenceOK(h)
    /\ \A e \in Events(g) : h.lab[e].rf = g.lab[e].rf /\ h.lab[e].prefix = g.lab[e].prefix
    /\ \A l \in Locs : ToSet(g.co[l]) \subseteq ToSet(h.co[l])

(* More stores in coherence, or others in between, keep the invariant. *)
LEMMA CoGrowsOK ==
  ASSUME NEW p, NEW g, NEW h, NEW X, GraphOK(p, g, X), CoGrows(g, h)
  PROVE  GraphOK(p, h, X)
<1> DEFINE a == [h EXCEPT !.co = g.co]
<1>1. /\ DOMAIN a = DOMAIN h /\ a.stamp = h.stamp /\ a.lab = h.lab /\ a.co = g.co
  BY DEF CoGrows, SameText, GraphOK, Shape
<1> HIDE DEF a
<1>2. Events(a) = Events(h)
  BY <1>1 DEF Events
<1>3. SameReads(g, a)
  BY <1>1, <1>2 DEF CoGrows, SameReads, SameText
<1>4. GraphOK(p, a, X)
  BY <1>3, SameReadsOK
<1>5. \A e : Stamp(h, e) = Stamp(a, e) /\ FullPrefix(h, e) = FullPrefix(a, e) /\ CreateId(h, e) = CreateId(a, e)
             /\ Loc(h, e) = Loc(a, e)
  BY <1>1 DEF Stamp, FullPrefix, CreateId, Loc
<1>6. Shape(h) /\ Stamps(h) /\ PoOrder(h) /\ Kinds(h) /\ Threads(p, h) /\ Texts(p, h)
  BY SameTextOK DEF CoGrows
<1>7. Reads(h) = Reads(a)
  BY <1>1, <1>2 DEF Reads, OfType
<1>8. ReadsFrom(h)
  <2>1. ASSUME NEW e \in Events(h), h.lab[e].typ = "R"
        PROVE  h.lab[e].rf \in {Bottom, InitEvent} \cup ToSet(h.co[Loc(h, e)])
    <3>1. Loc(h, e) \in Locs
      BY <1>6, <2>1 DEF Texts, Loc
    <3>2. h.lab[e].rf \in {Bottom, InitEvent} \cup ToSet(g.co[Loc(h, e)])
      BY <1>1, <1>2, <1>4, <1>5, <2>1 DEF GraphOK, ReadsFrom
    <3> QED BY <3>1, <3>2 DEF CoGrows
  <2>2. ASSUME NEW e \in Events(h), h.lab[e].typ # "R" PROVE h.lab[e].rf = Bottom
    BY <1>1, <1>2, <1>4, <2>2 DEF GraphOK, ReadsFrom
  <2> QED BY <2>1, <2>2 DEF ReadsFrom
<1>9. StoreFirst(h)
  BY <1>1, <1>2, <1>4, <1>5, <1>7 DEF GraphOK, StoreFirst
<1>10. Blocked(h)
  BY <1>1, <1>2, <1>4, <1>7 DEF GraphOK, Blocked, ReadBlocks, Annotated, ReadValue, ValueOf
<1>11. PrefixesOK(h, X)
  <2>1. \A e : PrefixOK(a, e) => PrefixOK(h, e)
    BY <1>1, <1>2, <1>5 DEF PrefixOK
  <2> QED BY <1>1, <1>2, <1>4, <2>1 DEF GraphOK, PrefixesOK
<1> QED BY <1>6, <1>8, <1>9, <1>10, <1>11 DEF GraphOK, CoGrows

(* Inserting a new element into a sequence of distinct elements. *)
LEMMA InsertAtProperties ==
  ASSUME NEW R, NEW s \in Seq(R), NEW k \in 0 .. Len(s), NEW w \in R, w \notin ToSet(s), Distinct(s)
  PROVE  /\ InsertAt(s, k + 1, w) \in Seq(R)
         /\ ToSet(InsertAt(s, k + 1, w)) = ToSet(s) \cup {w}
         /\ Distinct(InsertAt(s, k + 1, w))
<1> DEFINE u == SubSeq(s, 1, k)
           v == SubSeq(s, k + 1, Len(s))
           q == InsertAt(s, k + 1, w)
<1>1. q = u \o <<w>> \o v
  <2>1. (k + 1) - 1 = k
    OBVIOUS
  <2> QED BY <2>1 DEF InsertAt
<1>2. u \in Seq(R) /\ Len(u) = k /\ \A i \in 1 .. k : u[i] = s[i]
  OBVIOUS
<1>3. v \in Seq(R) /\ Len(v) = Len(s) - k /\ \A i \in 1 .. Len(s) - k : v[i] = s[k + i]
  OBVIOUS
<1> HIDE DEF u, v, q
<1>4. q \in Seq(R) /\ Len(q) = Len(s) + 1
  BY <1>1, <1>2, <1>3
<1>5. ASSUME NEW i \in 1 .. Len(s) + 1
      PROVE  q[i] = IF i <= k THEN s[i] ELSE IF i = k + 1 THEN w ELSE s[i - 1]
  <2> DEFINE x == u \o <<w>>
  <2>1. x \in Seq(R) /\ Len(x) = k + 1 /\ x[k + 1] = w /\ \A j \in 1 .. k : x[j] = s[j]
    BY <1>2
  <2>2. q = x \o v
    BY <1>1
  <2> HIDE DEF x
  <2>3. CASE i <= k
    BY <1>3, <2>1, <2>2, <2>3
  <2>4. CASE i = k + 1
    BY <1>3, <2>1, <2>2, <2>4
  <2>5. CASE ~(i <= k) /\ i # k + 1
    <3>1. q[i] = v[i - (k + 1)] /\ i - (k + 1) \in 1 .. Len(s) - k
      BY <1>3, <2>1, <2>2, <2>5
    <3>2. k + (i - (k + 1)) = i - 1
      OBVIOUS
    <3> QED BY <1>3, <2>5, <3>1, <3>2
  <2> QED BY <2>3, <2>4, <2>5
<1>6. DOMAIN q = 1 .. Len(s) + 1 /\ DOMAIN s = 1 .. Len(s)
  BY <1>4
<1>7. \A i \in DOMAIN s : s[i] # w
  BY DEF ToSet
<1>8. Distinct(q)
  <2> SUFFICES ASSUME NEW i \in 1 .. Len(s) + 1, NEW j \in 1 .. Len(s) + 1, q[i] = q[j] PROVE i = j
    BY <1>6 DEF Distinct
  <2> DEFINE at(m) == IF m <= k THEN m ELSE m - 1
  <2>1. i = k + 1 \/ (at(i) \in DOMAIN s /\ q[i] = s[at(i)])
    BY <1>5, <1>6
  <2>2. j = k + 1 \/ (at(j) \in DOMAIN s /\ q[j] = s[at(j)])
    BY <1>5, <1>6
  <2>3. i = k + 1 => q[i] = w
    BY <1>5
  <2>4. j = k + 1 => q[j] = w
    BY <1>5
  <2>5. CASE i = k + 1 \/ j = k + 1
    BY <1>7, <2>1, <2>2, <2>3, <2>4, <2>5
  <2>6. CASE i # k + 1 /\ j # k + 1
    <3>1. at(i) = at(j)
      <4> HIDE DEF at
      <4> QED BY <2>1, <2>2, <2>6 DEF Distinct
    <3> QED BY <2>6, <3>1
  <2> QED BY <2>5, <2>6
<1>9. ToSet(q) = ToSet(s) \cup {w}
  <2>1. ASSUME NEW i \in DOMAIN q PROVE q[i] \in ToSet(s) \cup {w}
    <3>1. i <= k => i \in DOMAIN s
      BY <1>6
    <3>2. ~(i <= k) /\ i # k + 1 => i - 1 \in DOMAIN s
      BY <1>6
    <3> QED BY <1>5, <1>6, <3>1, <3>2 DEF ToSet
  <2>2. w \in ToSet(q)
    <3>1. k + 1 \in DOMAIN q /\ q[k + 1] = w
      BY <1>5, <1>6
    <3> QED BY <3>1 DEF ToSet
  <2>3. ASSUME NEW i \in DOMAIN s PROVE s[i] \in ToSet(q)
    <3>1. CASE i <= k
      <4>1. i \in DOMAIN q /\ q[i] = s[i]
        BY <1>5, <1>6, <3>1
      <4> QED BY <4>1 DEF ToSet
    <3>2. CASE ~(i <= k)
      <4>1. i + 1 \in DOMAIN q /\ q[i + 1] = s[i]
        BY <1>5, <1>6, <3>2
      <4> QED BY <4>1 DEF ToSet
    <3> QED BY <3>1, <3>2
  <2> QED BY <2>1, <2>2, <2>3 DEF ToSet
<1> QED BY <1>4, <1>8, <1>9 DEF q

(* Removing an element from a sequence of distinct elements. *)
LEMMA RemoveAtProperties ==
  ASSUME NEW R, NEW s \in Seq(R), NEW k \in 1 .. Len(s), Distinct(s)
  PROVE  /\ RemoveAt(s, k) \in Seq(R)
         /\ ToSet(RemoveAt(s, k)) = ToSet(s) \ {s[k]}
         /\ Distinct(RemoveAt(s, k))
<1> DEFINE u == SubSeq(s, 1, k - 1)
           v == SubSeq(s, k + 1, Len(s))
           q == RemoveAt(s, k)
           at(m) == IF m < k THEN m ELSE m + 1
<1>1. q = u \o v
  BY DEF RemoveAt
<1>2. u \in Seq(R) /\ Len(u) = k - 1 /\ \A i \in 1 .. k - 1 : u[i] = s[i]
  OBVIOUS
<1>3. v \in Seq(R) /\ Len(v) = Len(s) - k /\ \A i \in 1 .. Len(s) - k : v[i] = s[k + i]
  OBVIOUS
<1> HIDE DEF u, v, q
<1>4. q \in Seq(R) /\ Len(q) = Len(s) - 1
  BY <1>1, <1>2, <1>3
<1>5. ASSUME NEW i \in 1 .. Len(s) - 1
      PROVE  q[i] = s[at(i)]
  BY <1>1, <1>2, <1>3
<1>6. DOMAIN q = 1 .. Len(s) - 1 /\ DOMAIN s = 1 .. Len(s)
  BY <1>4
<1>7. \A i \in DOMAIN q : at(i) \in DOMAIN s /\ at(i) # k
  BY <1>6
<1>8. \A i, j \in DOMAIN q : at(i) = at(j) => i = j
  BY <1>6
<1>9. \A i \in DOMAIN s : i # k => \E j \in DOMAIN q : at(j) = i
  <2> SUFFICES ASSUME NEW i \in DOMAIN s, i # k PROVE \E j \in DOMAIN q : at(j) = i
    OBVIOUS
  <2>1. CASE i < k
    <3>1. i \in DOMAIN q /\ at(i) = i
      BY <1>6, <2>1
    <3> QED BY <3>1
  <2>2. CASE ~(i < k)
    <3>1. i - 1 \in DOMAIN q /\ at(i - 1) = i
      BY <1>6, <2>2
    <3> QED BY <3>1
  <2> QED BY <2>1, <2>2
<1> HIDE DEF at
<1>10. Distinct(q)
  BY <1>5, <1>6, <1>7, <1>8 DEF Distinct
<1>11. k \in DOMAIN s
  BY <1>6
<1>12. ToSet(q) = ToSet(s) \ {s[k]}
  <2>1. ASSUME NEW i \in DOMAIN q PROVE q[i] \in ToSet(s) /\ q[i] # s[k]
    BY <1>5, <1>6, <1>7, <1>11 DEF Distinct, ToSet
  <2>2. ASSUME NEW i \in DOMAIN s, s[i] # s[k] PROVE s[i] \in ToSet(q)
    <3>1. PICK j \in DOMAIN q : at(j) = i
      BY <1>9, <2>2
    <3> QED BY <1>5, <1>6, <3>1 DEF ToSet
  <2> QED BY <2>1, <2>2 DEF ToSet
<1> QED BY <1>4, <1>10, <1>12 DEF q

(* The place of a store in coherence; the initializer's is 0. *)
LEMMA CoIndexIn ==
  ASSUME NEW g, NEW l, NEW R, g.co[l] \in Seq(R), NEW w, w \in {InitEvent} \cup ToSet(g.co[l])
  PROVE  /\ CoIndex(g, w, l) \in 0 .. Len(g.co[l])
         /\ w # InitEvent => CoIndex(g, w, l) \in DOMAIN g.co[l] /\ g.co[l][CoIndex(g, w, l)] = w
<1>1. DOMAIN g.co[l] = 1 .. Len(g.co[l]) /\ Len(g.co[l]) \in Nat
  OBVIOUS
<1>2. CASE w = InitEvent
  BY <1>1, <1>2 DEF CoIndex
<1>3. CASE w # InitEvent
  <2>1. \E i \in DOMAIN g.co[l] : g.co[l][i] = w
    BY <1>3 DEF ToSet
  <2>2. CoIndex(g, w, l) \in DOMAIN g.co[l] /\ g.co[l][CoIndex(g, w, l)] = w
    BY <1>3, <2>1 DEF CoIndex
  <2> QED BY <1>1, <2>2
<1> QED BY <1>2, <1>3

(* addCo() puts a write in its location's coherence, once. *)
LEMMA AddCoPlaces ==
  ASSUME NEW g, DOMAIN g = {"stamp", "lab", "co", "lin"}, CoherenceOK(g),
         NEW w \in Events(g), g.lab[w].typ = "W", Loc(g, w) \in Locs, w \notin ToSet(g.co[Loc(g, w)]),
         NEW pred, pred \in StoresOf(g, w)
  PROVE  LET h == addCo(g, w, pred)
         IN /\ DOMAIN h = DOMAIN g /\ h.lab = g.lab /\ h.stamp = g.stamp
            /\ CoherenceOK(h)
            /\ \A l \in Locs : ToSet(h.co[l]) = ToSet(g.co[l]) \cup (IF l = Loc(g, w) THEN {w} ELSE {})
<1> DEFINE h == addCo(g, w, pred)
           loc == Loc(g, w)
           s == g.co[loc]
           k == CoIndex(g, pred, loc)
           q == InsertAt(s, k + 1, w)
<1>1. g.co \in [Locs -> Seq(Events(g))] /\ s \in Seq(Events(g)) /\ Distinct(s)
  BY DEF CoherenceOK, Distinct
<1>2. k \in 0 .. Len(s)
  BY <1>1, CoIndexIn DEF StoresOf
<1> HIDE DEF k
<1>3. q \in Seq(Events(g)) /\ ToSet(q) = ToSet(s) \cup {w} /\ Distinct(q)
  <2> HIDE DEF s
  <2> QED BY <1>1, <1>2, InsertAtProperties DEF s
<1>4. h = [g EXCEPT !.co[loc] = q]
  BY DEF addCo, k
<1> HIDE DEF q
<1>5. DOMAIN h = DOMAIN g /\ h.lab = g.lab /\ h.stamp = g.stamp /\ h.co = [g.co EXCEPT ![loc] = q]
  BY <1>4
<1>6. DOMAIN g.co = Locs
  BY <1>1
<1> HIDE DEF h
<1>7. h.co \in [Locs -> Seq(Events(g))] /\ h.co[loc] = q /\ \A l \in Locs \ {loc} : h.co[l] = g.co[l]
  BY <1>1, <1>3, <1>5, <1>6
<1>8. Events(h) = Events(g) /\ \A e : Loc(h, e) = Loc(g, e)
  BY <1>5 DEF Events, Loc
<1>9. \A l \in Locs : ToSet(h.co[l]) = ToSet(g.co[l]) \cup (IF l = loc THEN {w} ELSE {})
  BY <1>3, <1>7
<1>10. CoherenceOK(h)
  <2>1. ASSUME NEW l \in Locs, NEW v \in ToSet(h.co[l]) PROVE h.lab[v].typ = "W" /\ Loc(h, v) = l
    <3>1. v \in ToSet(g.co[l]) \/ (v = w /\ l = loc)
      BY <1>9
    <3> QED BY <1>5, <1>8, <3>1 DEF CoherenceOK
  <2>2. ASSUME NEW l \in Locs PROVE Distinct(h.co[l])
    <3>1. CASE l = loc
      BY <1>3, <1>7, <3>1
    <3>2. CASE l # loc
      BY <1>7, <3>2 DEF CoherenceOK, Distinct
    <3> QED BY <3>1, <3>2
  <2> QED BY <1>7, <1>8, <2>1, <2>2 DEF CoherenceOK, Distinct
<1> QED BY <1>5, <1>9, <1>10 DEF h

(* addCo() keeps the invariant. *)
LEMMA AddCoOK ==
  ASSUME NEW p, NEW g, NEW X, GraphOK(p, g, X),
         NEW w \in Events(g), g.lab[w].typ = "W", w \notin ToSet(g.co[Loc(g, w)]),
         NEW pred, pred \in StoresOf(g, w)
  PROVE  /\ CoGrows(g, addCo(g, w, pred)) /\ GraphOK(p, addCo(g, w, pred), X)
         /\ w \in ToSet(addCo(g, w, pred).co[Loc(g, w)])
         /\ addCo(g, w, pred).lab = g.lab
<1> DEFINE h == addCo(g, w, pred)
<1>1. Loc(g, w) \in Locs /\ DOMAIN g = {"stamp", "lab", "co", "lin"} /\ CoherenceOK(g)
  BY DEF GraphOK, Texts, Loc, Shape
<1>2. /\ DOMAIN h = DOMAIN g /\ h.lab = g.lab /\ h.stamp = g.stamp
      /\ CoherenceOK(h)
      /\ \A l \in Locs : ToSet(h.co[l]) = ToSet(g.co[l]) \cup (IF l = Loc(g, w) THEN {w} ELSE {})
  BY <1>1, AddCoPlaces
<1> HIDE DEF h
<1>3. CoGrows(g, h)
  <2>1. Events(h) = Events(g)
    BY <1>2 DEF Events
  <2>2. \A l \in Locs : ToSet(g.co[l]) \subseteq ToSet(h.co[l])
    BY <1>2
  <2> QED BY <1>2, <2>1, <2>2 DEF CoGrows, SameText
<1>4. w \in ToSet(h.co[Loc(g, w)])
  BY <1>1, <1>2
<1> QED BY <1>2, <1>3, <1>4, CoGrowsOK DEF h

(* moveCo() keeps the invariant: the write is taken out and put in again    *)
(* after another store.                                                     *)
LEMMA MoveCoOK ==
  ASSUME NEW p, NEW g, NEW X, GraphOK(p, g, X),
         NEW w \in Events(g), g.lab[w].typ = "W", w \in ToSet(g.co[Loc(g, w)]),
         NEW pred, pred \in StoresOf(g, w) \ {w}
  PROVE  CoGrows(g, moveCo(g, w, pred)) /\ GraphOK(p, moveCo(g, w, pred), X)
<1> DEFINE loc == Loc(g, w)
           s == g.co[loc]
           k == CoIndex(g, w, loc)
           q == RemoveAt(s, k)
           a == [g EXCEPT !.co[loc] = q]
           b == addCo(a, w, pred)
           m == (w = co_max(b, Loc(b, w)))
           h == moveCo(g, w, pred)
           l == [b.lab[w] EXCEPT !.addedMax = m]
<1>1. Loc(g, w) \in Locs /\ DOMAIN g = {"stamp", "lab", "co", "lin"} /\ CoherenceOK(g) /\ w # InitEvent
      /\ DOMAIN g.lab[w] = LabelFields
  BY DEF GraphOK, Texts, Loc, Shape, Kinds
<1>2. g.co \in [Locs -> Seq(Events(g))] /\ s \in Seq(Events(g)) /\ Distinct(s)
  BY <1>1 DEF CoherenceOK, Distinct
<1>3. k \in 1 .. Len(s) /\ s[k] = w
  <2>1. k \in DOMAIN s /\ s[k] = w
    BY <1>1, <1>2, CoIndexIn
  <2>2. DOMAIN s = 1 .. Len(s)
    BY <1>2
  <2> QED BY <2>1, <2>2
<1> HIDE DEF k
<1>4. q \in Seq(Events(g)) /\ ToSet(q) = ToSet(s) \ {w} /\ Distinct(q)
  <2> HIDE DEF s
  <2> QED BY <1>2, <1>3, RemoveAtProperties DEF s
<1>5. h = [b EXCEPT !.lab[w].addedMax = m]
  BY DEF moveCo, k
<1> HIDE DEF q
<1>6. DOMAIN a = DOMAIN g /\ a.lab = g.lab /\ a.stamp = g.stamp /\ a.co = [g.co EXCEPT ![loc] = q]
  BY <1>1
<1>7. DOMAIN g.co = Locs
  BY <1>2
<1> HIDE DEF a
<1>8. a.co \in [Locs -> Seq(Events(g))] /\ a.co[loc] = q /\ \A i \in Locs \ {loc} : a.co[i] = g.co[i]
  BY <1>1, <1>2, <1>4, <1>6, <1>7
<1>9. Events(a) = Events(g) /\ \A e : Loc(a, e) = Loc(g, e)
  BY <1>6 DEF Events, Loc
<1>10. CoherenceOK(a)
  <2>1. ASSUME NEW i \in Locs, NEW v \in ToSet(a.co[i]) PROVE a.lab[v].typ = "W" /\ Loc(a, v) = i
    <3>1. v \in ToSet(g.co[i])
      BY <1>4, <1>8
    <3> QED BY <1>1, <1>6, <1>9, <3>1 DEF CoherenceOK
  <2>2. ASSUME NEW i \in Locs PROVE Distinct(a.co[i])
    <3>1. CASE i = loc
      BY <1>4, <1>8, <3>1
    <3>2. CASE i # loc
      BY <1>1, <1>8, <3>2 DEF CoherenceOK, Distinct
    <3> QED BY <3>1, <3>2
  <2> QED BY <1>8, <1>9, <2>1, <2>2 DEF CoherenceOK, Distinct
<1>11. pred \in StoresOf(a, w) /\ w \notin ToSet(a.co[Loc(a, w)])
  BY <1>4, <1>8, <1>9 DEF StoresOf
<1>12. /\ DOMAIN b = DOMAIN a /\ b.lab = a.lab /\ b.stamp = a.stamp
       /\ CoherenceOK(b)
       /\ \A i \in Locs : ToSet(b.co[i]) = ToSet(a.co[i]) \cup (IF i = Loc(a, w) THEN {w} ELSE {})
  <2>1. DOMAIN a = {"stamp", "lab", "co", "lin"} /\ w \in Events(a) /\ a.lab[w].typ = "W" /\ Loc(a, w) \in Locs
    BY <1>1, <1>6, <1>9
  <2> HIDE DEF loc, s
  <2> QED BY <1>10, <1>11, <2>1, AddCoPlaces
<1> HIDE DEF b, m
<1>13. w \in DOMAIN b.lab /\ "lab" \in DOMAIN b /\ DOMAIN b.lab[w] = LabelFields
  BY <1>1, <1>6, <1>12 DEF Events
<1>14. DOMAIN h = DOMAIN g /\ h.stamp = g.stamp /\ h.co = b.co /\ h.lab = [b.lab EXCEPT ![w] = l]
  BY <1>1, <1>5, <1>6, <1>12, <1>13
<1>15. /\ DOMAIN l = LabelFields /\ l.typ = b.lab[w].typ /\ l.ip = b.lab[w].ip
       /\ l.ins = b.lab[w].ins /\ l.val = b.lab[w].val /\ l.createId = b.lab[w].createId
       /\ l.rf = b.lab[w].rf /\ l.prefix = b.lab[w].prefix
  BY <1>13, LabelFieldsAre
<1> HIDE DEF l, h
<1>16. Events(h) = Events(g) /\ h.lab[w] = l /\ \A e \in Events(g) \ {w} : h.lab[e] = g.lab[e]
  BY <1>6, <1>12, <1>13, <1>14 DEF Events
<1>17. /\ DOMAIN h.lab[w] = DOMAIN g.lab[w] /\ h.lab[w].typ = g.lab[w].typ /\ h.lab[w].ip = g.lab[w].ip
       /\ h.lab[w].ins = g.lab[w].ins /\ h.lab[w].val = g.lab[w].val /\ h.lab[w].createId = g.lab[w].createId
       /\ h.lab[w].rf = g.lab[w].rf /\ h.lab[w].prefix = g.lab[w].prefix
  BY <1>1, <1>6, <1>12, <1>15, <1>16
<1>18. SameText(g, h)
  <2>1. h.lab[InitEvent] = g.lab[InitEvent]
    BY <1>1, <1>16 DEF GraphOK, Shape
  <2> QED BY <1>14, <1>16, <1>17, <2>1 DEF SameText
<1>19. CoherenceOK(h)
  <2>1. Events(h) = Events(b) /\ \A e \in Events(b) : h.lab[e].typ = b.lab[e].typ /\ Loc(h, e) = Loc(b, e)
    BY <1>6, <1>9, <1>12, <1>16, <1>17 DEF Events, Loc
  <2>2. \A i \in Locs : \A v \in ToSet(b.co[i]) : v \in Events(b)
    BY <1>12 DEF CoherenceOK, ToSet
  <2> QED BY <1>12, <1>14, <2>1, <2>2 DEF CoherenceOK
<1>20. \A i \in Locs : ToSet(g.co[i]) \subseteq ToSet(h.co[i])
  <2> SUFFICES ASSUME NEW i \in Locs PROVE ToSet(g.co[i]) \subseteq ToSet(h.co[i])
    OBVIOUS
  <2>1. ToSet(h.co[i]) = ToSet(a.co[i]) \cup (IF i = loc THEN {w} ELSE {})
    BY <1>9, <1>12, <1>14
  <2> QED BY <1>4, <1>8, <2>1
<1>21. CoGrows(g, h)
  BY <1>16, <1>17, <1>18, <1>19, <1>20 DEF CoGrows
<1> QED BY <1>21, CoGrowsOK DEF h

(***************************** Cuts and copies *****************************)

(* h is what is left of g when only the events of K are kept: a read whose  *)
(* store is gone reads from bottom.                                         *)
Shrunk(g, h, K) ==
    /\ DOMAIN h = DOMAIN g /\ Events(h) = K /\ K \subseteq Events(g)
    /\ \A e \in K :
          /\ DOMAIN h.lab[e] = DOMAIN g.lab[e] /\ h.lab[e].typ = g.lab[e].typ /\ h.lab[e].ip = g.lab[e].ip
          /\ h.lab[e].ins = g.lab[e].ins /\ h.lab[e].val = g.lab[e].val /\ h.lab[e].createId = g.lab[e].createId
          /\ h.lab[e].prefix = g.lab[e].prefix
          /\ h.lab[e].rf = IF g.lab[e].rf \in K THEN g.lab[e].rf ELSE Bottom
    /\ h.stamp \in [K -> Nat]
    /\ \A d, e \in K : Stamp(h, d) < Stamp(h, e) <=> Stamp(g, d) < Stamp(g, e)
    /\ \A e \in K : Stamp(h, e) < Cardinality(K)
    /\ h.co \in [Locs -> Seq(K)]
    /\ \A l \in Locs : Distinct(h.co[l]) /\ ToSet(h.co[l]) = ToSet(g.co[l]) \cap K

(* K holds, with an event, those before it in its thread, the begins of the *)
(* earlier threads, and the creation of its own.                            *)
Closed(g, K) ==
    /\ K \subseteq Events(g) /\ InitEvent \in K
    /\ \A e \in K : \A i \in 0 .. e[2] - 1 : <<e[1], i>> \in K
    /\ \A e \in K : \A t \in 0 .. e[1] : <<t, 0>> \in K
    /\ \A t \in ThreadIds(g) \ {0} : <<t, 0>> \in K => CreateId(g, t) \in K

(* What is left of a graph: stamps, program order and threads. *)
LEMMA ShrunkBasics ==
  ASSUME NEW p, NEW g, NEW h, NEW K, GraphOK(p, g, {}), Shrunk(g, h, K), Closed(g, K)
  PROVE  Shape(h) /\ Stamps(h) /\ PoOrder(h) /\ Kinds(h) /\ Threads(p, h) /\ Texts(p, h)
<1> USE DEF Shrunk
<1>1. IsFiniteSet(K)
  <2>1. IsFiniteSet(Events(g)) /\ K \subseteq Events(g)
    BY DEF GraphOK, Shape
  <2> QED BY <2>1, FS_Subset
<1>2. Shape(h)
  BY <1>1 DEF GraphOK, Shape, Closed
<1>3. Stamps(h)
  <2>1. ASSUME NEW d \in K, NEW e \in K, Stamp(h, d) = Stamp(h, e) PROVE d = e
    <3>1. Stamp(h, d) \in Nat /\ Stamp(g, d) \in Nat /\ Stamp(g, e) \in Nat
      BY DEF Stamp, GraphOK, Stamps
    <3>2. ~(Stamp(g, d) < Stamp(g, e)) /\ ~(Stamp(g, e) < Stamp(g, d))
      BY <2>1, <3>1
    <3>3. Stamp(g, d) = Stamp(g, e)
      BY <3>1, <3>2
    <3> QED BY <3>3 DEF GraphOK, Stamps
  <2> QED BY <2>1 DEF Stamps
<1>4. PoOrder(h)
  BY DEF PoOrder, Closed, GraphOK
<1>5. Kinds(h)
  BY DEF Kinds, IsLast, GraphOK
<1>6. \A t : <<t, 0>> \in K => h.lab[<<t, 0>>].val = g.lab[<<t, 0>>].val /\ CreateId(h, t) = CreateId(g, t)
  BY DEF CreateId
<1>7. ASSUME NEW t \in ThreadIds(h) PROVE t \in ThreadIds(g) /\ <<t, 0>> \in K /\ t \in Nat
  <2>1. PICK d \in K : d[2] = 0 /\ t = d[1]
    BY DEF ThreadIds
  <2>2. d = <<t, 0>> /\ t \in Nat
    BY <2>1 DEF GraphOK, Shape
  <2> QED BY <2>1, <2>2 DEF ThreadIds
<1>8. Threads(p, h)
  <2>1. \A e \in Events(h) : \A t \in 0 .. e[1] : <<t, 0>> \in Events(h)
    BY DEF Closed
  <2>2. ASSUME NEW t \in ThreadIds(h) \ {0}
        PROVE  /\ CreateId(h, t) \in Events(h) /\ CreateId(h, t)[1] = 0
               /\ h.lab[CreateId(h, t)].typ = "TC"
               /\ Stamp(h, CreateId(h, t)) < Stamp(h, <<t, 0>>)
               /\ h.lab[<<t, 0>>].val \in 1 .. Len(p) - 1
    <3>1. t \in ThreadIds(g) \ {0} /\ <<t, 0>> \in K
      BY <1>7
    <3>2. CreateId(g, t) \in K
      BY <3>1 DEF Closed
    <3>3. /\ CreateId(g, t)[1] = 0
          /\ g.lab[CreateId(g, t)].typ = "TC"
          /\ Stamp(g, CreateId(g, t)) < Stamp(g, <<t, 0>>)
          /\ g.lab[<<t, 0>>].val \in 1 .. Len(p) - 1
      BY <3>1 DEF GraphOK, Threads
    <3> QED BY <1>6, <3>1, <3>2, <3>3
  <2>3. ASSUME NEW t \in ThreadIds(h) \ {0}, NEW u \in ThreadIds(h) \ {0}, t < u
        PROVE  CreateId(h, t)[2] < CreateId(h, u)[2]
    <3>1. t \in ThreadIds(g) \ {0} /\ u \in ThreadIds(g) \ {0} /\ <<t, 0>> \in K /\ <<u, 0>> \in K
      BY <1>7
    <3>2. CreateId(g, t)[2] < CreateId(g, u)[2]
      BY <2>3, <3>1 DEF GraphOK, Threads
    <3> QED BY <1>6, <3>1, <3>2
  <2>4. h.lab[InitEvent].val = 0 /\ h.lab[InitEvent].prefix = {}
    BY DEF GraphOK, Threads, Closed
  <2> QED BY <2>1, <2>2, <2>3, <2>4 DEF Threads
<1>9. \A e \in K : CodeOf(p, h, e[1]) = CodeOf(p, g, e[1])
  <2>1. \A e \in K : <<e[1], 0>> \in K
    BY DEF Closed, GraphOK, Shape
  <2> QED BY <1>6, <2>1 DEF CodeOf
<1>10. Texts(p, h)
  <2>1. Texts(p, g)
    BY DEF GraphOK
  <2> QED BY <1>9, <2>1 DEF Texts
<1> QED BY <1>2, <1>3, <1>4, <1>5, <1>8, <1>10

(* What is left of a graph satisfies the invariant if prefixes are left as  *)
(* a whole, but for reads in X.                                             *)
LEMMA ShrunkOK ==
  ASSUME NEW p, NEW g, NEW h, NEW K, NEW X, GraphOK(p, g, {}), Shrunk(g, h, K), Closed(g, K),
         \A e \in K \ X : g.lab[e].typ # "B" => FullPrefix(g, e) \subseteq K
  PROVE  GraphOK(p, h, X)
<1>1. Shape(h) /\ Stamps(h) /\ PoOrder(h) /\ Kinds(h) /\ Threads(p, h) /\ Texts(p, h)
  BY ShrunkBasics
<1> USE DEF Shrunk
<1>2. \A e \in K : Loc(h, e) = Loc(g, e) /\ FullPrefix(h, e) = FullPrefix(g, e)
  BY DEF Loc, FullPrefix
<1>3. CoherenceOK(h)
  <2>1. ASSUME NEW l \in Locs, NEW w \in ToSet(h.co[l]) PROVE h.lab[w].typ = "W" /\ Loc(h, w) = l
    <3>1. w \in K /\ w \in ToSet(g.co[l])
      OBVIOUS
    <3>2. g.lab[w].typ = "W" /\ Loc(g, w) = l
      BY <3>1 DEF GraphOK, CoherenceOK
    <3> QED BY <1>2, <3>1, <3>2
  <2> QED BY <2>1 DEF CoherenceOK, Distinct
<1>4. ReadsFrom(h)
  <2>1. ASSUME NEW e \in K, h.lab[e].typ = "R" PROVE h.lab[e].rf \in {Bottom, InitEvent} \cup ToSet(h.co[Loc(h, e)])
    <3>1. g.lab[e].typ = "R" /\ Loc(g, e) \in Locs
      BY <2>1 DEF GraphOK, Texts, Loc
    <3>2. g.lab[e].rf \in {Bottom, InitEvent} \cup ToSet(g.co[Loc(g, e)])
      BY <3>1 DEF GraphOK, ReadsFrom
    <3> QED BY <1>2, <3>1, <3>2
  <2>2. ASSUME NEW e \in K, h.lab[e].typ # "R" PROVE h.lab[e].rf = Bottom
    BY <2>2 DEF GraphOK, ReadsFrom
  <2> QED BY <2>1, <2>2 DEF ReadsFrom
<1>5. ASSUME NEW r \in Reads(h), h.lab[r].rf # Bottom
      PROVE  r \in Reads(g) /\ r \in K /\ h.lab[r].rf = g.lab[r].rf /\ g.lab[r].rf \in K
  BY <1>5 DEF Reads, OfType
<1>6. StoreFirst(h)
  BY <1>5 DEF GraphOK, StoreFirst
<1>7. Blocked(h)
  <2>1. ASSUME NEW r \in Reads(h), h.lab[r].rf # Bottom, ReadBlocks(h, r) PROVE ReadBlocks(g, r)
    BY <1>5, <2>1 DEF ReadBlocks, ReadValue, ValueOf, Annotated
  <2> QED BY <1>5, <2>1 DEF GraphOK, Blocked
<1>8. ASSUME NEW e \in K \ X, h.lab[e].typ # "B" PROVE PrefixOK(h, e)
  <2>1. g.lab[e].typ # "B" /\ FullPrefix(g, e) \subseteq K
    BY <1>8
  <2>2. PrefixOK(g, e)
    BY <2>1 DEF GraphOK, PrefixesOK
  <2>3. e[1] > 0 => CreateId(h, e[1]) = CreateId(g, e[1])
    <3>1. e[1] > 0 => <<e[1], 0>> \in K
      BY <1>1 DEF Threads, Shape
    <3> QED BY <3>1 DEF CreateId
  <2>4. \A c, d \in K : Stamp(g, c) <= Stamp(g, d) => Stamp(h, c) <= Stamp(h, d)
    <3>1. \A d \in K : Stamp(g, d) \in Nat /\ Stamp(h, d) \in Nat
      BY DEF Stamp, GraphOK, Stamps
    <3> QED BY <3>1
  <2>5. ASSUME NEW d \in FullPrefix(g, e)
        PROVE  /\ d[2] > 0 /\ h.lab[d].typ # "B"
               /\ FullPrefix(h, d) \subseteq FullPrefix(h, e)
               /\ h.lab[d].typ = "R" /\ d # e => <<d[1], d[2] + 1>> \in FullPrefix(h, e)
               /\ \/ Stamp(h, d) <= Stamp(h, e)
                  \/ h.lab[e].rf \notin {Bottom, InitEvent} /\ h.lab[e].rf \in FullPrefix(h, e)
                     /\ d \in FullPrefix(h, h.lab[e].rf)
    <3>1. /\ d[2] > 0 /\ g.lab[d].typ # "B"
          /\ FullPrefix(g, d) \subseteq FullPrefix(g, e)
          /\ g.lab[d].typ = "R" /\ d # e => <<d[1], d[2] + 1>> \in FullPrefix(g, e)
          /\ \/ Stamp(g, d) <= Stamp(g, e)
             \/ g.lab[e].rf \notin {Bottom, InitEvent} /\ g.lab[e].rf \in FullPrefix(g, e)
                /\ d \in FullPrefix(g, g.lab[e].rf)
      BY <2>2 DEF PrefixOK
    <3>2. d \in K
      BY <2>1
    <3> QED BY <1>2, <2>1, <2>4, <3>1, <3>2
  <2>6. /\ e[1] > 0 => CreateId(h, e[1]) \in FullPrefix(h, e)
        /\ h.lab[e].typ = "R" /\ h.lab[e].ins.mo # "na" /\ h.lab[e].rf \notin {Bottom, InitEvent}
             => h.lab[e].rf \in FullPrefix(h, e)
    BY <1>2, <2>2, <2>3 DEF PrefixOK
  <2>7. e[1] > 0 /\ e[2] = 0 => FullPrefix(h, e) \subseteq FullPrefix(h, CreateId(h, e[1]))
    <3>1. e[1] > 0 => CreateId(g, e[1]) \in K
      BY <2>1, <2>2 DEF PrefixOK
    <3> QED BY <1>2, <2>2, <2>3, <3>1 DEF PrefixOK
  <2>8. FullPrefix(h, e) = FullPrefix(g, e) /\ FullPrefix(h, e) \subseteq Events(h)
    BY <1>2, <2>1
  <2> QED BY <2>5, <2>6, <2>7, <2>8 DEF PrefixOK
<1>9. PrefixesOK(h, X)
  BY <1>8 DEF PrefixesOK, GraphOK
<1> QED BY <1>1, <1>3, <1>4, <1>6, <1>7, <1>9 DEF GraphOK

(* No finish appears for a join that waits. *)
LEMMA ShrunkJoins ==
  ASSUME NEW g, NEW h, NEW K, Shrunk(g, h, K), Joins(g)
  PROVE  Joins(h)
BY DEF Shrunk, Joins

(* Block labels are removed. *)
LEMMA RemoveLastOK ==
  ASSUME NEW p, NEW g, NEW threads, GraphOK(p, g, {}),
         \A t \in threads : <<t, LastIndex(g, t)>> \in Events(g) /\ g.lab[<<t, LastIndex(g, t)>>].typ = "B"
  PROVE  LET K == Events(g) \ {<<t, LastIndex(g, t)>> : t \in threads}
         IN Shrunk(g, removeLast(g, threads), K) /\ GraphOK(p, removeLast(g, threads), {})
            /\ \A e \in K : removeLast(g, threads).lab[e] = g.lab[e]
            /\ removeLast(g, threads).co = g.co
<1> DEFINE D == {<<t, LastIndex(g, t)>> : t \in threads}
           K == Events(g) \ D
           h == removeLast(g, threads)
<1>1. \A e \in Events(g) : e \notin K => g.lab[e].typ = "B" /\ IsLast(g, e)
  BY DEF GraphOK, Kinds
<1>2. h = [g EXCEPT !.stamp = Restamped(g, K), !.lab = [e \in K |-> g.lab[e]]]
  BY DEF removeLast
<1>3. K \subseteq Events(g)
  OBVIOUS
<1> HIDE DEF K
<1>4. /\ DOMAIN h = DOMAIN g /\ h.stamp = Restamped(g, K) /\ h.lab = [e \in K |-> g.lab[e]] /\ h.co = g.co
  BY <1>2 DEF GraphOK, Shape
<1> HIDE DEF h
<1>5. Events(h) = K /\ \A e \in K : h.lab[e] = g.lab[e]
  BY <1>4 DEF Events
<1>6. \A e \in Events(g) : g.lab[e].typ # "B" => e \in K
  BY <1>1
<1>7. ASSUME NEW e \in K PROVE g.lab[e].rf = Bottom \/ g.lab[e].rf \in K
  <2>1. g.lab[e].rf # Bottom =>
          g.lab[e].rf \in Events(g) /\ (g.lab[e].rf = InitEvent \/ g.lab[g.lab[e].rf].typ = "W")
    BY <1>3, StoreIsEvent
  <2>2. g.lab[InitEvent].typ = "INIT"
    BY DEF GraphOK, Shape, Kinds
  <2> QED BY <1>6, <2>1, <2>2
<1>8. /\ Restamped(g, K) \in [K -> Nat]
      /\ \A e \in K : Restamped(g, K)[e] < Cardinality(K)
      /\ \A d, e \in K : Restamped(g, K)[d] < Restamped(g, K)[e] <=> Stamp(g, d) < Stamp(g, e)
  BY <1>3, RestampedProperties DEF GraphOK, Shape
<1>9. \A l \in Locs : g.co[l] \in Seq(Events(g)) /\ Distinct(g.co[l]) /\ \A w \in ToSet(g.co[l]) : w \in K
  <2>1. \A l \in Locs : \A w \in ToSet(g.co[l]) : w \in Events(g) /\ g.lab[w].typ = "W"
    BY DEF GraphOK, CoherenceOK, ToSet
  <2>2. \A l \in Locs : g.co[l] \in Seq(Events(g)) /\ Distinct(g.co[l])
    BY DEF GraphOK, CoherenceOK, Distinct
  <2> QED BY <1>6, <2>1, <2>2
<1>10. g.co \in [Locs -> Seq(K)]
  <2>1. \A l \in Locs : g.co[l] \in Seq(K)
    <3> SUFFICES ASSUME NEW l \in Locs PROVE g.co[l] \in Seq(K)
      OBVIOUS
    <3>1. g.co[l] \in Seq(Events(g)) /\ \A i \in DOMAIN g.co[l] : g.co[l][i] \in K
      BY <1>9 DEF ToSet
    <3> QED BY <3>1
  <2>2. g.co \in [Locs -> Seq(Events(g))]
    BY DEF GraphOK, CoherenceOK
  <2> QED BY <2>1, <2>2
<1>11. Shrunk(g, h, K)
  <2>1. \A e \in K : h.lab[e].rf = IF g.lab[e].rf \in K THEN g.lab[e].rf ELSE Bottom
    BY <1>5, <1>7
  <2>2. \A l \in Locs : ToSet(h.co[l]) = ToSet(g.co[l]) \cap K
    BY <1>4, <1>9
  <2>3. \A d, e \in K : Stamp(h, d) < Stamp(h, e) <=> Stamp(g, d) < Stamp(g, e)
    BY <1>4, <1>8 DEF Stamp
  <2>4. \A e \in K : Stamp(h, e) < Cardinality(K)
    BY <1>4, <1>8 DEF Stamp
  <2> QED BY <1>3, <1>4, <1>5, <1>8, <1>9, <1>10, <2>1, <2>2, <2>3, <2>4 DEF Shrunk
<1>12. Closed(g, K)
  <2>1. InitEvent \in K
    BY <1>6 DEF GraphOK, Shape, Kinds
  <2>2. ASSUME NEW e \in K, NEW i \in 0 .. e[2] - 1 PROVE <<e[1], i>> \in K
    <3>1. <<e[1], i>> \in Events(g) /\ e \in Events(g)
      BY <1>3 DEF GraphOK, PoOrder
    <3>2. e[2] \in Nat
      BY <1>3 DEF GraphOK, Shape
    <3>3. ~IsLast(g, <<e[1], i>>)
      BY <3>1, <3>2 DEF IsLast
    <3> QED BY <1>1, <3>1, <3>3
  <2>3. ASSUME NEW e \in K, NEW t \in 0 .. e[1] PROVE <<t, 0>> \in K
    <3>1. <<t, 0>> \in Events(g)
      BY <1>3 DEF GraphOK, Threads
    <3>2. g.lab[<<t, 0>>].typ \in {"INIT", "TS"}
      BY <3>1 DEF GraphOK, Kinds
    <3> QED BY <1>6, <3>1, <3>2
  <2>4. ASSUME NEW t \in ThreadIds(g) \ {0} PROVE CreateId(g, t) \in K
    BY <1>6 DEF GraphOK, Threads
  <2> QED BY <1>3, <2>1, <2>2, <2>3, <2>4 DEF Closed
<1>13. \A e \in K : g.lab[e].typ # "B" => FullPrefix(g, e) \subseteq K
  <2>1. \A e \in K : g.lab[e].typ # "B" => PrefixOK(g, e)
    BY <1>3 DEF GraphOK, PrefixesOK
  <2> QED BY <1>6, <2>1 DEF PrefixOK
<1>14. GraphOK(p, h, {})
  BY <1>11, <1>12, <1>13, ShrunkOK
<1> QED BY <1>4, <1>5, <1>11, <1>14 DEF h, K

(* A view that a graph may be cut to. *)
ViewOK(g, v) ==
    \A e \in v : /\ e \in Events(g) /\ e[2] > 0 /\ UpTo(e) \subseteq v
                 /\ e[1] > 0 => CreateId(g, e[1]) \in v

(* Cutting at such a view leaves no holes, and every thread that is left    *)
(* has its creation. Only begins without creation go.                       *)
LEMMA ViewClosed ==
  ASSUME NEW p, NEW g, NEW v, GraphOK(p, g, {}), ViewOK(g, v)
  PROVE  /\ Holes(g, v) = {}
         /\ Closed(g, Left(g, v, OrphanedBegins(g, v, v)))
         /\ v \subseteq Left(g, v, OrphanedBegins(g, v, v))
         /\ \A e \in Left(g, v, OrphanedBegins(g, v, v)) : e \in Events(g) /\ (e[2] > 0 <=> e \in v)
<1> DEFINE O == OrphanedBegins(g, v, v)
           K == Left(g, v, O)
<1>1. \A e \in v : e \in Events(g) /\ e[2] > 0 /\ e \in Nat \X Nat
  BY DEF ViewOK, GraphOK, Shape
<1>2. ASSUME NEW e \in v, NEW i \in 1 .. e[2] PROVE <<e[1], i>> \in v
  <2>1. <<e[1], i>> \in UpTo(e)
    BY DEF UpTo
  <2> QED BY <2>1 DEF ViewOK
<1>3. Holes(g, v) = {}
  <2>1. ASSUME NEW e \in Events(g), e \notin v, e[2] > 0, NEW d \in v, d[1] = e[1], d[2] > e[2] PROVE FALSE
    <3>1. e \in Nat \X Nat /\ d \in Nat \X Nat
      BY <1>1 DEF GraphOK, Shape
    <3>2. e[2] \in 1 .. d[2] /\ e = <<d[1], e[2]>>
      BY <2>1, <3>1
    <3> QED BY <1>2, <2>1, <3>2
  <2> QED BY <2>1 DEF Holes
<1>4. \A e : e \in K <=> e \in Events(g) /\ (IF e[2] = 0 THEN e[1] \notin O ELSE e \in v)
  BY DEF Left
<1> HIDE DEF K
<1>5. v \subseteq K /\ K \subseteq Events(g) /\ \A e \in K : (e[2] > 0 <=> e \in v)
  <2>1. \A e \in Events(g) : e[2] \in Nat
    BY DEF GraphOK, Shape
  <2>2. \A e \in v : e[2] # 0
    BY <1>1
  <2>3. \A e \in K : e[2] > 0 => e \in v
    BY <1>4
  <2>4. v \subseteq K
    BY <1>1, <1>4, <2>2
  <2> QED BY <1>1, <1>4, <2>3, <2>4
<1>6. \A t : t \in O <=> /\ t \in ThreadIds(g) \ {0}
                         /\ \A u \in ThreadIds(g) : u >= t => <<u, 1>> \notin v
                         /\ CreateId(g, t) \notin v
  BY DEF OrphanedBegins, CreateId
<1> HIDE DEF O
<1>7. \A t : t \in ThreadIds(g) <=> t \in Nat /\ <<t, 0>> \in Events(g)
  BY ThreadCount DEF GraphOK, Shape, Threads
<1>8. ASSUME NEW t \in ThreadIds(g) \ {0}, NEW u \in ThreadIds(g) \ {0}, t <= u, CreateId(g, u) \in v
      PROVE  CreateId(g, t) \in v
  <2>1. CASE t = u
    BY <1>8, <2>1
  <2>2. CASE t # u
    <3> DEFINE c == CreateId(g, t)
               d == CreateId(g, u)
    <3>1. c[2] < d[2] /\ c \in Events(g) /\ c[1] = 0 /\ d[1] = 0 /\ g.lab[c].typ = "TC" /\ d \in Events(g)
      <4>1. t < u
        <5>1. t \in Nat /\ u \in Nat
          BY <1>7
        <5> QED BY <1>8, <2>2, <5>1
      <4> QED BY <4>1 DEF GraphOK, Threads
    <3>2. c \in Nat \X Nat /\ d \in Nat \X Nat /\ c[2] # 0
      BY <3>1 DEF GraphOK, Shape, Kinds
    <3>3. c[2] \in 1 .. d[2] /\ c = <<d[1], c[2]>>
      BY <3>1, <3>2
    <3> QED BY <1>2, <1>8, <3>3
  <2> QED BY <2>1, <2>2
<1>9. ASSUME NEW t \in ThreadIds(g) \ {0}, t \notin O PROVE CreateId(g, t) \in v
  <2>1. CASE CreateId(g, t) \in v
    BY <2>1
  <2>2. CASE \E u \in ThreadIds(g) : u >= t /\ <<u, 1>> \in v
    <3>1. PICK u \in ThreadIds(g) : u >= t /\ <<u, 1>> \in v
      BY <2>2
    <3>2. u > 0 /\ u # 0 /\ t <= u
      <4>1. t \in Nat /\ u \in Nat
        BY <1>7
      <4> QED BY <3>1, <4>1
    <3>3. CreateId(g, u) \in v
      BY <3>1, <3>2 DEF ViewOK
    <3> QED BY <1>8, <3>2, <3>3
  <2> QED BY <1>6, <1>9, <2>1, <2>2
<1>10. ASSUME NEW t \in ThreadIds(g) \ {0}, NEW u \in ThreadIds(g) \ {0}, t <= u, u \notin O PROVE t \notin O
  <2>1. CreateId(g, t) \in v
    BY <1>8, <1>9, <1>10
  <2> QED BY <1>6, <2>1
<1>11. \A t : <<t, 0>> \in K <=> t \in ThreadIds(g) /\ t \notin O
  <2>1. \A t : <<t, 0>> \in Events(g) => t \in Nat
    BY DEF GraphOK, Shape
  <2>2. \A t : <<t, 0>> \in K <=> <<t, 0>> \in Events(g) /\ t \notin O
    <3>1. \A t : <<t, 0>>[1] = t /\ <<t, 0>>[2] = 0
      OBVIOUS
    <3> QED BY <1>4, <3>1
  <2>3. \A t : <<t, 0>> \in Events(g) <=> t \in ThreadIds(g)
    BY <1>7, <2>1
  <2> QED BY <2>2, <2>3
<1>12. 0 \notin O /\ 0 \in ThreadIds(g) /\ InitEvent \in K
  <2>1. 0 \in ThreadIds(g)
    BY <1>7 DEF GraphOK, Shape, InitEvent
  <2> QED BY <1>6, <1>11, <2>1 DEF InitEvent
<1>13. ASSUME NEW e \in K PROVE e[1] \in ThreadIds(g) /\ e[1] \notin O /\ e[1] \in Nat
  <2>1. e \in Events(g) /\ e \in Nat \X Nat /\ e[1] \in 0 .. e[1]
    BY <1>5 DEF GraphOK, Shape
  <2>2. e[1] \in ThreadIds(g)
    BY <1>7, <2>1 DEF GraphOK, Threads
  <2>3. CASE e[2] = 0
    BY <1>4, <2>1, <2>2, <2>3
  <2>4. CASE e[2] # 0
    <3>1. e \in v /\ 1 \in 1 .. e[2]
      BY <1>4, <2>1, <2>4
    <3>2. <<e[1], 1>> \in v
      BY <1>2, <3>1
    <3>3. e[1] >= e[1]
      BY <2>1
    <3> QED BY <1>6, <2>1, <2>2, <3>2, <3>3
  <2> QED BY <2>3, <2>4
<1>14. ASSUME NEW e \in K, NEW t \in 0 .. e[1] PROVE <<t, 0>> \in K
  <2>1. t \in ThreadIds(g)
    <3>1. e \in Events(g) /\ t \in Nat
      BY <1>5, <1>13
    <3>2. <<t, 0>> \in Events(g)
      BY <3>1 DEF GraphOK, Threads
    <3> QED BY <1>7, <3>1, <3>2
  <2>2. CASE t = 0
    BY <1>11, <1>12, <2>2
  <2>3. CASE t # 0
    <3>1. e[1] \in ThreadIds(g) \ {0} /\ e[1] \notin O /\ t <= e[1]
      BY <1>13, <2>3
    <3> QED BY <1>10, <1>11, <2>1, <2>3, <3>1
  <2> QED BY <2>2, <2>3
<1>15. ASSUME NEW e \in K, NEW i \in 0 .. e[2] - 1 PROVE <<e[1], i>> \in K
  <2>1. e \in Nat \X Nat
    BY <1>5 DEF GraphOK, Shape
  <2>2. CASE i = 0
    BY <1>11, <1>13, <2>2
  <2>3. CASE i # 0
    <3>1. e \in v /\ i \in 1 .. e[2]
      BY <1>5, <2>1, <2>3
    <3> QED BY <1>2, <1>5, <3>1
  <2> QED BY <2>2, <2>3
<1>16. \A t \in ThreadIds(g) \ {0} : <<t, 0>> \in K => CreateId(g, t) \in K
  BY <1>5, <1>9, <1>11
<1>17. Closed(g, K)
  BY <1>5, <1>12, <1>14, <1>15, <1>16 DEF Closed
<1> QED BY <1>3, <1>5, <1>17 DEF K, O

(* What is left at a view: its events, and the begins that are not          *)
(* orphaned.                                                                *)
KeptEvents(g, v) == Left(g, v, OrphanedBegins(g, v, v))

(* Keeping the labels of a view leaves that part of the graph. *)
LEMMA KeepLabelsShrinks ==
  ASSUME NEW p, NEW g, NEW v, NEW K, NEW stamps, GraphOK(p, g, {}), ViewOK(g, v), K = KeptEvents(g, v),
         stamps \in [K -> Nat], \A e \in K : stamps[e] < Cardinality(K),
         \A d, e \in K : stamps[d] < stamps[e] <=> Stamp(g, d) < Stamp(g, e)
  PROVE  Shrunk(g, KeepLabels(g, v, K, {}, stamps), K)
<1> DEFINE h == KeepLabels(g, v, K, {}, stamps)
           L(e) == IF g.lab[e].rf = Bottom \/ InView(v, g.lab[e].rf) THEN g.lab[e]
                   ELSE [g.lab[e] EXCEPT !.rf = Bottom]
           lin == {q \in g.lin : q[1] \in K /\ q[2] \in K}
<1>1. Closed(g, K) /\ K \subseteq Events(g) /\ v \subseteq K /\ \A e \in K : (e[2] > 0 <=> e \in v)
  BY ViewClosed DEF KeptEvents, Closed
<1>2. h = [stamp |-> stamps, lab |-> [e \in K |-> L(e)], co |-> [l \in Locs |-> Kept(g.co[l], K)], lin |-> lin]
  <2>1. K \cup {} = K
    OBVIOUS
  <2>2. [e \in K \cup {} |-> IF e \in {} THEN createHoleLabel(e) ELSE L(e)] = [e \in K |-> L(e)]
    BY <2>1
  <2> QED BY <2>2 DEF KeepLabels
<1>3. /\ DOMAIN h = DOMAIN g /\ h.stamp = stamps /\ h.lab = [e \in K |-> L(e)]
      /\ h.co = [l \in Locs |-> Kept(g.co[l], K)]
  <2> HIDE DEF L, lin
  <2> QED BY <1>2 DEF GraphOK, Shape
<1> HIDE DEF h
<1>4. Events(h) = K /\ \A e \in K : h.lab[e] = L(e)
  BY <1>3 DEF Events
<1>5. ASSUME NEW e \in K
      PROVE  /\ DOMAIN h.lab[e] = DOMAIN g.lab[e] /\ h.lab[e].typ = g.lab[e].typ /\ h.lab[e].ip = g.lab[e].ip
             /\ h.lab[e].ins = g.lab[e].ins /\ h.lab[e].val = g.lab[e].val /\ h.lab[e].createId = g.lab[e].createId
             /\ h.lab[e].prefix = g.lab[e].prefix
             /\ h.lab[e].rf = IF g.lab[e].rf \in K THEN g.lab[e].rf ELSE Bottom
  <2> DEFINE w == g.lab[e].rf
  <2>1. e \in Events(g) /\ DOMAIN g.lab[e] = LabelFields
    BY <1>1 DEF GraphOK, Shape
  <2>2. w # Bottom => (InView(v, w) <=> w \in K)
    <3> SUFFICES ASSUME w # Bottom PROVE InView(v, w) <=> w \in K
      OBVIOUS
    <3>1. w \in Events(g) /\ (w = InitEvent \/ g.lab[w].typ = "W")
      BY <2>1, StoreIsEvent
    <3>2. CASE w = InitEvent
      BY <1>1, <3>2 DEF InView, InitEvent, Closed
    <3>3. CASE g.lab[w].typ = "W"
      <4>1. w[2] # 0 /\ w[2] \in Nat
        BY <3>1, <3>3 DEF GraphOK, Kinds, Shape
      <4> QED BY <1>1, <4>1 DEF InView
    <3> QED BY <3>1, <3>2, <3>3
  <2>3. CASE w = Bottom \/ w \in K
    <3>1. h.lab[e] = g.lab[e]
      BY <1>4, <2>2, <2>3
    <3> QED BY <2>3, <3>1
  <2>4. CASE w # Bottom /\ w \notin K
    <3>1. h.lab[e] = [g.lab[e] EXCEPT !.rf = Bottom]
      BY <1>4, <2>2, <2>4
    <3> QED BY <2>1, <2>4, <3>1, LabelFieldsAre
  <2> QED BY <2>3, <2>4
<1>6. ASSUME NEW l \in Locs
      PROVE  /\ h.co[l] \in Seq(K) /\ Distinct(h.co[l]) /\ ToSet(h.co[l]) = ToSet(g.co[l]) \cap K
  <2>1. g.co[l] \in Seq(Events(g)) /\ Distinct(g.co[l])
    BY DEF GraphOK, CoherenceOK, Distinct
  <2>2. h.co[l] = Kept(g.co[l], K)
    BY <1>3
  <2>3. /\ Kept(g.co[l], K) \in Seq(Events(g) \cap K)
        /\ ToSet(Kept(g.co[l], K)) = ToSet(g.co[l]) \cap K
        /\ Distinct(Kept(g.co[l], K))
    <3> DEFINE s == g.co[l]
               q == Kept(s, K)
    <3> HIDE DEF s
    <3>1. s \in Seq(Events(g)) /\ Distinct(s)
      BY <2>1 DEF s
    <3>2. /\ q \in Seq(Events(g) \cap K)
          /\ ToSet(q) \subseteq ToSet(s) \cap K
          /\ ToSet(s) \cap K \subseteq ToSet(q)
          /\ Distinct(q)
      BY <3>1, KeptProperties
    <3> HIDE DEF q
    <3>3. ToSet(q) = ToSet(s) \cap K
      BY <3>2
    <3> QED BY <3>2, <3>3 DEF s, q
  <2>4. Events(g) \cap K = K
    BY <1>1
  <2> QED BY <2>2, <2>3, <2>4
<1>7. h.co \in [Locs -> Seq(K)]
  BY <1>3, <1>6
<1> HIDE DEF L
<1>8. Shrunk(g, h, K)
  BY <1>1, <1>3, <1>4, <1>5, <1>6, <1>7 DEF Shrunk, Stamp
<1> QED BY <1>8 DEF h

(* Stamps after a cut. *)
LEMMA RestampedKept ==
  ASSUME NEW p, NEW g, NEW K, GraphOK(p, g, {}), K \subseteq Events(g)
  PROVE  /\ Restamped(g, K) \in [K -> Nat]
         /\ \A e \in K : Restamped(g, K)[e] < Cardinality(K)
         /\ \A d, e \in K : Restamped(g, K)[d] < Restamped(g, K)[e] <=> Stamp(g, d) < Stamp(g, e)
BY RestampedProperties DEF GraphOK, Shape

(* cutToStamp() leaves the part of the graph up to a stamp. *)
LEMMA CutShrinks ==
  ASSUME NEW p, NEW g, NEW n, GraphOK(p, g, {}), ViewOK(g, getViewFromStamp(g, n))
  PROVE  Shrunk(g, cutToStamp(g, n), KeptEvents(g, getViewFromStamp(g, n)))
<1> DEFINE v == getViewFromStamp(g, n)
           K == KeptEvents(g, v)
           stamps == [e \in K |-> Restamped(g, K)[e]]
<1>1. Holes(g, v) = {} /\ K \subseteq Events(g)
  BY ViewClosed DEF KeptEvents, Closed
<1>2. v \cup {} = v
  OBVIOUS
<1> HIDE DEF v
<1>3. cutToStamp(g, n) = CutTo(g, v, {}, OrphanedBegins(g, v, v))
  BY <1>1, <1>2 DEF cutToStamp, v
<1>4. CutTo(g, v, {}, OrphanedBegins(g, v, v)) = KeepLabels(g, v, K, {}, stamps)
  <2>1. [e \in K \cup {} |-> IF e \in {} THEN Cardinality(K) + Cardinality({d \in {} : Before(d, e)})
                             ELSE Restamped(g, K)[e]] = stamps
    OBVIOUS
  <2> QED BY <2>1 DEF CutTo, KeptEvents
<1>5. stamps \in [K -> Nat] /\ \A e \in K : stamps[e] = Restamped(g, K)[e]
  <2> HIDE DEF K
  <2> QED BY <1>1, RestampedKept
<1>6. /\ \A e \in K : stamps[e] < Cardinality(K)
      /\ \A d, e \in K : stamps[d] < stamps[e] <=> Stamp(g, d) < Stamp(g, e)
  <2> HIDE DEF K, stamps
  <2> QED BY <1>1, <1>5, RestampedKept
<1> HIDE DEF K, stamps
<1>7. Shrunk(g, KeepLabels(g, v, K, {}, stamps), K)
  BY <1>5, <1>6, KeepLabelsShrinks DEF K, v
<1> QED BY <1>3, <1>4, <1>7 DEF K, v

(* getCopyUpTo() leaves the part of the graph in a view. *)
LEMMA CopyShrinks ==
  ASSUME NEW p, NEW g, NEW v, GraphOK(p, g, {}), ViewOK(g, v)
  PROVE  Shrunk(g, getCopyUpTo(g, v), KeptEvents(g, v))
<1> DEFINE K == KeptEvents(g, v)
<1>1. Holes(g, v) = {} /\ K \subseteq Events(g)
  BY ViewClosed DEF KeptEvents, Closed
<1>2. v \cup {} = v
  OBVIOUS
<1>3. getCopyUpTo(g, v) = CopyUpTo(g, v, {}, OrphanedBegins(g, v, v))
  BY <1>1, <1>2 DEF getCopyUpTo
<1>4. CopyUpTo(g, v, {}, OrphanedBegins(g, v, v)) = KeepLabels(g, v, K, {}, Restamped(g, K))
  <2>1. K \cup {} = K
    OBVIOUS
  <2>2. CopyUpTo(g, v, {}, OrphanedBegins(g, v, v)) = KeepLabels(g, v, K, {}, Restamped(g, K \cup {}))
    BY DEF CopyUpTo, KeptEvents
  <2> QED BY <2>1, <2>2
<1>5. Shrunk(g, KeepLabels(g, v, K, {}, Restamped(g, K)), K)
  <2>1. /\ Restamped(g, K) \in [K -> Nat]
        /\ \A e \in K : Restamped(g, K)[e] < Cardinality(K)
        /\ \A d, e \in K : Restamped(g, K)[d] < Restamped(g, K)[e] <=> Stamp(g, d) < Stamp(g, e)
    <3> HIDE DEF K
    <3> QED BY <1>1, RestampedKept
  <2> HIDE DEF K
  <2> QED BY <2>1, KeepLabelsShrinks DEF K
<1> QED BY <1>3, <1>4, <1>5

(* The view has the prefix of every event in it, but for last reads of      *)
(* threads that lose their store.                                           *)
PrefixView(g, v) ==
    \A e \in v : \/ g.lab[e].typ = "B"
                 \/ FullPrefix(g, e) \subseteq v
                 \/ /\ g.lab[e].typ = "R" /\ g.lab[e].rf \notin {Bottom, InitEvent}
                    /\ g.lab[e].rf \notin v /\ NextOf(e) \notin v
(* The reads that repairDanglingReads() repairs. *)
LostReads(h) == {r \in Reads(h) : h.lab[r].rf = Bottom /\ IsLast(h, r)}

(* The last event of a thread in a view is its last event in what is left. *)
LEMMA LastInView ==
  ASSUME NEW p, NEW g, NEW h, NEW v, GraphOK(p, g, {}), ViewOK(g, v), Shrunk(g, h, KeptEvents(g, v)),
         NEW e \in v, NextOf(e) \notin v
  PROVE  e \in Events(h) /\ IsLast(h, e)
<1> DEFINE K == KeptEvents(g, v)
<1>1. Closed(g, K) /\ v \subseteq K /\ \A d \in K : (d[2] > 0 <=> d \in v)
  BY ViewClosed DEF KeptEvents
<1>2. Events(h) = K /\ K \subseteq Nat \X Nat
  BY DEF Shrunk, GraphOK, Shape
<1> HIDE DEF K
<1>3. ASSUME NEW d \in K, d[1] = e[1], ~(d[2] <= e[2]) PROVE FALSE
  <2>1. d \in Nat \X Nat /\ e \in Nat \X Nat
    BY <1>1, <1>2
  <2>2. CASE d[2] = e[2] + 1
    <3>1. d = NextOf(e) /\ d[2] > 0
      BY <1>3, <2>1, <2>2 DEF NextOf
    <3> QED BY <1>1, <3>1
  <2>3. CASE d[2] # e[2] + 1
    <3>1. e[2] + 1 \in 0 .. d[2] - 1
      BY <1>3, <2>1, <2>3
    <3>2. NextOf(e) \in K
      BY <1>1, <1>3, <3>1 DEF Closed, NextOf
    <3>3. NextOf(e)[2] > 0
      BY <2>1 DEF NextOf
    <3> QED BY <1>1, <3>2, <3>3
  <2> QED BY <2>2, <2>3
<1> QED BY <1>1, <1>2, <1>3 DEF IsLast

(* What is left at such a view satisfies the invariant but for the reads to *)
(* repair.                                                                  *)
LEMMA ShrunkToView ==
  ASSUME NEW p, NEW g, NEW h, NEW v, GraphOK(p, g, {}), ViewOK(g, v), PrefixView(g, v),
         Shrunk(g, h, KeptEvents(g, v))
  PROVE  GraphOK(p, h, LostReads(h))
<1> DEFINE K == KeptEvents(g, v)
           X == LostReads(h)
<1>1. Closed(g, K) /\ K \subseteq Events(g) /\ v \subseteq K /\ \A e \in K : (e[2] > 0 <=> e \in v)
  BY ViewClosed DEF KeptEvents, Closed
<1>2. Shrunk(g, h, K)
  OBVIOUS
<1>3. \A e \in v : NextOf(e) \notin v => e \in Events(h) /\ IsLast(h, e)
  BY LastInView
<1> HIDE DEF K
<1>4. ASSUME NEW e \in K, e \notin X, g.lab[e].typ # "B" PROVE FullPrefix(g, e) \subseteq K
  <2>1. e \in Events(g) /\ e \in Nat \X Nat
    BY <1>1 DEF GraphOK, Shape
  <2>2. CASE e \in v
    <3>1. CASE FullPrefix(g, e) \subseteq v
      BY <1>1, <3>1
    <3>2. CASE /\ g.lab[e].typ = "R" /\ g.lab[e].rf \notin {Bottom, InitEvent}
               /\ g.lab[e].rf \notin v /\ NextOf(e) \notin v
      <4> DEFINE w == g.lab[e].rf
      <4>1. w \in Events(g) /\ g.lab[w].typ = "W"
        BY <2>1, <3>2, StoreIsEvent
      <4>2. w \in Nat \X Nat /\ w[2] # 0
        BY <4>1 DEF GraphOK, Shape, Kinds
      <4>3. w \notin K
        BY <1>1, <3>2, <4>2
      <4>4. h.lab[e].rf = Bottom /\ h.lab[e].typ = "R" /\ e \in Events(h) /\ IsLast(h, e)
        BY <1>2, <1>3, <2>2, <3>2, <4>3 DEF Shrunk
      <4> QED BY <1>4, <4>4 DEF LostReads, Reads, OfType
    <3> QED BY <1>4, <2>2, <3>1, <3>2 DEF PrefixView
  <2>3. CASE e \notin v
    <3>1. e[2] = 0 /\ e = <<e[1], 0>>
      BY <1>1, <2>1, <2>3
    <3>2. CASE e[1] = 0
      <4>1. \A c : c \notin UpTo(e)
        BY <2>1, <3>1, UpToMember
      <4>2. g.lab[e].prefix = {}
        BY <3>1, <3>2 DEF GraphOK, Threads, InitEvent
      <4> QED BY <4>1, <4>2 DEF FullPrefix
    <3>3. CASE e[1] # 0
      <4> DEFINE c == CreateId(g, e[1])
      <4>1. e[1] \in ThreadIds(g) \ {0} /\ e[1] > 0
        BY <2>1, <3>1, <3>3 DEF ThreadIds
      <4>2. c \in K /\ g.lab[c].typ = "TC" /\ c \in Events(g)
        BY <1>1, <3>1, <4>1 DEF Closed, GraphOK, Threads
      <4>3. c[2] # 0 /\ c[2] \in Nat
        BY <4>2 DEF GraphOK, Kinds, Shape
      <4>4. c \in v
        BY <1>1, <4>2, <4>3
      <4>5. FullPrefix(g, c) \subseteq v
        BY <4>2, <4>4 DEF PrefixView
      <4>6. FullPrefix(g, e) \subseteq FullPrefix(g, c)
        BY <1>4, <2>1, <3>1, <4>1 DEF GraphOK, PrefixesOK, PrefixOK
      <4> QED BY <1>1, <4>5, <4>6
    <3> QED BY <3>2, <3>3
  <2> QED BY <2>2, <2>3
<1> HIDE DEF X
<1>5. GraphOK(p, h, X)
  BY <1>1, <1>2, <1>4, ShrunkOK
<1> QED BY <1>5 DEF X

(* LastIndex and the last event of a thread. *)
LEMMA LastIndexIsLast ==
  ASSUME NEW p, NEW g, NEW X, GraphOK(p, g, X), NEW e \in Events(g)
  PROVE  /\ e[2] = LastIndex(g, e[1]) <=> IsLast(g, e)
         /\ LastIndex(g, e[1]) \in Nat /\ <<e[1], LastIndex(g, e[1])>> \in Events(g)
         /\ IsLast(g, <<e[1], LastIndex(g, e[1])>>)
<1> DEFINE t == e[1]
           n == LastIndex(g, t)
<1>1. t \in Nat /\ e \in Nat \X Nat /\ <<t, 0>> \in Events(g)
  BY DEF GraphOK, Shape, Threads
<1>2. n \in Nat /\ <<t, n>> \in Events(g) /\ \A d \in Events(g) : d[1] = t => d[2] <= n
  BY <1>1, ThreadIndices DEF GraphOK, Shape, PoOrder
<1> HIDE DEF n
<1>3. IsLast(g, e) => e[2] = n
  <2>1. IsLast(g, e) => n <= e[2]
    BY <1>2 DEF IsLast
  <2> QED BY <1>1, <1>2, <2>1
<1>4. e[2] = n => IsLast(g, e)
  BY <1>2 DEF IsLast
<1>5. IsLast(g, <<t, n>>)
  BY <1>2 DEF IsLast
<1> QED BY <1>2, <1>3, <1>4, <1>5 DEF n

(* The coherence-maximal store is a store of the location. *)
LEMMA CoMaxIsStore ==
  ASSUME NEW p, NEW g, NEW X, GraphOK(p, g, X), NEW e \in Events(g), g.lab[e].typ \in {"R", "W"}
  PROVE  co_max(g, Loc(g, e)) \in StoresOf(g, e)
<1> DEFINE s == g.co[Loc(g, e)]
<1>1. s \in Seq(Events(g))
  BY DEF GraphOK, Texts, Loc, CoherenceOK
<1> HIDE DEF s
<1>2. s # <<>> => Len(s) \in DOMAIN s
  BY <1>1
<1>3. s # <<>> => Last(s) \in ToSet(s)
  BY <1>2 DEF Last, ToSet
<1> QED BY <1>3 DEF co_max, StoresOf, s

(* repairDanglingReads() restores the invariant, and leaves no read without *)
(* store if only last reads had lost theirs.                                *)
LEMMA RepairOK ==
  ASSUME CheckerOK, NEW p, NEW g, GraphOK(p, g, LostReads(g))
  PROVE  LET h == repairDanglingReads(g)
         IN /\ GraphOK(p, h, {})
            /\ \E rf : Reread(g, h, rf) /\ DOMAIN rf = LostReads(g) /\ LastReads(g, rf)
            /\ (\A r \in Reads(g) : g.lab[r].ins.mo # "na" => g.lab[r].rf # Bottom \/ IsLast(g, r)) => NoDangling(h)
<1> DEFINE lost == LostReads(g)
           rf == [r \in lost |-> co_max(g, Loc(g, r))]
           h == repairDanglingReads(g)
<1>1. lost = {r \in Reads(g) : g.lab[r].rf = Bottom /\ r[2] = LastIndex(g, r[1])}
  <2>1. \A r \in Reads(g) : IsLast(g, r) <=> r[2] = LastIndex(g, r[1])
    BY LastIndexIsLast DEF Reads, OfType
  <2> QED BY <2>1 DEF LostReads
<1>2. h = ReadMaximally(g, rf)
  <2> HIDE DEF lost
  <2> QED BY <1>1 DEF repairDanglingReads
<1>3. DOMAIN rf = lost
  OBVIOUS
<1>4. LastReads(g, rf)
  <2>1. \A r \in lost : r \in Reads(g) /\ IsLast(g, r) /\ r \in Events(g) /\ g.lab[r].typ = "R"
    BY DEF LostReads, Reads, OfType
  <2>2. \A r \in lost : co_max(g, Loc(g, r)) \in StoresOf(g, r)
    BY <2>1, CoMaxIsStore
  <2> HIDE DEF lost
  <2> QED BY <2>1, <2>2 DEF LastReads
<1> HIDE DEF rf
<1>5. Reread(g, h, rf) /\ GraphOK(p, h, {})
  BY <1>2, <1>3, <1>4, ReadMaximallyRereads, ReadMaximallyOK
<1> HIDE DEF h
<1>6. ASSUME \A r \in Reads(g) : g.lab[r].ins.mo # "na" => g.lab[r].rf # Bottom \/ IsLast(g, r),
             NEW r \in Reads(h), h.lab[r].ins.mo # "na"
      PROVE  h.lab[r].rf # Bottom
  <2>1. r \in Reads(g) /\ r \in Events(g) /\ g.lab[r].ins.mo # "na"
    BY <1>5, <1>6 DEF Reread, SameText, Reads, OfType
  <2>2. CASE r \in lost
    <3>1. h.lab[r].rf = rf[r] /\ rf[r] # Bottom
      <4>1. r \in DOMAIN rf
        BY <1>3, <2>2
      <4>2. h.lab[r].rf = rf[r]
        BY <1>5, <4>1 DEF Reread
      <4>3. rf[r] # Bottom
        <5>1. r \in Events(g) /\ rf[r] \in StoresOf(g, r)
          BY <1>4, <2>1, <4>1 DEF LastReads
        <5>2. g.lab[r].typ = "R"
          BY <2>1 DEF Reads, OfType
        <5> QED BY <5>1, <5>2, StoresAre
      <4> QED BY <4>2, <4>3
    <3> QED BY <3>1
  <2>3. CASE r \notin lost
    <3>1. g.lab[r].rf # Bottom
      BY <1>6, <2>1, <2>3 DEF LostReads
    <3> QED BY <1>3, <1>5, <2>1, <2>3, <3>1 DEF Reread
  <2> QED BY <2>2, <2>3
<1> QED BY <1>3, <1>4, <1>5, <1>6 DEF NoDangling, h

(* Stamps go up in program order and from a creation to the thread. *)
LEMMA StampFacts ==
  ASSUME NEW p, NEW g, NEW X, GraphOK(p, g, X)
  PROVE  /\ \A e \in Events(g) : Stamp(g, e) \in Nat
         /\ \A e \in Events(g) : \A c \in UpTo(e) : c \in Events(g) /\ c[2] > 0 /\ Stamp(g, c) <= Stamp(g, e)
         /\ \A e \in Events(g) : e[1] > 0 =>
               /\ CreateId(g, e[1]) \in Events(g) /\ CreateId(g, e[1])[2] > 0
               /\ e[2] > 0 => Stamp(g, CreateId(g, e[1])) < Stamp(g, e)
<1>1. \A e \in Events(g) : Stamp(g, e) \in Nat /\ e \in Nat \X Nat
  BY DEF GraphOK, Stamps, Stamp, Shape
<1>2. ASSUME NEW e \in Events(g), NEW c \in UpTo(e) PROVE c \in Events(g) /\ c[2] > 0 /\ Stamp(g, c) <= Stamp(g, e)
  <2>1. c \in Nat \X Nat /\ c[1] = e[1] /\ c[2] > 0 /\ c[2] <= e[2]
    BY <1>1, UpToMember
  <2>2. CASE c = e
    BY <1>1, <2>1, <2>2
  <2>3. CASE c # e
    <3>1. c = <<e[1], c[2]>> /\ c[2] \in 0 .. e[2] - 1
      BY <1>1, <2>1, <2>3
    <3>2. c \in Events(g) /\ Stamp(g, c) < Stamp(g, e)
      BY <3>1 DEF GraphOK, PoOrder
    <3> QED BY <1>1, <2>1, <3>2
  <2> QED BY <2>2, <2>3
<1>3. ASSUME NEW e \in Events(g), e[1] > 0
      PROVE  /\ CreateId(g, e[1]) \in Events(g) /\ CreateId(g, e[1])[2] > 0
             /\ e[2] > 0 => Stamp(g, CreateId(g, e[1])) < Stamp(g, e)
  <2> DEFINE t == e[1]
             c == CreateId(g, t)
             b == <<t, 0>>
  <2>1. b \in Events(g) /\ t \in Nat /\ t # 0
    BY <1>1, <1>3 DEF GraphOK, Threads
  <2>2. t \in ThreadIds(g) \ {0}
    BY <2>1 DEF ThreadIds
  <2>3. c \in Events(g) /\ g.lab[c].typ = "TC" /\ Stamp(g, c) < Stamp(g, b)
    BY <2>2 DEF GraphOK, Threads
  <2>4. c[2] > 0
    <3>1. c[2] # 0
      BY <2>3 DEF GraphOK, Kinds
    <3> QED BY <1>1, <2>3, <3>1
  <2>5. e[2] > 0 => Stamp(g, b) < Stamp(g, e)
    <3>1. e[2] > 0 => 0 \in 0 .. e[2] - 1
      BY <1>1
    <3> QED BY <3>1 DEF GraphOK, PoOrder
  <2> HIDE DEF c, b
  <2>6. Stamp(g, c) \in Nat /\ Stamp(g, b) \in Nat /\ Stamp(g, e) \in Nat
    BY <1>1, <2>1, <2>3
  <2> QED BY <2>3, <2>4, <2>5, <2>6 DEF c
<1> QED BY <1>1, <1>2, <1>3

(* Only last reads lose their store. *)
Lossless(g, v) ==
    \A e \in v : g.lab[e].typ = "R" /\ g.lab[e].ins.mo # "na" /\ g.lab[e].rf \notin {Bottom, InitEvent} =>
        g.lab[e].rf \in v \/ NextOf(e) \notin v

(* A cut at a stamp loses a read's store only if the read is last in its    *)
(* thread: what follows a read is younger than its store.                   *)
LEMMA StampView ==
  ASSUME NEW p, NEW g, NEW n \in Nat, GraphOK(p, g, {})
  PROVE  /\ ViewOK(g, getViewFromStamp(g, n)) /\ PrefixView(g, getViewFromStamp(g, n))
         /\ Lossless(g, getViewFromStamp(g, n))
<1> DEFINE v == getViewFromStamp(g, n)
<1>1. \A e : e \in v <=> e \in Events(g) /\ e[2] > 0 /\ Stamp(g, e) <= n
  BY DEF getViewFromStamp
<1> HIDE DEF v
<1>2. /\ \A e \in Events(g) : Stamp(g, e) \in Nat /\ e \in Nat \X Nat
      /\ \A e \in Events(g) : \A c \in UpTo(e) : c \in Events(g) /\ c[2] > 0 /\ Stamp(g, c) <= Stamp(g, e)
      /\ \A e \in Events(g) : e[1] > 0 =>
            /\ CreateId(g, e[1]) \in Events(g) /\ CreateId(g, e[1])[2] > 0
            /\ e[2] > 0 => Stamp(g, CreateId(g, e[1])) < Stamp(g, e)
  <2>1. \A e \in Events(g) : e \in Nat \X Nat
    BY DEF GraphOK, Shape
  <2> QED BY <2>1, StampFacts
<1>3. ASSUME NEW e \in v PROVE UpTo(e) \subseteq v
  <2>1. ASSUME NEW c \in UpTo(e) PROVE c \in v
    <3>1. e \in Events(g) /\ Stamp(g, e) <= n
      BY <1>1
    <3>2. c \in Events(g) /\ c[2] > 0 /\ Stamp(g, c) <= Stamp(g, e) /\ Stamp(g, c) \in Nat /\ Stamp(g, e) \in Nat
      BY <1>2, <3>1
    <3> QED BY <1>1, <3>1, <3>2
  <2> QED BY <2>1
<1>4. ASSUME NEW e \in v, e[1] > 0 PROVE CreateId(g, e[1]) \in v
  <2> DEFINE c == CreateId(g, e[1])
  <2>1. e \in Events(g) /\ e[2] > 0 /\ Stamp(g, e) <= n
    BY <1>1
  <2>2. c \in Events(g) /\ c[2] > 0 /\ Stamp(g, c) < Stamp(g, e)
    BY <1>2, <1>4, <2>1
  <2>3. Stamp(g, c) \in Nat /\ Stamp(g, e) \in Nat
    BY <1>2, <2>1, <2>2
  <2>4. Stamp(g, c) <= n
    BY <2>1, <2>2, <2>3
  <2> QED BY <1>1, <2>2, <2>4
<1>5. ViewOK(g, v)
  BY <1>1, <1>3, <1>4 DEF ViewOK
<1>6. ASSUME NEW e \in v, g.lab[e].typ = "R", g.lab[e].rf \notin {Bottom, InitEvent}, g.lab[e].rf \notin v
      PROVE  NextOf(e) \notin v
  <2> DEFINE w == g.lab[e].rf
             f == NextOf(e)
  <2>1. e \in Events(g) /\ e \in Reads(g) /\ e \in Nat \X Nat
    BY <1>1, <1>2, <1>6 DEF Reads, OfType
  <2>2. w \in Events(g) /\ g.lab[w].typ = "W"
    BY <1>6, <2>1, StoreIsEvent
  <2>3. w[2] # 0 /\ w \in Nat \X Nat
    BY <1>2, <2>2 DEF GraphOK, Kinds
  <2>4. ~(Stamp(g, w) <= n)
    BY <1>1, <1>6, <2>2, <2>3
  <2>5. f[1] = e[1] /\ f[2] > e[2]
    BY <2>1 DEF NextOf
  <2>6. f \in Events(g) => Stamp(g, w) < Stamp(g, f)
    BY <1>6, <2>1, <2>5 DEF GraphOK, StoreFirst
  <2> HIDE DEF w, f
  <2>7. f \in Events(g) => ~(Stamp(g, f) <= n)
    BY <1>2, <2>2, <2>4, <2>6
  <2> QED BY <1>1, <2>7 DEF f
<1>7. Lossless(g, v)
  BY <1>6 DEF Lossless
<1>8. ASSUME NEW e \in v, g.lab[e].typ # "B", NEW c \in FullPrefix(g, e), c \notin v
      PROVE  g.lab[e].typ = "R" /\ g.lab[e].rf \notin {Bottom, InitEvent} /\ g.lab[e].rf \notin v
  <2> DEFINE w == g.lab[e].rf
  <2>1. e \in Events(g) /\ Stamp(g, e) <= n
    BY <1>1
  <2>2. PrefixOK(g, e)
    BY <1>8, <2>1 DEF GraphOK, PrefixesOK
  <2>3. c \in Events(g) /\ c[2] > 0
    BY <2>2 DEF PrefixOK
  <2>4. ~(Stamp(g, c) <= n)
    BY <1>1, <1>8, <2>3
  <2>5. ~(Stamp(g, c) <= Stamp(g, e))
    <3>1. Stamp(g, c) \in Nat /\ Stamp(g, e) \in Nat
      BY <1>2, <2>1, <2>3
    <3> QED BY <2>1, <2>4, <3>1
  <2>6. w \notin {Bottom, InitEvent} /\ c \in FullPrefix(g, w)
    BY <2>2, <2>5 DEF PrefixOK
  <2>7. w \in Events(g) /\ g.lab[e].typ = "R" /\ g.lab[w].typ = "W"
    BY <2>1, <2>6, StoreIsEvent
  <2>8. PrefixOK(g, w) /\ g.lab[w].rf = Bottom
    BY <2>7 DEF GraphOK, PrefixesOK, ReadsFrom
  <2>9. Stamp(g, c) <= Stamp(g, w)
    BY <2>6, <2>8 DEF PrefixOK
  <2> HIDE DEF w
  <2>10. w \in v => Stamp(g, w) <= n
    BY <1>1
  <2>11. w \notin v
    BY <1>2, <2>3, <2>4, <2>7, <2>9, <2>10
  <2> QED BY <2>6, <2>7, <2>11 DEF w
<1>9. PrefixView(g, v)
  BY <1>6, <1>8 DEF PrefixView
<1> QED BY <1>5, <1>7, <1>9 DEF v

(* The view of a backward revisit, the events up to the read and the prefix *)
(* of the write, is such a view too.                                        *)
LEMMA RevisitView ==
  ASSUME ~DepTracking, NEW p, NEW g, GraphOK(p, g, {}), NEW r \in Events(g), r[2] > 0,
         NEW s \in Events(g), g.lab[s].typ = "W", r \notin FullPrefix(g, s)
  PROVE  LET v == getRevisitView(g, r, s)
         IN /\ ViewOK(g, v) /\ PrefixView(g, v)
            /\ Lossless(g, v)
            /\ r \in v /\ s \in v /\ NextOf(r) \notin v
<1> DEFINE n == Stamp(g, r)
           a == getViewFromStamp(g, n)
           P == FullPrefix(g, s)
           v == getRevisitView(g, r, s)
<1>1. P = g.lab[s].prefix
  BY DEF GraphOK, PrefixesOK, FullPrefix
<1>2. v = a \cup P
  BY <1>1 DEF getRevisitView, updatePredsWithPrefixView, getPrefixView
<1>3. n \in Nat
  BY StampFacts
<1>4. \A e : e \in a <=> e \in Events(g) /\ e[2] > 0 /\ Stamp(g, e) <= n
  BY DEF getViewFromStamp
<1>5. ViewOK(g, a) /\ PrefixView(g, a) /\ Lossless(g, a)
  BY <1>3, StampView
<1> HIDE DEF n, a, v
<1>6. PrefixOK(g, s)
  BY DEF GraphOK, PrefixesOK
<1>7. ASSUME NEW e \in P PROVE /\ e \in Events(g) /\ e[2] > 0 /\ g.lab[e].typ # "B" /\ FullPrefix(g, e) \subseteq P
                               /\ PrefixOK(g, e)
  <2>1. e \in Events(g) /\ e[2] > 0 /\ g.lab[e].typ # "B" /\ FullPrefix(g, e) \subseteq P
    BY <1>6 DEF PrefixOK
  <2> QED BY <2>1 DEF GraphOK, PrefixesOK
<1> HIDE DEF P
<1>8. ViewOK(g, v)
  <2>1. ASSUME NEW e \in P PROVE UpTo(e) \subseteq P /\ (e[1] > 0 => CreateId(g, e[1]) \in P)
    BY <1>7 DEF PrefixOK, FullPrefix
  <2> QED BY <1>2, <1>5, <1>7, <2>1 DEF ViewOK
<1>9. ASSUME NEW e, e \in Events(g), NextOf(e) \in P, e[2] > 0 PROVE e \in P
  <2>1. e \in Nat \X Nat /\ NextOf(e) \in Nat \X Nat
    BY <1>9 DEF GraphOK, Shape, NextOf
  <2>2. e[1] = NextOf(e)[1] /\ e[2] <= NextOf(e)[2]
    BY <2>1 DEF NextOf
  <2>3. e \in UpTo(NextOf(e))
    BY <1>9, <2>1, <2>2, UpToMember
  <2> QED BY <1>7, <1>9, <2>3 DEF FullPrefix
<1>10. PrefixView(g, v)
  <2> SUFFICES ASSUME NEW e \in v, g.lab[e].typ # "B", ~(FullPrefix(g, e) \subseteq v)
               PROVE  /\ g.lab[e].typ = "R" /\ g.lab[e].rf \notin {Bottom, InitEvent}
                      /\ g.lab[e].rf \notin v /\ NextOf(e) \notin v
    BY DEF PrefixView
  <2>1. e \notin P /\ e \in a
    BY <1>2, <1>7
  <2>2. /\ g.lab[e].typ = "R" /\ g.lab[e].rf \notin {Bottom, InitEvent}
        /\ g.lab[e].rf \notin a /\ NextOf(e) \notin a
    BY <1>2, <1>5, <2>1 DEF PrefixView
  <2>3. NextOf(e) \notin P
    BY <1>4, <1>9, <2>1
  <2>4. ASSUME g.lab[e].rf \in P PROVE FALSE
    <3> DEFINE w == g.lab[e].rf
    <3>1. FullPrefix(g, w) \subseteq P
      BY <1>7, <2>4
    <3>2. PICK c \in FullPrefix(g, e) : c \notin v
      OBVIOUS
    <3>3. e \in Events(g) /\ e[2] > 0 /\ Stamp(g, e) <= n
      BY <1>4, <2>1
    <3>4. PrefixOK(g, e)
      BY <3>3 DEF GraphOK, PrefixesOK
    <3>5. c \in Events(g) /\ c[2] > 0 /\ (Stamp(g, c) <= Stamp(g, e) \/ c \in FullPrefix(g, w))
      BY <3>4 DEF PrefixOK
    <3>6. Stamp(g, c) \in Nat /\ Stamp(g, e) \in Nat
      BY <3>3, <3>5, StampFacts
    <3>7. Stamp(g, c) <= Stamp(g, e) => c \in a
      BY <1>3, <1>4, <3>3, <3>5, <3>6
    <3> QED BY <1>2, <3>1, <3>2, <3>5, <3>7
  <2> QED BY <1>2, <2>2, <2>3, <2>4
<1>11. Lossless(g, v)
  <2> SUFFICES ASSUME NEW e \in v, g.lab[e].typ = "R", g.lab[e].ins.mo # "na", g.lab[e].rf \notin {Bottom, InitEvent},
                      g.lab[e].rf \notin v, NextOf(e) \in v
               PROVE  FALSE
    BY DEF Lossless
  <2>1. e \in Events(g) /\ e[2] > 0
    BY <1>8 DEF ViewOK
  <2>2. e \notin P
    <3>1. PrefixOK(g, e)
      BY <2>1 DEF GraphOK, PrefixesOK
    <3>2. g.lab[e].rf \in FullPrefix(g, e)
      BY <3>1 DEF PrefixOK
    <3> QED BY <1>2, <1>7, <3>2
  <2>3. NextOf(e) \notin P
    BY <1>9, <2>1, <2>2
  <2> QED BY <1>2, <1>5, <2>2, <2>3 DEF Lossless
<1>12. r \in v /\ s \in v
  <2>1. r \in a
    BY <1>3, <1>4 DEF n
  <2>2. s \in Nat \X Nat /\ s[2] # 0
    BY DEF GraphOK, Shape, Kinds
  <2>3. s \in UpTo(s)
    BY <2>2, UpToMember
  <2> QED BY <1>2, <2>1, <2>3 DEF P, FullPrefix
<1>13. NextOf(r) \notin v
  <2>1. NextOf(r) \notin P
    BY <1>9 DEF P
  <2>2. ASSUME NextOf(r) \in a PROVE FALSE
    <3> DEFINE f == NextOf(r)
    <3>1. f \in Events(g) /\ Stamp(g, f) <= n
      BY <1>4, <2>2
    <3>2. r \in Nat \X Nat /\ r = <<f[1], r[2]>> /\ r[2] \in 0 .. f[2] - 1
      BY DEF GraphOK, Shape, NextOf
    <3>3. Stamp(g, r) < Stamp(g, f)
      BY <3>1, <3>2 DEF GraphOK, PoOrder
    <3> HIDE DEF f
    <3>4. Stamp(g, f) \in Nat
      BY <3>1, StampFacts
    <3> QED BY <1>3, <3>1, <3>3, <3>4 DEF n
  <2> QED BY <1>2, <2>1, <2>2
<1> QED BY <1>8, <1>10, <1>11, <1>12, <1>13 DEF v

===============================================================================
