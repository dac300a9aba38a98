----------------------------- MODULE AtomicGraphs -----------------------------
(***************************************************************************)
(* Coherence as an order, and what becomes of RMWs and of the stores that  *)
(* they read when a graph changes: a label is added, a read is redirected, *)
(* a store is placed (addCo) or moved (moveCo), the graph is cut or copied,*)
(* the write of an RMW is added (completeRevisitedRMW).  Two RMWs that read*)
(* the same store are in conflict; findPendingRMW finds it, and only the   *)
(* write that was added last can be in one.                                *)
(***************************************************************************)
EXTENDS WholeProofs

(*************************** The order of coherence ************************)

(* The place of a store in a coherence sequence; the initializer's is 0. *)
Place(s, a) == IF a = InitEvent THEN 0 ELSE CHOOSE i \in DOMAIN s : s[i] = a

(* A coherence sequence: each store once, without the initializer. *)
IsCo(s) == s \in Seq(ToSet(s)) /\ Distinct(s) /\ InitEvent \notin ToSet(s)

(* The place of a store that is in the sequence. *)
LEMMA PlaceIn ==
  ASSUME NEW s, IsCo(s)
  PROVE  /\ Len(s) \in Nat /\ DOMAIN s = 1 .. Len(s)
         /\ \A i \in 1 .. Len(s) : s[i] \in ToSet(s) /\ Place(s, s[i]) = i
         /\ \A a \in ToSet(s) : a # InitEvent /\ Place(s, a) \in 1 .. Len(s) /\ s[Place(s, a)] = a
         /\ Place(s, InitEvent) = 0
<1>1. Len(s) \in Nat /\ DOMAIN s = 1 .. Len(s)
  BY DEF IsCo
<1>2. ASSUME NEW i \in DOMAIN s PROVE s[i] \in ToSet(s) /\ Place(s, s[i]) = i
  <2>1. s[i] \in ToSet(s) /\ s[i] # InitEvent
    BY DEF IsCo, ToSet
  <2> DEFINE k == CHOOSE j \in DOMAIN s : s[j] = s[i]
  <2>2. k \in DOMAIN s /\ s[k] = s[i]
    OBVIOUS
  <2>3. k = i
    <3> HIDE DEF k
    <3> QED BY <2>2 DEF IsCo, Distinct
  <2> QED BY <2>1, <2>3 DEF Place
<1>3. ASSUME NEW a \in ToSet(s)
      PROVE  a # InitEvent /\ Place(s, a) \in DOMAIN s /\ s[Place(s, a)] = a
  <2>1. PICK i \in DOMAIN s : s[i] = a
    BY DEF ToSet
  <2> QED BY <1>2, <2>1 DEF IsCo
<1>4. Place(s, InitEvent) = 0
  BY DEF Place
<1> QED BY <1>1, <1>2, <1>3, <1>4

(* What comes before what is a matter of places. *)
LEMMA PrecedesIs ==
  ASSUME NEW s, IsCo(s), NEW a, NEW b
  PROVE  Precedes(s, a, b) <=> /\ a \in {InitEvent} \cup ToSet(s) /\ b \in ToSet(s)
                               /\ Place(s, a) < Place(s, b)
<1>1. CASE a = InitEvent
  <2>1. b \in ToSet(s) => 0 < Place(s, b)
    BY PlaceIn
  <2>2. Place(s, a) = 0
    BY <1>1, PlaceIn
  <2> QED BY <1>1, <2>1, <2>2 DEF Precedes
<1>2. CASE a # InitEvent
  <2>1. ASSUME NEW i \in DOMAIN s, NEW j \in DOMAIN s, i < j, s[i] = a, s[j] = b
        PROVE  a \in ToSet(s) /\ b \in ToSet(s) /\ Place(s, a) < Place(s, b)
    <3>1. Place(s, a) = i /\ Place(s, b) = j
      BY <2>1, PlaceIn
    <3>2. a \in ToSet(s) /\ b \in ToSet(s)
      BY <2>1, PlaceIn
    <3> QED BY <2>1, <3>1, <3>2
  <2>2. ASSUME a \in ToSet(s), b \in ToSet(s), Place(s, a) < Place(s, b)
        PROVE  \E i, j \in DOMAIN s : i < j /\ s[i] = a /\ s[j] = b
    <3>1. Place(s, a) \in DOMAIN s /\ Place(s, b) \in DOMAIN s
          /\ s[Place(s, a)] = a /\ s[Place(s, b)] = b
      BY <2>2, PlaceIn
    <3> QED BY <2>2, <3>1
  <2> QED BY <1>2, <2>1, <2>2 DEF Precedes
<1> QED BY <1>1, <1>2

(* Coherence is a strict total order. *)
CoOrder(s) ==
    /\ \A a, b : Precedes(s, a, b) => a \in {InitEvent} \cup ToSet(s) /\ b \in ToSet(s) /\ ~Precedes(s, b, a) /\ a # b
    /\ \A a, b, c : Precedes(s, a, b) /\ Precedes(s, b, c) => Precedes(s, a, c)
    /\ \A a, b \in {InitEvent} \cup ToSet(s) : a # b => Precedes(s, a, b) \/ Precedes(s, b, a)

(* A coherence sequence is such an order, the initializer first. *)
LEMMA IsOrder ==
  ASSUME NEW s, IsCo(s)
  PROVE  CoOrder(s)
<1>1. \A a \in {InitEvent} \cup ToSet(s) : Place(s, a) \in Nat
  BY PlaceIn
<1>2. ASSUME NEW a \in {InitEvent} \cup ToSet(s), NEW b \in {InitEvent} \cup ToSet(s), Place(s, a) = Place(s, b)
      PROVE  a = b
  BY <1>2, PlaceIn
<1>3. ASSUME NEW a, NEW b, Precedes(s, a, b)
      PROVE  a \in {InitEvent} \cup ToSet(s) /\ b \in ToSet(s) /\ ~Precedes(s, b, a) /\ a # b
  <2>1. a \in {InitEvent} \cup ToSet(s) /\ b \in ToSet(s) /\ Place(s, a) < Place(s, b)
    BY <1>3, PrecedesIs
  <2>2. Place(s, a) \in Nat /\ Place(s, b) \in Nat
    BY <1>1, <2>1
  <2>3. ~(Place(s, b) < Place(s, a)) /\ Place(s, a) # Place(s, b)
    BY <2>1, <2>2
  <2> QED BY <2>1, <2>3, PrecedesIs
<1>4. ASSUME NEW a, NEW b, NEW c, Precedes(s, a, b), Precedes(s, b, c)
      PROVE  Precedes(s, a, c)
  <2>1. /\ a \in {InitEvent} \cup ToSet(s) /\ b \in ToSet(s) /\ Place(s, a) < Place(s, b)
        /\ c \in ToSet(s) /\ Place(s, b) < Place(s, c)
    BY <1>4, PrecedesIs
  <2>2. Place(s, a) \in Nat /\ Place(s, b) \in Nat /\ Place(s, c) \in Nat
    BY <1>1, <2>1
  <2>3. Place(s, a) < Place(s, c)
    BY <2>1, <2>2
  <2> QED BY <2>1, <2>3, PrecedesIs
<1>5. ASSUME NEW a \in {InitEvent} \cup ToSet(s), NEW b \in {InitEvent} \cup ToSet(s), a # b
      PROVE  Precedes(s, a, b) \/ Precedes(s, b, a)
  <2>1. Place(s, a) \in Nat /\ Place(s, b) \in Nat /\ Place(s, a) # Place(s, b)
    BY <1>1, <1>2, <1>5
  <2>2. Place(s, a) < Place(s, b) \/ Place(s, b) < Place(s, a)
    BY <2>1
  <2>3. a = InitEvent => ~(Place(s, b) < Place(s, a))
    BY <2>1, PlaceIn
  <2>4. b = InitEvent => ~(Place(s, a) < Place(s, b))
    BY <2>1, PlaceIn
  <2> QED BY <2>2, <2>3, <2>4, PrecedesIs
<1> QED BY <1>3, <1>4, <1>5 DEF CoOrder

(* The elements of a concatenation. *)
LEMMA ConcatIs ==
  ASSUME NEW R, NEW u \in Seq(R), NEW v \in Seq(R), NEW q, q = u \o v
  PROVE  /\ q \in Seq(R) /\ Len(q) = Len(u) + Len(v)
         /\ \A i \in 1 .. Len(u) : q[i] = u[i]
         /\ \A i \in 1 .. Len(v) : q[Len(u) + i] = v[i]
OBVIOUS

(* The elements of a part of a sequence. *)
LEMMA SubSeqIs ==
  ASSUME NEW R, NEW s \in Seq(R), NEW k \in 0 .. Len(s)
  PROVE  /\ SubSeq(s, k + 1, Len(s)) \in Seq(R) /\ Len(SubSeq(s, k + 1, Len(s))) = Len(s) - k
         /\ \A i \in 1 .. Len(s) - k : SubSeq(s, k + 1, Len(s))[i] = s[k + i]
OBVIOUS

(* Keeping some stores keeps their order. *)
LEMMA KeptOrder ==
  ASSUME NEW s, IsCo(s), NEW T
  PROVE  /\ IsCo(Kept(s, T)) /\ ToSet(Kept(s, T)) = ToSet(s) \cap T
         /\ \A a, b : a \in {InitEvent} \cup T /\ b \in T => (Precedes(Kept(s, T), a, b) <=> Precedes(s, a, b))
<1> DEFINE I == {i \in DOMAIN s : s[i] \in T}
           key == [i \in I |-> i]
           n == Cardinality(I)
           at(k) == CHOOSE i \in I : Cardinality({j \in I : j < i}) = k - 1
           q == Kept(s, T)
<1>1. Len(s) \in Nat /\ DOMAIN s = 1 .. Len(s) /\ s \in Seq(ToSet(s))
  BY DEF IsCo
<1>2. I \subseteq 1 .. Len(s)
  BY <1>1
<1>3. IsFiniteSet(I) /\ n \in Nat
  <2>1. IsFiniteSet(1 .. Len(s))
    BY <1>1, FS_Interval
  <2>2. IsFiniteSet(I)
    <3> HIDE DEF I
    <3> QED BY <1>2, <2>1, FS_Subset
  <2> HIDE DEF I
  <2> QED BY <2>2, FS_CardinalityType
<1>4. key \in [I -> Nat] /\ \A d, e \in I : key[d] = key[e] => d = e
  BY <1>1, <1>2
<1>5. ASSUME NEW i \in I PROVE Rank(I, key, i) = Cardinality({j \in I : j < i}) /\ key[i] = i
  <2>1. {j \in I : key[j] < key[i]} = {j \in I : j < i}
    OBVIOUS
  <2> QED BY <2>1 DEF Rank
<1> HIDE DEF key
<1>6. ASSUME NEW k \in 1 .. n PROVE at(k) \in I /\ Rank(I, key, at(k)) = k - 1
  <2>2. \E i \in I : Rank(I, key, i) = k - 1
    <3> HIDE DEF I
    <3> QED BY <1>3, <1>4, RankOnto
  <2>3. \E i \in I : Cardinality({j \in I : j < i}) = k - 1
    <3> HIDE DEF I
    <3> QED BY <1>5, <2>2
  <2>4. at(k) \in I /\ Cardinality({j \in I : j < at(k)}) = k - 1
    <3> HIDE DEF I
    <3> QED BY <2>3
  <2> HIDE DEF at, I
  <2> QED BY <1>5, <2>4
<1>7. q = [k \in 1 .. n |-> s[at(k)]]
  BY DEF Kept
<1>8. \A i, j \in I : j <= i => Rank(I, key, j) <= Rank(I, key, i)
  <2>1. \A i, j \in I : key[j] <= key[i] => Rank(I, key, j) <= Rank(I, key, i)
    <3> HIDE DEF I
    <3> QED BY <1>3, <1>4, RankOrder
  <2> HIDE DEF I
  <2> QED BY <1>5, <2>1
<1>9. ASSUME NEW k \in 1 .. n, NEW m \in 1 .. n, k < m PROVE at(k) < at(m)
  <2>1. at(k) \in I /\ at(m) \in I /\ Rank(I, key, at(k)) = k - 1 /\ Rank(I, key, at(m)) = m - 1
    BY <1>6
  <2>2. at(k) \in Nat /\ at(m) \in Nat
    <3> HIDE DEF at
    <3> QED BY <1>1, <1>2, <2>1
  <2>3. ~(at(m) <= at(k))
    <3> HIDE DEF at, I
    <3>1. at(m) <= at(k) => m - 1 <= k - 1
      BY <1>8, <2>1
    <3> QED BY <1>3, <1>9, <3>1
  <2> HIDE DEF at, I
  <2> QED BY <2>2, <2>3
<1>10. /\ q \in Seq(ToSet(s) \cap T)
       /\ ToSet(q) = ToSet(s) \cap T
       /\ Distinct(q)
  <2>1. Kept(s, T) \in Seq(ToSet(s) \cap T)
    BY <1>1, KeptProperties
  <2>2. ToSet(Kept(s, T)) \subseteq ToSet(s) \cap T /\ ToSet(s) \cap T \subseteq ToSet(Kept(s, T))
    BY <1>1, KeptProperties
  <2>3. Distinct(s) => Distinct(Kept(s, T))
    BY <1>1, KeptProperties
  <2> QED BY <2>1, <2>2, <2>3 DEF IsCo
<1>11. IsCo(q)
  <2> HIDE DEF q
  <2> QED BY <1>10 DEF IsCo
<1>12. DOMAIN q = 1 .. n /\ \A k \in 1 .. n : at(k) \in DOMAIN s /\ q[k] = s[at(k)]
  BY <1>6, <1>7
<1> HIDE DEF at, q
<1>13. ASSUME NEW a \in T, NEW b \in T, a # InitEvent, Precedes(q, a, b) PROVE Precedes(s, a, b)
  <2>1. PICK i, j \in DOMAIN q : i < j /\ q[i] = a /\ q[j] = b
    BY <1>13 DEF Precedes
  <2>2. at(i) < at(j) /\ at(i) \in DOMAIN s /\ at(j) \in DOMAIN s /\ s[at(i)] = a /\ s[at(j)] = b
    BY <1>9, <1>12, <2>1
  <2> QED BY <1>13, <2>2 DEF Precedes
<1>14. ASSUME NEW a \in T, NEW b \in T, a # InitEvent, Precedes(s, a, b) PROVE Precedes(q, a, b)
  <2>1. a \in ToSet(s) /\ b \in ToSet(s) /\ a # b /\ ~Precedes(s, b, a)
    BY <1>14, IsOrder DEF CoOrder
  <2>2. a \in ToSet(q) /\ b \in ToSet(q) /\ b # InitEvent
    BY <1>10, <2>1 DEF IsCo
  <2>3. Precedes(q, a, b) \/ Precedes(q, b, a)
    BY <1>11, <2>1, <2>2, IsOrder DEF CoOrder
  <2> QED BY <1>13, <2>1, <2>2, <2>3
<1>15. ASSUME NEW b \in T PROVE Precedes(q, InitEvent, b) <=> Precedes(s, InitEvent, b)
  BY <1>10 DEF Precedes
<1> QED BY <1>10, <1>11, <1>13, <1>14, <1>15 DEF q

(* Inserting a store right after another one. *)
LEMMA InsertOrder ==
  ASSUME NEW s, IsCo(s), NEW k \in 0 .. Len(s), NEW pred, pred = IF k = 0 THEN InitEvent ELSE s[k],
         NEW w, w \notin ToSet(s), w # InitEvent
  PROVE  LET q == InsertAt(s, k + 1, w)
         IN /\ IsCo(q) /\ ToSet(q) = ToSet(s) \cup {w}
            /\ \A a, b : a # w /\ b # w => (Precedes(q, a, b) <=> Precedes(s, a, b))
            /\ \A a : a # w => (Precedes(q, a, w) <=> a = pred \/ Precedes(s, a, pred))
            /\ \A b : b # w => (Precedes(q, w, b) <=> Precedes(s, pred, b))
<1> DEFINE q == InsertAt(s, k + 1, w)
           R == ToSet(s) \cup {w}
<1>1. Len(s) \in Nat /\ DOMAIN s = 1 .. Len(s) /\ s \in Seq(ToSet(s)) /\ s \in Seq(R) /\ Distinct(s)
  BY DEF IsCo
<1>2. q \in Seq(R) /\ ToSet(q) = ToSet(s) \cup {w} /\ Distinct(q)
  <2> HIDE DEF R
  <2>1. w \in R
    BY DEF R
  <2>2. InsertAt(s, k + 1, w) \in Seq(R)
    BY <1>1, <2>1, InsertAtProperties
  <2>3. ToSet(InsertAt(s, k + 1, w)) = ToSet(s) \cup {w}
    BY <1>1, <2>1, InsertAtProperties
  <2>4. Distinct(InsertAt(s, k + 1, w))
    BY <1>1, <2>1, InsertAtProperties
  <2> QED BY <2>2, <2>3, <2>4
<1>3. IsCo(q)
  <2> HIDE DEF q
  <2> QED BY <1>2 DEF IsCo
<1>4. Len(q) = Len(s) + 1 /\ q[k + 1] = w
      /\ (\A i \in 1 .. k : q[i] = s[i]) /\ \A i \in k + 1 .. Len(s) : q[i + 1] = s[i]
  <2> DEFINE u == SubSeq(s, 1, k)
             v == SubSeq(s, k + 1, Len(s))
             x == u \o <<w>>
  <2>1. q = x \o v
    <3>1. (k + 1) - 1 = k
      OBVIOUS
    <3> QED BY <3>1 DEF InsertAt
  <2>2. u \in Seq(R) /\ Len(u) = k /\ \A i \in 1 .. k : u[i] = s[i]
    <3> HIDE DEF R
    <3> QED BY <1>1
  <2>3. v \in Seq(R) /\ Len(v) = Len(s) - k /\ \A i \in 1 .. Len(s) - k : v[i] = s[k + i]
    <3> HIDE DEF R
    <3>1. k \in 0 .. Len(s)
      BY <1>1
    <3> QED BY <1>1, <3>1, SubSeqIs
  <2> HIDE DEF u, v, q
  <2>4. x \in Seq(R) /\ Len(x) = k + 1 /\ x[k + 1] = w /\ \A j \in 1 .. k : x[j] = s[j]
    BY <2>2
  <2> HIDE DEF x
  <2>5. Len(q) = Len(s) + 1 /\ q[k + 1] = w /\ \A i \in 1 .. k : q[i] = s[i]
    <3> HIDE DEF R
    <3>1. Len(q) = Len(x) + Len(v)
      <4>1. x \in Seq(R) /\ v \in Seq(R)
        BY <2>3, <2>4
      <4>2. Len(x \o v) = Len(x) + Len(v)
        BY <4>1
      <4> QED BY <2>1, <4>2
    <3>2. ASSUME NEW i \in 1 .. k + 1 PROVE q[i] = x[i]
      BY <2>1, <2>3, <2>4
    <3>3. Len(q) = Len(s) + 1
      BY <1>1, <2>3, <2>4, <3>1
    <3> QED BY <2>4, <3>2, <3>3
  <2>6. ASSUME NEW i \in k + 1 .. Len(s) PROVE q[i + 1] = s[i]
    <3>1. i - k \in 1 .. Len(v) /\ (k + 1) + (i - k) = i + 1 /\ k + (i - k) = i
      BY <1>1, <2>3
    <3>2. q[(k + 1) + (i - k)] = v[i - k]
      BY <1>1, <2>1, <2>3, <2>4, <3>1
    <3> QED BY <2>3, <3>1, <3>2
  <2> QED BY <2>5, <2>6
<1> HIDE DEF q
<1>5. ASSUME NEW a \in {InitEvent} \cup ToSet(s)
      PROVE  Place(q, a) = IF Place(s, a) <= k THEN Place(s, a) ELSE Place(s, a) + 1
  <2>1. CASE a = InitEvent
    BY <2>1, <1>1 DEF Place
  <2>2. CASE a # InitEvent
    <3> DEFINE i == Place(s, a)
    <3>1. i \in 1 .. Len(s) /\ s[i] = a
      BY <2>2, PlaceIn
    <3> HIDE DEF i
    <3>2. CASE i <= k
      <4>1. i \in 1 .. Len(q) /\ q[i] = a
        BY <1>1, <1>4, <3>1, <3>2
      <4>2. Place(q, q[i]) = i
        BY <1>3, <4>1, PlaceIn
      <4> QED BY <3>2, <4>1, <4>2 DEF i
    <3>3. CASE ~(i <= k)
      <4>1. i + 1 \in 1 .. Len(q) /\ q[i + 1] = a
        BY <1>1, <1>4, <3>1, <3>3
      <4>2. Place(q, q[i + 1]) = i + 1
        BY <1>3, <4>1, PlaceIn
      <4> QED BY <3>3, <4>1, <4>2 DEF i
    <3> QED BY <3>2, <3>3
  <2> QED BY <2>1, <2>2
<1>6. Place(q, w) = k + 1
  <2>1. k + 1 \in 1 .. Len(q) /\ q[k + 1] = w
    BY <1>1, <1>4
  <2>2. Place(q, q[k + 1]) = k + 1
    BY <1>3, <2>1, PlaceIn
  <2> QED BY <2>1, <2>2
<1>7. Place(s, pred) = k /\ pred \in {InitEvent} \cup ToSet(s)
  <2>1. CASE k = 0
    BY <2>1, PlaceIn
  <2>2. CASE k # 0
    <3>1. k \in 1 .. Len(s) /\ pred = s[k]
      BY <2>2, <1>1
    <3> QED BY <3>1, PlaceIn
  <2> QED BY <2>1, <2>2
<1>8. \A a \in {InitEvent} \cup ToSet(s) : Place(s, a) \in Nat
  BY <1>1, PlaceIn
<1>9. \A a, b \in {InitEvent} \cup ToSet(s) : Place(s, a) = Place(s, b) => a = b
  BY PlaceIn
<1>10. ASSUME NEW a, NEW b, a # w, b # w PROVE Precedes(q, a, b) <=> Precedes(s, a, b)
  <2>1. Precedes(q, a, b) <=> /\ a \in {InitEvent} \cup ToSet(s) /\ b \in ToSet(s)
                              /\ Place(q, a) < Place(q, b)
    BY <1>2, <1>3, <1>10, PrecedesIs
  <2>2. Precedes(s, a, b) <=> /\ a \in {InitEvent} \cup ToSet(s) /\ b \in ToSet(s)
                              /\ Place(s, a) < Place(s, b)
    BY PrecedesIs
  <2>3. ASSUME a \in {InitEvent} \cup ToSet(s), b \in ToSet(s)
        PROVE  Place(q, a) < Place(q, b) <=> Place(s, a) < Place(s, b)
    <3>1. Place(s, a) \in Nat /\ Place(s, b) \in Nat
      BY <1>8, <2>3
    <3>2. Place(q, a) = IF Place(s, a) <= k THEN Place(s, a) ELSE Place(s, a) + 1
      BY <1>5, <2>3
    <3>3. Place(q, b) = IF Place(s, b) <= k THEN Place(s, b) ELSE Place(s, b) + 1
      BY <1>5, <2>3
    <3> QED BY <3>1, <3>2, <3>3
  <2> QED BY <2>1, <2>2, <2>3
<1>11. ASSUME NEW a, a # w PROVE Precedes(q, a, w) <=> a = pred \/ Precedes(s, a, pred)
  <2>1. Precedes(q, a, w) <=> a \in {InitEvent} \cup ToSet(s) /\ Place(q, a) < k + 1
    BY <1>2, <1>3, <1>6, <1>11, PrecedesIs
  <2>2. Precedes(s, a, pred) <=> /\ a \in {InitEvent} \cup ToSet(s) /\ pred \in ToSet(s) /\ Place(s, a) < k
    BY <1>7, PrecedesIs
  <2>3. ASSUME a \in {InitEvent} \cup ToSet(s) PROVE Place(q, a) < k + 1 <=> Place(s, a) <= k
    BY <1>5, <1>8, <2>3
  <2>4. ASSUME a \in {InitEvent} \cup ToSet(s)
        PROVE  Place(s, a) <= k <=> a = pred \/ Place(s, a) < k
    BY <1>7, <1>8, <1>9, <2>4
  <2>5. ASSUME a \in {InitEvent} \cup ToSet(s), Place(s, a) < k PROVE pred \in ToSet(s)
    <3>1. k # 0
      BY <1>8, <2>5
    <3> QED BY <1>7, <3>1 DEF Place
  <2> QED BY <1>7, <2>1, <2>2, <2>3, <2>4, <2>5
<1>12. ASSUME NEW b, b # w PROVE Precedes(q, w, b) <=> Precedes(s, pred, b)
  <2>1. Precedes(q, w, b) <=> b \in ToSet(s) /\ k + 1 < Place(q, b)
    BY <1>2, <1>3, <1>6, <1>12, PrecedesIs
  <2>2. Precedes(s, pred, b) <=> b \in ToSet(s) /\ k < Place(s, b)
    BY <1>7, PrecedesIs
  <2>3. ASSUME b \in ToSet(s) PROVE k + 1 < Place(q, b) <=> k < Place(s, b)
    BY <1>5, <1>8, <2>3
  <2> QED BY <2>1, <2>2, <2>3
<1> QED BY <1>2, <1>3, <1>10, <1>11, <1>12 DEF q

(* Removing a store keeps the order of the others. *)
LEMMA RemoveOrder ==
  ASSUME NEW s, IsCo(s), NEW k \in 1 .. Len(s)
  PROVE  LET q == RemoveAt(s, k)
         IN /\ IsCo(q) /\ ToSet(q) = ToSet(s) \ {s[k]}
            /\ \A a, b : a # s[k] /\ b # s[k] => (Precedes(q, a, b) <=> Precedes(s, a, b))
<1> DEFINE q == RemoveAt(s, k)
           R == ToSet(s)
<1>1. Len(s) \in Nat /\ DOMAIN s = 1 .. Len(s) /\ s \in Seq(R) /\ Distinct(s)
  BY DEF IsCo
<1>2. q \in Seq(R) /\ ToSet(q) = ToSet(s) \ {s[k]} /\ Distinct(q)
  <2> HIDE DEF R
  <2>1. RemoveAt(s, k) \in Seq(R)
    BY <1>1, RemoveAtProperties
  <2>2. ToSet(RemoveAt(s, k)) = ToSet(s) \ {s[k]}
    BY <1>1, RemoveAtProperties
  <2>3. Distinct(RemoveAt(s, k))
    BY <1>1, RemoveAtProperties
  <2> QED BY <2>1, <2>2, <2>3
<1>3. IsCo(q)
  <2> HIDE DEF q
  <2>1. q \in Seq(ToSet(q))
    BY <1>2, SeqFacts DEF IsSeq
  <2> QED BY <1>2, <2>1 DEF IsCo
<1>4. Len(q) = Len(s) - 1
      /\ (\A i \in 1 .. k - 1 : q[i] = s[i]) /\ \A i \in k + 1 .. Len(s) : q[i - 1] = s[i]
  <2> DEFINE u == SubSeq(s, 1, k - 1)
             v == SubSeq(s, k + 1, Len(s))
  <2>1. q = u \o v
    BY DEF RemoveAt
  <2>2. u \in Seq(R) /\ Len(u) = k - 1 /\ \A i \in 1 .. k - 1 : u[i] = s[i]
    BY <1>1
  <2>3. v \in Seq(R) /\ Len(v) = Len(s) - k /\ \A i \in 1 .. Len(s) - k : v[i] = s[k + i]
    <3> HIDE DEF R
    <3>1. k \in 0 .. Len(s)
      BY <1>1
    <3> QED BY <1>1, <3>1, SubSeqIs
  <2> HIDE DEF u, v, q
  <2>5. Len(q) = Len(s) - 1 /\ \A i \in 1 .. k - 1 : q[i] = s[i]
    <3> HIDE DEF R
    <3>1. Len(q) = Len(u) + Len(v)
      <4>1. u \in Seq(R) /\ v \in Seq(R)
        BY <2>2, <2>3
      <4>2. Len(u \o v) = Len(u) + Len(v)
        BY <4>1
      <4> QED BY <2>1, <4>2
    <3>2. ASSUME NEW i \in 1 .. k - 1 PROVE q[i] = u[i]
      BY <2>1, <2>2, <2>3
    <3>3. Len(q) = Len(s) - 1
      BY <1>1, <2>2, <2>3, <3>1
    <3> QED BY <2>2, <3>2, <3>3
  <2>6. ASSUME NEW i \in k + 1 .. Len(s) PROVE q[i - 1] = s[i]
    <3>1. i - k \in 1 .. Len(v) /\ (k - 1) + (i - k) = i - 1 /\ k + (i - k) = i
      BY <1>1, <2>3
    <3>2. q[(k - 1) + (i - k)] = v[i - k]
      BY <1>1, <2>1, <2>2, <2>3, <3>1
    <3> QED BY <2>3, <3>1, <3>2
  <2> QED BY <2>5, <2>6
<1> HIDE DEF q
<1>5. ASSUME NEW a \in {InitEvent} \cup ToSet(s), a # s[k]
      PROVE  /\ Place(q, a) = IF Place(s, a) < k THEN Place(s, a) ELSE Place(s, a) - 1
             /\ Place(s, a) \in Nat /\ Place(s, a) # k
  <2>1. CASE a = InitEvent
    BY <2>1, <1>1 DEF Place
  <2>2. CASE a # InitEvent
    <3> DEFINE i == Place(s, a)
    <3>1. i \in 1 .. Len(s) /\ s[i] = a /\ i # k
      BY <1>5, <2>2, PlaceIn
    <3> HIDE DEF i
    <3>2. CASE i < k
      <4>1. i \in 1 .. Len(q) /\ q[i] = a
        BY <1>1, <1>4, <3>1, <3>2
      <4>2. Place(q, q[i]) = i
        BY <1>3, <4>1, PlaceIn
      <4> QED BY <3>1, <3>2, <4>1, <4>2 DEF i
    <3>3. CASE ~(i < k)
      <4>1. i - 1 \in 1 .. Len(q) /\ q[i - 1] = a
        BY <1>1, <1>4, <3>1, <3>3
      <4>2. Place(q, q[i - 1]) = i - 1
        BY <1>3, <4>1, PlaceIn
      <4> QED BY <3>1, <3>3, <4>1, <4>2 DEF i
    <3> QED BY <3>2, <3>3
  <2> QED BY <2>1, <2>2
<1>6. ASSUME NEW a, NEW b, a # s[k], b # s[k] PROVE Precedes(q, a, b) <=> Precedes(s, a, b)
  <2>1. Precedes(q, a, b) <=> /\ a \in {InitEvent} \cup ToSet(s) /\ b \in ToSet(s)
                              /\ Place(q, a) < Place(q, b)
    BY <1>2, <1>3, <1>6, PrecedesIs
  <2>2. Precedes(s, a, b) <=> /\ a \in {InitEvent} \cup ToSet(s) /\ b \in ToSet(s)
                              /\ Place(s, a) < Place(s, b)
    BY PrecedesIs
  <2>3. ASSUME a \in {InitEvent} \cup ToSet(s), b \in ToSet(s)
        PROVE  Place(q, a) < Place(q, b) <=> Place(s, a) < Place(s, b)
    <3>1. Place(s, a) \in Nat /\ Place(s, b) \in Nat /\ Place(s, a) # k /\ Place(s, b) # k
      BY <1>5, <1>6, <2>3
    <3>2. Place(q, a) = IF Place(s, a) < k THEN Place(s, a) ELSE Place(s, a) - 1
      BY <1>5, <1>6, <2>3
    <3>3. Place(q, b) = IF Place(s, b) < k THEN Place(s, b) ELSE Place(s, b) - 1
      BY <1>5, <1>6, <2>3
    <3> QED BY <3>1, <3>2, <3>3
  <2> QED BY <2>1, <2>2, <2>3
<1> QED BY <1>2, <1>3, <1>6 DEF q

(************************** What a change carries on ***********************)

(* From g to h events stay what they are. *)
SameLabels(g, h) ==
    \A e \in Events(g) \cap Events(h) :
        /\ h.lab[e].typ = g.lab[e].typ /\ h.lab[e].ip = g.lab[e].ip
        /\ h.lab[e].ins = g.lab[e].ins /\ h.lab[e].val = g.lab[e].val

(* Events keep the order in which they were added, and new ones come last. *)
SameOrder(g, h) ==
    /\ \A d, e \in Events(g) \cap Events(h) : Stamp(h, d) < Stamp(h, e) <=> Stamp(g, d) < Stamp(g, e)
    /\ \A d \in Events(g) \cap Events(h) : \A e \in Events(h) \ Events(g) : Stamp(h, d) < Stamp(h, e)

(* No RMW is new but the one that reads at c, and the others read what they *)
(* read.                                                                    *)
SameRMWs(g, h, c) ==
    /\ \A q \in RMWReads(h) \ {c} : q \in RMWReads(g) /\ h.lab[q].rf = g.lab[q].rf
    /\ c \in RMWReads(h) => NextOf(c) \notin Events(g)

(* Prefixes stay, but for that of c and those of reads that are now last. *)
SamePrefixes(g, h, c) ==
    /\ \A b \in (Events(g) \cap Events(h)) \ {c} : NextOf(b) \in Events(h) => FullPrefix(h, b) = FullPrefix(g, b)
    /\ \A w \in Events(g) \cap Events(h) : g.lab[w].typ = "W" => FullPrefix(h, w) = FullPrefix(g, w)

(* No store is new in coherence but c, and the others keep their order. *)
SameCo(g, h, c) ==
    \A l \in Locs :
        /\ ToSet(h.co[l]) \ {c} \subseteq ToSet(g.co[l])
        /\ \A a, b \in Events(h) \ {c} : co_lt(h, l, a, b) <=> co_lt(g, l, a, b)

(* All of it: what a change from g to h carries on, but for the event c. *)
Carries(g, h, c) ==
    SameLabels(g, h) /\ SameOrder(g, h) /\ SameRMWs(g, h, c) /\ SamePrefixes(g, h, c) /\ SameCo(g, h, c)

(* A coherence sequence of a graph is one. *)
LEMMA CoIsCo ==
  ASSUME NEW p, NEW g, NEW X, GraphOK(p, g, X), NEW l \in Locs
  PROVE  /\ IsCo(g.co[l]) /\ CoOrder(g.co[l]) /\ ToSet(g.co[l]) \subseteq Events(g)
         /\ \A w \in ToSet(g.co[l]) : g.lab[w].typ = "W" /\ Loc(g, w) = l /\ w # InitEvent
         /\ InitEvent \in Events(g)
<1>1. g.co[l] \in Seq(Events(g))
  BY DEF GraphOK, CoherenceOK
<1>2. IsSeq(g.co[l]) /\ ToSet(g.co[l]) \subseteq Events(g)
  BY <1>1, SeqFacts
<1>3. \A w \in ToSet(g.co[l]) : g.lab[w].typ = "W" /\ Loc(g, w) = l
  BY DEF GraphOK, CoherenceOK
<1>4. InitEvent \in Events(g) /\ g.lab[InitEvent].typ # "W"
  BY DEF GraphOK, Shape, Kinds
<1>5. Distinct(g.co[l])
  BY DEF GraphOK, CoherenceOK, Distinct
<1>6. InitEvent \notin ToSet(g.co[l])
  BY <1>3, <1>4
<1>7. IsCo(g.co[l])
  BY <1>2, <1>5, <1>6 DEF IsCo, IsSeq
<1> QED BY <1>2, <1>3, <1>4, <1>6, <1>7, IsOrder

(* The store of an RMW that has a place after it is an event. *)
LEMMA StoreBefore ==
  ASSUME NEW p, NEW g, NEW X, GraphOK(p, g, X), NEW l \in Locs, NEW u, NEW w, co_lt(g, l, u, w)
  PROVE  /\ u \in {InitEvent} \cup ToSet(g.co[l]) /\ w \in ToSet(g.co[l]) /\ u # w
         /\ u \in Events(g) /\ w \in Events(g) /\ u # Bottom
<1>1. u \in {InitEvent} \cup ToSet(g.co[l]) /\ w \in ToSet(g.co[l]) /\ u # w
  <2>1. CoOrder(g.co[l])
    BY CoIsCo
  <2>2. Precedes(g.co[l], u, w)
    BY DEF co_lt
  <2> QED BY <2>1, <2>2 DEF CoOrder
<1>2. u \in Events(g) /\ w \in Events(g) /\ u \in Nat \X Nat
  BY <1>1, CoIsCo, EventsArePairs
<1>3. u # Bottom
  <2>1. PICK a \in Nat, b \in Nat : u = <<a, b>>
    BY <1>2
  <2>2. Len(<<a, b>>) = 2 /\ Len(<<>>) = 0
    OBVIOUS
  <2> QED BY <2>1, <2>2 DEF Bottom
<1> QED BY <1>1, <1>2, <1>3

(* The RMWs of the old graph that stay. *)
LEMMA CarriedBack ==
  ASSUME NEW p, NEW g, NEW h, NEW X, NEW Y, GraphOK(p, g, X), GraphOK(p, h, Y), NEW c, Carries(g, h, c),
         NEW q \in RMWReads(g), NextOf(q) \in Events(h)
  PROVE  /\ q \in RMWReads(h) /\ q # c
         /\ h.lab[q].rf = g.lab[q].rf /\ Loc(h, q) = Loc(g, q)
<1>1. /\ q \in Events(g) /\ g.lab[q].typ = "R" /\ IsRMWOp(g.lab[q].ins)
      /\ NextOf(q) \in Events(g) /\ g.lab[NextOf(q)].typ = "W" /\ g.lab[NextOf(q)].ip = g.lab[q].ip
  BY RMWReadIs
<1>2. q \in Nat \X Nat
  BY <1>1, EventsArePairs
<1>3. q \in Events(h)
  BY <1>2, NextIn
<1>4. /\ h.lab[q].typ = g.lab[q].typ /\ h.lab[q].ip = g.lab[q].ip /\ h.lab[q].ins = g.lab[q].ins
      /\ h.lab[NextOf(q)].typ = g.lab[NextOf(q)].typ /\ h.lab[NextOf(q)].ip = g.lab[NextOf(q)].ip
  BY <1>1, <1>3 DEF Carries, SameLabels
<1>5. q \in RMWReads(h)
  BY <1>1, <1>3, <1>4, RMWReadIs
<1>6. q # c
  BY <1>1, <1>5 DEF Carries, SameRMWs
<1>7. h.lab[q].rf = g.lab[q].rf
  BY <1>5, <1>6 DEF Carries, SameRMWs
<1> QED BY <1>4, <1>5, <1>6, <1>7 DEF Loc

(* The RMWs of the new graph that were there. *)
LEMMA CarriedRMW ==
  ASSUME NEW g, NEW h, NEW c, Carries(g, h, c), NEW q \in RMWReads(h), q # c
  PROVE  /\ q \in RMWReads(g) /\ q \in Events(g) \cap Events(h) /\ NextOf(q) \in Events(g) \cap Events(h)
         /\ h.lab[q].rf = g.lab[q].rf /\ Loc(h, q) = Loc(g, q)
<1>1. q \in RMWReads(g) /\ h.lab[q].rf = g.lab[q].rf
  BY DEF Carries, SameRMWs
<1>2. q \in Events(g) \cap Events(h) /\ NextOf(q) \in Events(g) \cap Events(h)
  BY <1>1, RMWReadIs
<1>3. h.lab[q].ins = g.lab[q].ins
  BY <1>2 DEF Carries, SameLabels
<1> QED BY <1>1, <1>2, <1>3 DEF Loc

(* The stamps of events that stay. *)
LEMMA CarriedOrder ==
  ASSUME NEW p, NEW g, NEW h, NEW X, NEW Y, GraphOK(p, g, X), GraphOK(p, h, Y), NEW c, Carries(g, h, c),
         NEW d \in Events(g) \cap Events(h)
  PROVE  /\ Stamp(g, d) \in Nat /\ Stamp(h, d) \in Nat
         /\ \A e \in Events(g) \cap Events(h) :
               /\ Stamp(h, d) < Stamp(h, e) <=> Stamp(g, d) < Stamp(g, e)
               /\ Stamp(h, d) <= Stamp(h, e) <=> Stamp(g, d) <= Stamp(g, e)
         /\ \A e \in Events(h) : Stamp(h, e) <= Stamp(h, d) => e \in Events(g)
<1>1. Stamp(g, d) \in Nat /\ Stamp(h, d) \in Nat
  BY StampFacts
<1>2. \A e \in Events(g) \cap Events(h) :
         (Stamp(h, d) < Stamp(h, e) <=> Stamp(g, d) < Stamp(g, e))
         /\ (Stamp(h, e) < Stamp(h, d) <=> Stamp(g, e) < Stamp(g, d))
  BY DEF Carries, SameOrder
<1>3. ASSUME NEW e \in Events(g) \cap Events(h)
      PROVE  Stamp(h, d) <= Stamp(h, e) <=> Stamp(g, d) <= Stamp(g, e)
  <2>1. Stamp(g, e) \in Nat /\ Stamp(h, e) \in Nat
    BY StampFacts
  <2> QED BY <1>1, <1>2, <2>1
<1>4. ASSUME NEW e \in Events(h), Stamp(h, e) <= Stamp(h, d), e \notin Events(g) PROVE FALSE
  <2>1. Stamp(h, d) < Stamp(h, e)
    BY <1>4 DEF Carries, SameOrder
  <2>2. Stamp(h, e) \in Nat
    BY StampFacts
  <2> QED BY <1>1, <1>4, <2>1, <2>2
<1> QED BY <1>1, <1>2, <1>3, <1>4

(* The stores that are older than an event that stays stay. *)
KeepsOlder(g, h) ==
    \A e \in Writes(g) : \A d \in Events(g) \cap Events(h) : d[2] > 0 /\ Stamp(g, e) < Stamp(g, d) => e \in Events(h)

(* What an item needs of the RMWs is carried on, if it cuts no later than   *)
(* at c.                                                                    *)
LEMMA CarriedRF ==
  ASSUME NEW p, NEW g, NEW h, NEW X, NEW Y, GraphOK(p, g, X), GraphOK(p, h, Y), NEW c, Carries(g, h, c),
         NEW pos, NEW rev, pos \in Events(g) \cap Events(h), rev \in Events(g) \cap Events(h), RFAtomic(g, pos, rev),
         c \in Events(g) => Stamp(g, pos) <= Stamp(g, c)
  PROVE  RFAtomic(h, pos, rev)
<1> SUFFICES ASSUME valueMakesRMWSucceed(h, pos, ValueOf(h, rev)), NEW q \in RMWReads(h), NEW b \in Events(h),
                    h.lab[q].rf = rev, Loc(h, q) = Loc(h, pos), Stamp(h, q) < Stamp(h, pos), NextOf(b) = pos
             PROVE  q \notin FullPrefix(h, b)
  BY DEF RFAtomic
<1>1. h.lab[pos].ins = g.lab[pos].ins /\ h.lab[rev].val = g.lab[rev].val
  BY DEF Carries, SameLabels
<1>2. b \in Events(g) /\ Stamp(g, b) < Stamp(g, pos)
  <2>1. b \in Nat \X Nat
    BY EventsArePairs
  <2> QED BY <2>1, NextIn
<1>3. q \in Events(h) /\ q \in Events(g) /\ Stamp(g, q) < Stamp(g, pos)
  <2>1. q \in Events(h)
    BY RMWReadIs
  <2>2. Stamp(h, q) <= Stamp(h, pos)
    BY <2>1, StampFacts
  <2>3. q \in Events(g)
    BY <2>1, <2>2, CarriedOrder
  <2> QED BY <2>1, <2>3, CarriedOrder
<1>4. ASSUME NEW e \in Events(g), Stamp(g, e) < Stamp(g, pos) PROVE e # c
  <2>1. Stamp(g, e) \in Nat /\ Stamp(g, pos) \in Nat
    BY StampFacts
  <2> QED BY <1>4, <2>1
<1>5. FullPrefix(h, b) = FullPrefix(g, b)
  BY <1>2, <1>4 DEF Carries, SamePrefixes
<1>6. q \in RMWReads(g) /\ g.lab[q].rf = rev /\ Loc(g, q) = Loc(g, pos)
  <2>1. q \in RMWReads(g) /\ h.lab[q].rf = g.lab[q].rf /\ Loc(h, q) = Loc(g, q)
    BY <1>3, <1>4, CarriedRMW
  <2> QED BY <1>1, <2>1 DEF Loc
<1>7. valueMakesRMWSucceed(g, pos, ValueOf(g, rev))
  BY <1>1 DEF valueMakesRMWSucceed, ValueOf
<1> QED BY <1>2, <1>3, <1>5, <1>6, <1>7 DEF RFAtomic

(* The same for the other places of a store. *)
LEMMA CarriedCO ==
  ASSUME NEW p, NEW g, NEW h, NEW X, NEW Y, GraphOK(p, g, X), GraphOK(p, h, Y), NEW c, Carries(g, h, c),
         KeepsOlder(g, h), c # InitEvent,
         NEW pos, NEW rev, pos \in Events(g) \cap Events(h), rev \in Events(g) \cap Events(h), COAtomic(g, pos, rev),
         g.lab[pos].typ = "W", pos[2] > 0, rev \in StoresOf(g, pos) \ {pos},
         rev = InitEvent \/ Stamp(g, rev) <= Stamp(g, pos),
         c \in Events(g) => Stamp(g, pos) <= Stamp(g, c)
  PROVE  COAtomic(h, pos, rev)
<1> DEFINE l == Loc(g, pos)
<1>1. h.lab[pos].ins = g.lab[pos].ins /\ Loc(h, pos) = l /\ l \in Locs
  <2>1. h.lab[pos].ins = g.lab[pos].ins
    BY DEF Carries, SameLabels
  <2>2. l \in Locs
    BY CoOf
  <2> QED BY <2>1, <2>2 DEF Loc
<1>2. ~IsRMWOp(h.lab[pos].ins)
  BY <1>1 DEF COAtomic
<1>3. /\ ToSet(g.co[l]) \subseteq Events(g) /\ ToSet(h.co[l]) \subseteq Events(h)
      /\ \A x \in ToSet(g.co[l]) : g.lab[x].typ = "W"
  BY <1>1, CoIsCo
<1>4. OlderIn(g, pos) = {x \in ToSet(g.co[l]) : Stamp(g, x) < Stamp(g, pos)}
  BY DEF OlderIn
<1>5. OlderIn(h, pos) = {x \in ToSet(h.co[l]) : Stamp(h, x) < Stamp(h, pos)}
  BY <1>1 DEF OlderIn
<1> HIDE DEF l
<1>6. ASSUME NEW x \in Events(g), Stamp(g, x) < Stamp(g, pos) PROVE x # c
  <2>1. Stamp(g, x) \in Nat /\ Stamp(g, pos) \in Nat
    BY StampFacts
  <2> QED BY <1>6, <2>1
<1>7. ASSUME NEW x \in OlderIn(h, pos) PROVE x \in Events(g) \cap Events(h) /\ x # c /\ x \in OlderIn(g, pos)
  <2>1. x \in Events(h) /\ x \in ToSet(h.co[l]) /\ Stamp(h, x) < Stamp(h, pos)
    BY <1>3, <1>5
  <2>2. Stamp(h, x) <= Stamp(h, pos)
    BY <2>1, StampFacts
  <2>3. x \in Events(g)
    BY <2>1, <2>2, CarriedOrder
  <2>4. Stamp(g, x) < Stamp(g, pos)
    BY <2>1, <2>3, CarriedOrder
  <2>5. x # c
    BY <1>6, <2>3, <2>4
  <2>6. x \in ToSet(g.co[l])
    BY <1>1, <2>1, <2>5 DEF Carries, SameCo
  <2> QED BY <1>4, <2>1, <2>3, <2>4, <2>5, <2>6
<1>8. InitEvent \in Events(h) \ {c}
  BY DEF GraphOK, Shape
<1>9. \A a, b \in Events(h) \ {c} : co_lt(h, l, a, b) <=> co_lt(g, l, a, b)
  BY <1>1 DEF Carries, SameCo
<1>10. ASSUME NEW y \in OlderIn(g, pos) PROVE y \in Events(h) /\ y # c /\ y \in OlderIn(h, pos)
  <2>1. y \in Events(g) /\ y \in ToSet(g.co[l]) /\ Stamp(g, y) < Stamp(g, pos) /\ y \in Writes(g)
    BY <1>3, <1>4 DEF Writes, OfType
  <2>2. y \in Events(h)
    BY <2>1 DEF KeepsOlder
  <2>3. y # c
    BY <1>6, <2>1
  <2>4. Stamp(h, y) < Stamp(h, pos)
    BY <2>1, <2>2, CarriedOrder
  <2>5. co_lt(h, l, InitEvent, y)
    <3>1. co_lt(g, l, InitEvent, y)
      BY <2>1 DEF co_lt, Precedes
    <3> QED BY <1>8, <1>9, <2>2, <2>3, <3>1
  <2>6. y \in ToSet(h.co[l])
    BY <2>5 DEF co_lt, Precedes
  <2> QED BY <1>5, <2>2, <2>3, <2>4, <2>6
<1>11. rev \in Events(h) \ {c}
  <2>1. CASE rev = InitEvent
    BY <2>1
  <2>2. CASE rev # InitEvent
    <3>1. Stamp(g, rev) <= Stamp(g, pos) /\ rev # pos
      BY <2>2
    <3>2. Stamp(g, rev) # Stamp(g, pos)
      BY <3>1 DEF GraphOK, Stamps
    <3>3. Stamp(g, rev) < Stamp(g, pos)
      BY <3>1, <3>2, StampFacts
    <3> QED BY <1>6, <3>3
  <2> QED BY <2>1, <2>2
<1>12. ASSUME NEW x \in OlderIn(h, pos), co_lt(h, l, rev, x), IsRMWOp(h.lab[x].ins)
       PROVE  \E y \in OlderIn(h, pos) : co_lt(h, l, rev, y) /\ co_lt(h, l, y, x)
  <2>1. x \in Events(g) \cap Events(h) /\ x # c /\ x \in OlderIn(g, pos)
    BY <1>7
  <2>2. co_lt(g, l, rev, x)
    BY <1>9, <1>11, <1>12, <2>1
  <2>3. IsRMWOp(g.lab[x].ins)
    BY <1>12, <2>1 DEF Carries, SameLabels
  <2>4. PICK y \in OlderIn(g, pos) : co_lt(g, l, rev, y) /\ co_lt(g, l, y, x)
    BY <2>1, <2>2, <2>3 DEF COAtomic, l
  <2>5. y \in Events(h) /\ y # c /\ y \in OlderIn(h, pos)
    BY <1>10
  <2>6. co_lt(h, l, rev, y) /\ co_lt(h, l, y, x)
    BY <1>9, <1>11, <2>1, <2>4, <2>5
  <2> QED BY <2>5, <2>6
<1> QED BY <1>1, <1>2, <1>12 DEF COAtomic

(* The same for a backward revisit. *)
LEMMA CarriedBR ==
  ASSUME NEW p, NEW g, NEW h, NEW X, NEW Y, GraphOK(p, g, X), GraphOK(p, h, Y), X \subseteq Reads(g),
         NEW c, Carries(g, h, c),
         NEW pos, NEW rev, pos \in Events(g) \cap Events(h), rev \in Events(g) \cap Events(h), BRAtomic(g, pos, rev),
         g.lab[rev].typ = "W",
         c \in Events(g) => Stamp(g, rev) <= Stamp(g, c)
  PROVE  BRAtomic(h, pos, rev)
<1> SUFFICES ASSUME NEW b \in RMWReads(h), NEW q \in RMWReads(h), NextOf(b) = rev, Compete(h, b, q)
             PROVE  Stamp(h, pos) <= Stamp(h, NextOf(q)) /\ NextOf(q) \notin FullPrefix(h, rev)
  BY DEF BRAtomic
<1>1. FullPrefix(h, rev) = FullPrefix(g, rev)
  BY DEF Carries, SamePrefixes
<1>2. b \in Events(g) /\ Stamp(g, b) < Stamp(g, rev) /\ Stamp(g, b) \in Nat /\ Stamp(g, rev) \in Nat
  <2>1. b \in Nat \X Nat
    BY RMWReadIs, EventsArePairs
  <2> QED BY <2>1, NextIn
<1>3. b # c
  BY <1>2
<1>4. b \in RMWReads(g) /\ h.lab[b].rf = g.lab[b].rf /\ Loc(h, b) = Loc(g, b)
  BY <1>3, CarriedRMW
<1>5. NextOf(q) \in Events(h)
  BY RMWReadIs
<1>6. CASE q = c
  <2>1. NextOf(q) \notin Events(g)
    BY <1>6 DEF Carries, SameRMWs
  <2>2. Stamp(h, pos) < Stamp(h, NextOf(q))
    BY <1>5, <2>1 DEF Carries, SameOrder
  <2>3. FullPrefix(g, rev) \subseteq Events(g)
    <3>1. rev \notin X /\ g.lab[rev].typ # "B"
      BY DEF Reads, OfType
    <3> QED BY <3>1 DEF GraphOK, PrefixesOK, PrefixOK
  <2>4. Stamp(h, pos) \in Nat /\ Stamp(h, NextOf(q)) \in Nat
    BY <1>5, StampFacts
  <2> QED BY <1>1, <2>1, <2>2, <2>3, <2>4
<1>7. CASE q # c
  <2>1. q \in RMWReads(g) /\ NextOf(q) \in Events(g) \cap Events(h)
        /\ h.lab[q].rf = g.lab[q].rf /\ Loc(h, q) = Loc(g, q)
    BY <1>7, CarriedRMW
  <2>2. Compete(g, b, q)
    BY <1>4, <2>1 DEF Compete
  <2>3. Stamp(g, pos) <= Stamp(g, NextOf(q)) /\ NextOf(q) \notin FullPrefix(g, rev)
    BY <1>4, <2>1, <2>2 DEF BRAtomic
  <2>4. Stamp(h, pos) <= Stamp(h, NextOf(q))
    BY <2>1, <2>3, CarriedOrder
  <2> QED BY <1>1, <2>3, <2>4
<1> QED BY <1>6, <1>7

(* The same for an item of any kind. *)
LEMMA CarriedItem ==
  ASSUME NEW p, NEW g, NEW h, NEW X, NEW Y, GraphOK(p, g, X), GraphOK(p, h, Y), X \subseteq Reads(g),
         NEW c, Carries(g, h, c), KeepsOlder(g, h), c # InitEvent,
         NEW item, ItemOK(g, item), item.pos \in Events(h), item.rev \in Events(h), ItemAtomic(g, item),
         c \in Events(g) => Stamp(g, CutEvent(item)) <= Stamp(g, c)
  PROVE  ItemAtomic(h, item)
<1> DEFINE pos == item.pos
           rev == item.rev
<1>1. pos \in Events(g) \cap Events(h) /\ rev \in Events(g) \cap Events(h) /\ pos[2] > 0
  BY DEF ItemOK
<1>2. item.kind = "RF" => RFAtomic(h, pos, rev)
  <2> SUFFICES ASSUME item.kind = "RF" PROVE RFAtomic(h, pos, rev)
    OBVIOUS
  <2>1. CutEvent(item) = pos /\ RFAtomic(g, pos, rev)
    BY DEF CutEvent, ItemAtomic
  <2> HIDE DEF pos, rev
  <2> QED BY <1>1, <2>1, CarriedRF
<1>3. item.kind = "CO" => COAtomic(h, pos, rev)
  <2> SUFFICES ASSUME item.kind = "CO" PROVE COAtomic(h, pos, rev)
    OBVIOUS
  <2>1. CutEvent(item) = pos /\ COAtomic(g, pos, rev)
    BY DEF CutEvent, ItemAtomic
  <2>2. /\ g.lab[pos].typ = "W" /\ rev \in StoresOf(g, pos) \ {pos}
        /\ rev = InitEvent \/ Stamp(g, rev) <= Stamp(g, pos)
    BY <2>1 DEF ItemOK
  <2> HIDE DEF pos, rev
  <2> QED BY <1>1, <2>1, <2>2, CarriedCO
<1>4. item.kind = "BR" => BRAtomic(h, pos, rev)
  <2> SUFFICES ASSUME item.kind = "BR" PROVE BRAtomic(h, pos, rev)
    OBVIOUS
  <2>1. CutEvent(item) = rev /\ BRAtomic(g, pos, rev)
    BY DEF CutEvent, ItemAtomic
  <2>2. g.lab[pos].typ = "R" /\ rev \in ToSet(g.co[Loc(g, pos)])
    BY DEF ItemOK
  <2> HIDE DEF pos, rev
  <2>3. g.lab[rev].typ = "W"
    BY <1>1, <2>2, CoOf
  <2> QED BY <1>1, <2>1, <2>3, CarriedBR
<1> QED BY <1>2, <1>3, <1>4 DEF ItemAtomic

(* The same for all items. *)
LEMMA CarriedItems ==
  ASSUME NEW p, NEW g, NEW h, NEW X, NEW Y, GraphOK(p, g, X), GraphOK(p, h, Y), X \subseteq Reads(g),
         NEW c, Carries(g, h, c), KeepsOlder(g, h), c # InitEvent,
         NEW items, ItemsOK(g, items), ItemsIn(items, Events(h)), ItemsAtomic(g, items),
         c \in Events(g) => \A j \in DOMAIN items : Stamp(g, CutEvent(items[j])) <= Stamp(g, c)
  PROVE  ItemsAtomic(h, items)
<1> SUFFICES ASSUME NEW j \in DOMAIN items PROVE ItemAtomic(h, items[j])
  BY DEF ItemsAtomic
<1> DEFINE item == items[j]
<1>1. /\ ItemOK(g, item) /\ item.pos \in Events(h) /\ item.rev \in Events(h) /\ ItemAtomic(g, item)
      /\ c \in Events(g) => Stamp(g, CutEvent(item)) <= Stamp(g, c)
  BY DEF ItemsOK, ItemsIn, ItemsAtomic
<1> HIDE DEF item
<1>2. ItemAtomic(h, item)
  BY <1>1, CarriedItem
<1> QED BY <1>2 DEF item

(* RMWs that are next to their store stay so, but for c. *)
LEMMA CarriedAdjacent ==
  ASSUME NEW p, NEW g, NEW h, NEW X, NEW Y, GraphOK(p, g, X), GraphOK(p, h, Y), NEW c, Carries(g, h, c),
         NEW r \in RMWReads(h), r # c, NextOf(r) # c, h.lab[r].rf # c, AdjacentTo(g, r),
         NEW l \in Locs, l = Loc(h, r), NEW u, u = h.lab[r].rf, NextOf(r) \in ToSet(h.co[l])
  PROVE  /\ co_lt(h, l, u, NextOf(r))
         /\ \A x \in ToSet(h.co[l]) \ {c} : co_lt(h, l, u, x) /\ co_lt(h, l, x, NextOf(r)) =>
               \E q \in RMWReads(h) : NextOf(q) = x /\ Compete(h, r, q)
<1>1. /\ r \in RMWReads(g) /\ r \in Events(h) /\ NextOf(r) \in Events(h)
      /\ u = g.lab[r].rf /\ l = Loc(g, r)
  BY CarriedRMW
<1>2. NextOf(r) \in ToSet(g.co[l])
  BY DEF Carries, SameCo
<1>3. /\ co_lt(g, l, u, NextOf(r))
      /\ \A x \in ToSet(g.co[l]) : co_lt(g, l, u, x) /\ co_lt(g, l, x, NextOf(r)) =>
            \E q \in RMWReads(g) : NextOf(q) = x /\ Compete(g, r, q)
  BY <1>1, <1>2 DEF AdjacentTo
<1>4. u # Bottom
  BY <1>3, StoreBefore
<1>5. u \in Events(h) \ {c} /\ NextOf(r) \in Events(h) \ {c}
  <2>1. r \in Events(h) /\ h.lab[r].rf # Bottom
    BY <1>1, <1>4
  <2>2. h.lab[r].rf \in Events(h)
    BY <2>1, StoreIsEvent
  <2> QED BY <1>1, <2>2
<1>6. \A a, b \in Events(h) \ {c} : co_lt(h, l, a, b) <=> co_lt(g, l, a, b)
  BY DEF Carries, SameCo
<1>7. co_lt(h, l, u, NextOf(r))
  BY <1>3, <1>5, <1>6
<1>8. ASSUME NEW x \in ToSet(h.co[l]) \ {c}, co_lt(h, l, u, x), co_lt(h, l, x, NextOf(r))
      PROVE  \E q \in RMWReads(h) : NextOf(q) = x /\ Compete(h, r, q)
  <2>1. x \in Events(h) /\ x \in ToSet(g.co[l])
    BY CoIsCo DEF Carries, SameCo
  <2>2. co_lt(g, l, u, x) /\ co_lt(g, l, x, NextOf(r))
    BY <1>5, <1>6, <1>8, <2>1
  <2>3. PICK q \in RMWReads(g) : NextOf(q) = x /\ Compete(g, r, q)
    BY <1>3, <2>1, <2>2
  <2>4. q \in RMWReads(h) /\ h.lab[q].rf = g.lab[q].rf /\ Loc(h, q) = Loc(g, q)
    BY <2>1, <2>3, CarriedBack
  <2>5. Compete(h, r, q)
    BY <1>1, <2>3, <2>4 DEF Compete
  <2> QED BY <2>3, <2>4, <2>5
<1> QED BY <1>7, <1>8

(* No new conflicts but with c. *)
LEMMA CarriedCompete ==
  ASSUME NEW g, NEW h, NEW c, Carries(g, h, c), NEW r \in RMWReads(h) \ {c}, NEW q \in RMWReads(h) \ {c},
         Compete(h, r, q)
  PROVE  r \in RMWReads(g) /\ q \in RMWReads(g) /\ Compete(g, r, q)
<1>1. r \in RMWReads(g) /\ h.lab[r].rf = g.lab[r].rf /\ Loc(h, r) = Loc(g, r)
  BY CarriedRMW
<1>2. q \in RMWReads(g) /\ h.lab[q].rf = g.lab[q].rf /\ Loc(h, q) = Loc(g, q)
  BY CarriedRMW
<1> QED BY <1>1, <1>2 DEF Compete

(* A pair stays one. *)
LEMMA CarriedPaired ==
  ASSUME NEW p, NEW g, NEW h, NEW X, NEW Y, GraphOK(p, g, X), GraphOK(p, h, Y), NEW c, Carries(g, h, c),
         Paired(g), NEW w \in Writes(h), w \in Events(g), NEW r \in Events(h), NextOf(r) = w
  PROVE  /\ IsRMWOp(h.lab[w].ins) => r \in RMWReads(h)
         /\ r \in RMWReads(h) => h.lab[w].ins = h.lab[r].ins
<1>1. w \in Events(h) /\ r \in Nat \X Nat
  BY EventsArePairs DEF Writes, OfType
<1>2. r \in Events(g)
  BY <1>1, NextIn
<1>3. /\ h.lab[w].typ = g.lab[w].typ /\ h.lab[w].ip = g.lab[w].ip /\ h.lab[w].ins = g.lab[w].ins
      /\ h.lab[r].typ = g.lab[r].typ /\ h.lab[r].ip = g.lab[r].ip /\ h.lab[r].ins = g.lab[r].ins
  BY <1>1, <1>2 DEF Carries, SameLabels
<1>4. w \in Writes(g)
  BY <1>3 DEF Writes, OfType
<1>5. r \in RMWReads(h) <=> r \in RMWReads(g)
  BY <1>1, <1>2, <1>3, RMWReadIs
<1> QED BY <1>2, <1>3, <1>4, <1>5 DEF Paired

(* An event is not a null pointer. *)
LEMMA PairNotBottom ==
  ASSUME NEW e \in Nat \X Nat
  PROVE  e # Bottom
<1>1. PICK a \in Nat, b \in Nat : e = <<a, b>>
  OBVIOUS
<1>2. Len(<<a, b>>) = 2 /\ Len(<<>>) = 0
  OBVIOUS
<1> QED BY <1>1, <1>2 DEF Bottom

(* A change that is about no RMW keeps the RMWs paired and next to their    *)
(* stores, and makes no conflict.                                           *)
LEMMA CarriedGraph ==
  ASSUME NEW p, NEW g, NEW h, NEW X, NEW Y, GraphOK(p, g, X), GraphOK(p, h, Y), Carries(g, h, Bottom),
         \A w \in Writes(h) \ Events(g) : ~IsRMWOp(h.lab[w].ins)
  PROVE  /\ Paired(g) => Paired(h)
         /\ Adjacent(g) => Adjacent(h)
         /\ NoConflict(g) => NoConflict(h)
         /\ \A c : NoConflictBut(g, c) => NoConflictBut(h, c)
         /\ ConflictLast(g) /\ Events(h) \subseteq Events(g) => ConflictLast(h)
<1>1. \A e \in Events(h) : e \in Nat \X Nat /\ e # Bottom
  BY EventsArePairs, PairNotBottom
<1>2. \A r \in RMWReads(h) : r \in Events(h) /\ r \in RMWReads(h) \ {Bottom} /\ NextOf(r) \in Events(h)
  BY <1>1, RMWReadIs
<1>3. ASSUME Paired(g) PROVE Paired(h)
  <2> SUFFICES ASSUME NEW w \in Writes(h), NEW r \in Events(h), NextOf(r) = w
               PROVE  /\ IsRMWOp(h.lab[w].ins) => r \in RMWReads(h)
                      /\ r \in RMWReads(h) => h.lab[w].ins = h.lab[r].ins
    BY DEF Paired
  <2>1. CASE w \in Events(g)
    BY <1>3, <2>1, CarriedPaired
  <2>2. CASE w \notin Events(g)
    <3>1. ~IsRMWOp(h.lab[w].ins)
      BY <2>2
    <3>2. r \notin RMWReads(h)
      <4>1. SUFFICES ASSUME r \in RMWReads(h) PROVE FALSE
        OBVIOUS
      <4>2. r # Bottom
        BY <1>1
      <4>3. NextOf(r) \in Events(g)
        BY <4>1, <4>2, CarriedRMW
      <4> QED BY <2>2, <4>3
    <3> QED BY <3>1, <3>2
  <2> QED BY <2>1, <2>2
<1>4. ASSUME Adjacent(g) PROVE Adjacent(h)
  <2> SUFFICES ASSUME NEW r \in RMWReads(h) PROVE AdjacentTo(h, r)
    BY DEF Adjacent
  <2> DEFINE l == Loc(h, r)
             u == h.lab[r].rf
  <2>1. SUFFICES ASSUME NextOf(r) \in ToSet(h.co[l])
                 PROVE  /\ co_lt(h, l, u, NextOf(r))
                        /\ \A x \in ToSet(h.co[l]) : co_lt(h, l, u, x) /\ co_lt(h, l, x, NextOf(r)) =>
                              \E q \in RMWReads(h) : NextOf(q) = x /\ Compete(h, r, q)
    BY DEF AdjacentTo
  <2>2. /\ r \in Events(h) /\ r # Bottom /\ NextOf(r) # Bottom /\ h.lab[r].typ = "R"
    BY <1>1, <1>2, RMWReadIs
  <2>3. l \in Locs
    BY <2>2, CoOf
  <2>4. r \in RMWReads(g) /\ u = g.lab[r].rf /\ l = Loc(g, r)
    BY <2>2, CarriedRMW
  <2>5. AdjacentTo(g, r)
    BY <1>4, <2>4 DEF Adjacent
  <2>6. u # Bottom
    <3>1. NextOf(r) \in ToSet(g.co[l])
      BY <2>1, <2>2, <2>3 DEF Carries, SameCo
    <3>2. co_lt(g, l, u, NextOf(r))
      BY <2>4, <2>5, <3>1 DEF AdjacentTo
    <3> HIDE DEF l, u
    <3> QED BY <2>3, <3>2, StoreBefore
  <2>7. Bottom \notin ToSet(h.co[l])
    <3>1. ToSet(h.co[l]) \subseteq Events(h)
      BY <2>3, CoIsCo
    <3> QED BY <1>1, <3>1
  <2>8. /\ co_lt(h, l, u, NextOf(r))
        /\ \A x \in ToSet(h.co[l]) \ {Bottom} : co_lt(h, l, u, x) /\ co_lt(h, l, x, NextOf(r)) =>
               \E q \in RMWReads(h) : NextOf(q) = x /\ Compete(h, r, q)
    <3> HIDE DEF l, u
    <3>1. l = Loc(h, r) /\ u = h.lab[r].rf /\ h.lab[r].rf # Bottom
      BY <2>6 DEF l, u
    <3> QED BY <2>1, <2>2, <2>3, <2>5, <3>1, CarriedAdjacent
  <2> QED BY <2>7, <2>8
<1>5. ASSUME NEW r \in RMWReads(h), NEW q \in RMWReads(h), Compete(h, r, q)
      PROVE  r \in RMWReads(g) /\ q \in RMWReads(g) /\ Compete(g, r, q)
  <2>1. r \in RMWReads(h) \ {Bottom} /\ q \in RMWReads(h) \ {Bottom}
    BY <1>2
  <2> QED BY <1>5, <2>1, CarriedCompete
<1>6. NoConflict(g) => NoConflict(h)
  BY <1>5 DEF NoConflict
<1>7. \A c : NoConflictBut(g, c) => NoConflictBut(h, c)
  BY <1>5 DEF NoConflictBut
<1>8. ASSUME Events(h) \subseteq Events(g), NEW e \in Events(h), Youngest(g, e) PROVE Youngest(h, e)
  <2> SUFFICES ASSUME NEW d \in Events(h), d[2] > 0 PROVE Stamp(h, d) <= Stamp(h, e)
    BY DEF Youngest
  <2>1. d \in Events(g) \cap Events(h) /\ e \in Events(g) \cap Events(h) /\ Stamp(g, d) <= Stamp(g, e)
    BY <1>8 DEF Youngest
  <2> QED BY <2>1, CarriedOrder
<1>9. ConflictLast(g) /\ Events(h) \subseteq Events(g) => ConflictLast(h)
  BY <1>2, <1>5, <1>8 DEF ConflictLast
<1> QED BY <1>3, <1>4, <1>6, <1>7, <1>9

(* The items are carried on, too. *)
LEMMA CarriedQueue ==
  ASSUME NEW p, NEW g, NEW h, NEW X, NEW Y, GraphOK(p, g, X), GraphOK(p, h, Y), X \subseteq Reads(g),
         Carries(g, h, Bottom), KeepsOlder(g, h),
         NEW items, ItemsOK(g, items), ItemsOK(h, items), ItemsAtomic(g, items)
  PROVE  ItemsAtomic(h, items)
<1>1. ItemsIn(items, Events(h))
  BY DEF ItemsIn, ItemsOK, ItemOK
<1>2. Bottom \notin Events(g)
  BY EventsArePairs, PairNotBottom
<1>3. Bottom # InitEvent
  <2>1. InitEvent \in Nat \X Nat
    BY DEF InitEvent
  <2> QED BY <2>1, PairNotBottom
<1> QED BY <1>1, <1>2, <1>3, CarriedItems

(* Such a change preserves what is atomic. *)
Preserves(g, h) ==
    /\ Paired(g) => Paired(h)
    /\ Adjacent(g) => Adjacent(h)
    /\ NoConflict(g) => NoConflict(h)
    /\ \A c : NoConflictBut(g, c) => NoConflictBut(h, c)
    /\ ConflictLast(g) /\ Events(h) \subseteq Events(g) => ConflictLast(h)
    /\ \A items : ItemsOK(g, items) /\ ItemsOK(h, items) /\ ItemsAtomic(g, items) => ItemsAtomic(h, items)

(* The two together. *)
LEMMA CarriedPreserves ==
  ASSUME NEW p, NEW g, NEW h, NEW X, NEW Y, GraphOK(p, g, X), GraphOK(p, h, Y), X \subseteq Reads(g),
         Carries(g, h, Bottom), KeepsOlder(g, h), \A w \in Writes(h) \ Events(g) : ~IsRMWOp(h.lab[w].ins)
  PROVE  Preserves(g, h)
BY CarriedGraph, CarriedQueue DEF Preserves

(***************************** Which changes do ****************************)

(* The same events in the same order. *)
LEMMA TextCarries ==
  ASSUME NEW g, NEW h, SameText(g, h)
  PROVE  SameLabels(g, h) /\ SameOrder(g, h) /\ KeepsOlder(g, h) /\ Events(h) = Events(g)
<1>1. Events(h) = Events(g) /\ \A e \in Events(g) : Stamp(h, e) = Stamp(g, e)
  BY DEF SameText, Stamp
<1>2. SameLabels(g, h)
  BY <1>1 DEF SameLabels, SameText
<1>3. SameOrder(g, h)
  BY <1>1 DEF SameOrder
<1>4. KeepsOlder(g, h)
  BY <1>1 DEF KeepsOlder, Writes, OfType
<1> QED BY <1>1, <1>2, <1>3, <1>4

(* The RMWs of the same events. *)
LEMMA TextRMWs ==
  ASSUME NEW g, NEW h, SameText(g, h)
  PROVE  RMWReads(h) = RMWReads(g)
<1>1. \A r : r \in RMWReads(h) <=> r \in RMWReads(g)
  <2> SUFFICES ASSUME NEW r PROVE r \in RMWReads(h) <=> r \in RMWReads(g)
    OBVIOUS
  <2>1. Events(h) = Events(g)
    BY DEF SameText
  <2>2. \A e \in Events(g) : h.lab[e].typ = g.lab[e].typ /\ h.lab[e].ip = g.lab[e].ip /\ h.lab[e].ins = g.lab[e].ins
    BY DEF SameText
  <2> QED BY <2>1, <2>2, RMWReadIs
<1> QED BY <1>1

(* Coherence that is the same. *)
LEMMA CoCarries ==
  ASSUME NEW g, NEW h, h.co = g.co
  PROVE  SameCo(g, h, Bottom)
BY DEF SameCo, co_lt

(* Reads at the end of their threads read other stores. *)
LEMMA RereadPreserves ==
  ASSUME NEW p, NEW g, NEW h, NEW X, NEW Y, GraphOK(p, g, X), GraphOK(p, h, Y), X \subseteq Reads(g),
         NEW rf, Reread(g, h, rf), LastReads(g, rf)
  PROVE  Preserves(g, h) /\ Events(h) = Events(g)
<1>1. SameLabels(g, h) /\ SameOrder(g, h) /\ KeepsOlder(g, h) /\ Events(h) = Events(g) /\ SameText(g, h)
  BY TextCarries DEF Reread
<1>2. ASSUME NEW e \in Events(g), NextOf(e) \in Events(g) PROVE e \notin DOMAIN rf
  <2>1. SUFFICES ASSUME e \in DOMAIN rf PROVE FALSE
    OBVIOUS
  <2>2. IsLast(g, e)
    BY <2>1 DEF LastReads
  <2>3. NextOf(e)[1] = e[1] /\ NextOf(e)[2] = e[2] + 1
    BY DEF NextOf
  <2>4. e[2] + 1 <= e[2] /\ e[2] \in Nat
    BY <1>2, <2>2, <2>3, EventsArePairs DEF IsLast
  <2> QED BY <2>4
<1>3. SameRMWs(g, h, Bottom)
  <2>1. RMWReads(h) = RMWReads(g)
    BY <1>1, TextRMWs
  <2>2. \A q \in RMWReads(g) : q \in Events(g) /\ NextOf(q) \in Events(g)
    BY RMWReadIs
  <2>3. \A q \in RMWReads(g) : h.lab[q].rf = g.lab[q].rf
    BY <1>2, <2>2 DEF Reread
  <2>4. Bottom \notin RMWReads(g)
    BY <2>2, EventsArePairs, PairNotBottom
  <2> QED BY <2>1, <2>3, <2>4 DEF SameRMWs
<1>4. SamePrefixes(g, h, Bottom)
  <2>1. \A e \in Events(g) \ DOMAIN rf : FullPrefix(h, e) = FullPrefix(g, e)
    BY DEF Reread, FullPrefix
  <2>2. \A e \in DOMAIN rf : g.lab[e].typ = "R"
    BY DEF LastReads, Reads, OfType
  <2> QED BY <1>1, <1>2, <2>1, <2>2 DEF SamePrefixes
<1>5. SameCo(g, h, Bottom)
  BY CoCarries DEF Reread
<1>10. Carries(g, h, Bottom)
  BY <1>1, <1>3, <1>4, <1>5 DEF Carries
<1>11. Writes(h) \ Events(g) = {}
  BY <1>1 DEF Writes, OfType
<1> QED BY <1>1, <1>10, <1>11, CarriedPreserves

(* A read at the end of its thread gets a store and keeps its views. *)
LEMMA SetsRfPreserves ==
  ASSUME NEW p, NEW g, NEW h, NEW X, NEW Y, GraphOK(p, g, X), GraphOK(p, h, Y), X \subseteq Reads(g),
         NEW r, NEW w, SetsRf(g, h, r, w), r \in Reads(g), IsLast(g, r)
  PROVE  Preserves(g, h) /\ Events(h) = Events(g)
<1>1. SameLabels(g, h) /\ SameOrder(g, h) /\ KeepsOlder(g, h) /\ Events(h) = Events(g) /\ SameText(g, h)
  BY TextCarries DEF SetsRf
<1>2. NextOf(r) \notin Events(g)
  <2>1. SUFFICES ASSUME NextOf(r) \in Events(g) PROVE FALSE
    OBVIOUS
  <2>2. NextOf(r)[1] = r[1] /\ NextOf(r)[2] = r[2] + 1 /\ r[2] \in Nat
    BY EventsArePairs DEF NextOf, Reads, OfType
  <2> QED BY <2>1, <2>2 DEF IsLast
<1>3. SameRMWs(g, h, Bottom)
  <2>1. RMWReads(h) = RMWReads(g)
    BY <1>1, TextRMWs
  <2>2. \A q \in RMWReads(g) : q \in Events(g) /\ q # r
    BY <1>2, RMWReadIs
  <2>3. \A q \in RMWReads(g) : h.lab[q].rf = g.lab[q].rf
    BY <2>2 DEF SetsRf
  <2>4. Bottom \notin RMWReads(g)
    BY <2>2, EventsArePairs, PairNotBottom
  <2> QED BY <2>1, <2>3, <2>4 DEF SameRMWs
<1>4. SamePrefixes(g, h, Bottom)
  <2>1. \A e \in Events(g) : h.lab[e].prefix = g.lab[e].prefix
    BY DEF SetsRf
  <2> QED BY <2>1 DEF SamePrefixes, FullPrefix
<1>5. SameCo(g, h, Bottom)
  BY CoCarries DEF SetsRf
<1>10. Carries(g, h, Bottom)
  BY <1>1, <1>3, <1>4, <1>5 DEF Carries
<1>11. Writes(h) \ Events(g) = {}
  BY <1>1 DEF Writes, OfType
<1> QED BY <1>1, <1>10, <1>11, CarriedPreserves

(* Labels change in other fields. *)
LEMMA SameReadsPreserves ==
  ASSUME NEW p, NEW g, NEW h, NEW X, NEW Y, GraphOK(p, g, X), GraphOK(p, h, Y), X \subseteq Reads(g),
         SameReads(g, h)
  PROVE  Preserves(g, h) /\ Events(h) = Events(g)
<1>1. SameLabels(g, h) /\ SameOrder(g, h) /\ KeepsOlder(g, h) /\ Events(h) = Events(g) /\ SameText(g, h)
  BY TextCarries DEF SameReads
<1>2. SameRMWs(g, h, Bottom)
  <2>1. RMWReads(h) = RMWReads(g)
    BY <1>1, TextRMWs
  <2>2. \A q \in RMWReads(g) : q \in Events(g)
    BY RMWReadIs
  <2>3. \A q \in RMWReads(g) : h.lab[q].rf = g.lab[q].rf
    BY <2>2 DEF SameReads
  <2>4. Bottom \notin RMWReads(g)
    BY <2>2, EventsArePairs, PairNotBottom
  <2> QED BY <2>1, <2>3, <2>4 DEF SameRMWs
<1>3. SamePrefixes(g, h, Bottom)
  BY DEF SamePrefixes, FullPrefix, SameReads
<1>4. SameCo(g, h, Bottom)
  BY CoCarries DEF SameReads
<1>10. Carries(g, h, Bottom)
  BY <1>1, <1>2, <1>3, <1>4 DEF Carries
<1>11. Writes(h) \ Events(g) = {}
  BY <1>1 DEF Writes, OfType
<1> QED BY <1>1, <1>10, <1>11, CarriedPreserves

(* An event is added: no RMW but the one that its write completes is new. *)
Completes(g, l, r) ==
    /\ r \in Reads(g) /\ NextOf(r) = l.pos /\ l.typ = "W" /\ IsRMWOp(g.lab[r].ins) /\ l.ip = g.lab[r].ip

(* Nothing comes after what is newest. *)
LEMMA NewestHasNoNext ==
  ASSUME NEW p, NEW h, NEW X, GraphOK(p, h, X), NEW e, IsNewest(h, e)
  PROVE  NextOf(e) \notin Events(h)
<1>1. SUFFICES ASSUME NextOf(e) \in Events(h) PROVE FALSE
  OBVIOUS
<1>2. e \in Events(h) /\ e \in Nat \X Nat /\ Stamp(h, NextOf(e)) <= Stamp(h, e)
  BY <1>1, EventsArePairs DEF IsNewest
<1>3. Stamp(h, e) < Stamp(h, NextOf(e)) /\ Stamp(h, e) \in Nat /\ Stamp(h, NextOf(e)) \in Nat
  BY <1>1, <1>2, NextIn
<1> QED BY <1>2, <1>3

(* What an added event carries on. *)
LEMMA AppendCarries ==
  ASSUME NEW p, NEW g, NEW h, NEW X, NEW Y, GraphOK(p, g, X), GraphOK(p, h, Y), NEW l, Appended(g, h, l), Stays(g, h),
         NEW c, \A r : Completes(g, l, r) => r = c, c \in Events(g) => NextOf(c) = l.pos
  PROVE  Carries(g, h, c) /\ KeepsOlder(g, h) /\ Events(h) = Events(g) \cup {l.pos}
<1>1. /\ l.pos \notin Events(g) /\ Events(h) = Events(g) \cup {l.pos} /\ h.co = g.co
      /\ \A e \in Events(g) : h.lab[e] = g.lab[e]
      /\ h.lab[l.pos].typ = l.typ /\ h.lab[l.pos].ip = l.ip /\ IsNewest(h, l.pos)
  BY DEF Appended
<1>2. SameLabels(g, h)
  BY <1>1 DEF SameLabels
<1>3. SameOrder(g, h)
  BY AppendMoves DEF SameOrder, Moves
<1>4. SameRMWs(g, h, c)
  <2>1. NextOf(l.pos) \notin Events(h)
    BY <1>1, NewestHasNoNext
  <2>2. ASSUME NEW q \in RMWReads(h) PROVE q \in Events(g)
    <3>1. q \in Events(h) /\ NextOf(q) \in Events(h)
      BY RMWReadIs
    <3> QED BY <1>1, <2>1, <3>1
  <2>3. ASSUME NEW q \in RMWReads(h), q # c PROVE q \in RMWReads(g) /\ h.lab[q].rf = g.lab[q].rf
    <3>1. /\ q \in Events(g) /\ h.lab[q].typ = "R" /\ IsRMWOp(h.lab[q].ins) /\ NextOf(q) \in Events(h)
          /\ h.lab[NextOf(q)].typ = "W" /\ h.lab[NextOf(q)].ip = h.lab[q].ip
      BY <2>2, RMWReadIs
    <3>2. h.lab[q] = g.lab[q]
      BY <1>1, <3>1
    <3>3. NextOf(q) # l.pos
      <4>1. SUFFICES ASSUME NextOf(q) = l.pos PROVE FALSE
        OBVIOUS
      <4>2. q \in Reads(g)
        BY <3>1, <3>2 DEF Reads, OfType
      <4>3. Completes(g, l, q)
        BY <1>1, <3>1, <3>2, <4>1, <4>2 DEF Completes
      <4> QED BY <2>3, <4>3
    <3>4. NextOf(q) \in Events(g) /\ h.lab[NextOf(q)] = g.lab[NextOf(q)]
      BY <1>1, <3>1, <3>3
    <3> QED BY <3>1, <3>2, <3>4, RMWReadIs
  <2>4. c \in RMWReads(h) => NextOf(c) \notin Events(g)
    BY <1>1, <2>2
  <2> QED BY <2>3, <2>4 DEF SameRMWs
<1>5. SamePrefixes(g, h, c)
  BY <1>1 DEF SamePrefixes, FullPrefix
<1>6. SameCo(g, h, c)
  BY <1>1 DEF SameCo, co_lt
<1>7. KeepsOlder(g, h)
  BY <1>1 DEF KeepsOlder, Writes, OfType
<1> QED BY <1>1, <1>2, <1>3, <1>4, <1>5, <1>6, <1>7 DEF Carries

(* An event that completes no RMW is added. *)
LEMMA AppendPreserves ==
  ASSUME NEW p, NEW g, NEW h, NEW X, NEW Y, GraphOK(p, g, X), GraphOK(p, h, Y), X \subseteq Reads(g),
         NEW l, Appended(g, h, l), Stays(g, h),
         \A r : ~Completes(g, l, r), l.typ = "W" => ~IsRMWOp(l.ins)
  PROVE  Preserves(g, h)
<1>1. Bottom \notin Events(g)
  BY EventsArePairs, PairNotBottom
<1>2. Carries(g, h, Bottom) /\ KeepsOlder(g, h) /\ Events(h) = Events(g) \cup {l.pos}
  BY <1>1, AppendCarries
<1>3. \A w \in Writes(h) \ Events(g) : ~IsRMWOp(h.lab[w].ins)
  <2>1. h.lab[l.pos].typ = l.typ /\ h.lab[l.pos].ins = l.ins
    BY DEF Appended
  <2> QED BY <1>2, <2>1 DEF Writes, OfType
<1> QED BY <1>2, <1>3, CarriedPreserves

(* The write of an RMW is added: nothing but this RMW conflicts, and it has *)
(* no place in coherence yet.                                               *)
LEMMA CompletedAtomic ==
  ASSUME NEW p, NEW g, NEW h, NEW X, NEW Y, GraphOK(p, g, X), GraphOK(p, h, Y), X \subseteq Reads(g),
         NEW l, Appended(g, h, l), Stays(g, h),
         NEW c, Completes(g, l, c), l.ins = g.lab[c].ins
  PROVE  /\ c \in RMWReads(h) /\ NextOf(c) = l.pos
         /\ Paired(g) => Paired(h)
         /\ Adjacent(g) => Adjacent(h)
         /\ NoConflict(g) => NoConflictBut(h, l.pos)
         /\ \A items : ItemsOK(g, items) /\ ItemsOK(h, items) /\ ItemsAtomic(g, items)
                       /\ (\A j \in DOMAIN items : Stamp(g, CutEvent(items[j])) <= Stamp(g, c))
                         => ItemsAtomic(h, items)
<1>1. /\ c \in Events(g) /\ c \in Nat \X Nat /\ g.lab[c].typ = "R" /\ NextOf(c) = l.pos /\ l.typ = "W"
      /\ IsRMWOp(g.lab[c].ins) /\ l.ip = g.lab[c].ip
  BY EventsArePairs DEF Completes, Reads, OfType
<1>2. \A r : Completes(g, l, r) => r = c
  <2> SUFFICES ASSUME NEW r, Completes(g, l, r) PROVE r = c
    OBVIOUS
  <2>1. r \in Nat \X Nat /\ NextOf(r) = NextOf(c)
    BY <1>1, EventsArePairs DEF Completes, Reads, OfType
  <2> QED BY <1>1, <2>1, NextOnce
<1>3. Carries(g, h, c) /\ KeepsOlder(g, h) /\ Events(h) = Events(g) \cup {l.pos}
  BY <1>1, <1>2, AppendCarries
<1>4. /\ l.pos \notin Events(g) /\ h.co = g.co /\ \A e \in Events(g) : h.lab[e] = g.lab[e]
      /\ h.lab[l.pos].typ = l.typ /\ h.lab[l.pos].ip = l.ip /\ h.lab[l.pos].ins = l.ins
  BY DEF Appended
<1>5. c \in RMWReads(h)
  BY <1>1, <1>3, <1>4, RMWReadIs
<1>6. ASSUME Paired(g) PROVE Paired(h)
  <2> SUFFICES ASSUME NEW w \in Writes(h), NEW r \in Events(h), NextOf(r) = w
               PROVE  /\ IsRMWOp(h.lab[w].ins) => r \in RMWReads(h)
                      /\ r \in RMWReads(h) => h.lab[w].ins = h.lab[r].ins
    BY DEF Paired
  <2>1. CASE w \in Events(g)
    BY <1>3, <1>6, <2>1, CarriedPaired
  <2>2. CASE w \notin Events(g)
    <3>1. w = l.pos
      BY <1>3, <2>2 DEF Writes, OfType
    <3>2. r \in Nat \X Nat /\ NextOf(r) = NextOf(c)
      BY <1>1, <3>1, EventsArePairs
    <3>3. r = c
      BY <1>1, <3>2, NextOnce
    <3> QED BY <1>1, <1>4, <1>5, <3>1, <3>3
  <2> QED BY <2>1, <2>2
<1>7. ASSUME Adjacent(g) PROVE Adjacent(h)
  <2> SUFFICES ASSUME NEW r \in RMWReads(h) PROVE AdjacentTo(h, r)
    BY DEF Adjacent
  <2> DEFINE loc == Loc(h, r)
             u == h.lab[r].rf
  <2>1. SUFFICES ASSUME NextOf(r) \in ToSet(h.co[loc])
                 PROVE  /\ co_lt(h, loc, u, NextOf(r))
                        /\ \A x \in ToSet(h.co[loc]) : co_lt(h, loc, u, x) /\ co_lt(h, loc, x, NextOf(r)) =>
                              \E q \in RMWReads(h) : NextOf(q) = x /\ Compete(h, r, q)
    BY DEF AdjacentTo
  <2>2. r \in Events(h) /\ h.lab[r].typ = "R"
    BY RMWReadIs
  <2>3. loc \in Locs
    BY <2>2, CoOf
  <2>4. ToSet(h.co[loc]) \subseteq Events(g) /\ \A x \in ToSet(h.co[loc]) : g.lab[x].typ = "W"
    <3> HIDE DEF loc
    <3> QED BY <1>4, <2>3, CoIsCo
  <2>5. r # c
    BY <1>1, <1>4, <2>1, <2>4
  <2>6. r \in RMWReads(g) /\ u = g.lab[r].rf /\ loc = Loc(g, r) /\ r \in Events(g)
    BY <1>3, <2>5, CarriedRMW
  <2>7. AdjacentTo(g, r)
    BY <1>7, <2>6 DEF Adjacent
  <2>8. u # c /\ c \notin ToSet(h.co[loc]) /\ NextOf(r) # c
    <3>1. c \notin ToSet(h.co[loc])
      BY <1>1, <2>4
    <3>2. u # c
      <4>1. CASE u = Bottom
        BY <1>1, <4>1, PairNotBottom
      <4>2. CASE u # Bottom
        <5>1. g.lab[r].rf = InitEvent \/ g.lab[g.lab[r].rf].typ = "W"
          BY <2>6, <4>2, StoreIsEvent
        <5>2. g.lab[InitEvent].typ = "INIT"
          BY DEF GraphOK, Shape, Kinds
        <5> QED BY <1>1, <2>6, <5>1, <5>2
      <4> QED BY <4>1, <4>2
    <3> QED BY <2>1, <3>1, <3>2
  <2>9. /\ co_lt(h, loc, u, NextOf(r))
        /\ \A x \in ToSet(h.co[loc]) \ {c} : co_lt(h, loc, u, x) /\ co_lt(h, loc, x, NextOf(r)) =>
               \E q \in RMWReads(h) : NextOf(q) = x /\ Compete(h, r, q)
    <3> HIDE DEF loc, u
    <3>1. loc = Loc(h, r) /\ u = h.lab[r].rf /\ h.lab[r].rf # c
      BY <2>8 DEF loc, u
    <3> QED BY <1>3, <2>1, <2>3, <2>5, <2>7, <2>8, <3>1, CarriedAdjacent
  <2> QED BY <2>8, <2>9
<1>8. ASSUME NoConflict(g) PROVE NoConflictBut(h, l.pos)
  <2> SUFFICES ASSUME NEW r \in RMWReads(h), NEW q \in RMWReads(h), Compete(h, r, q), r # c, q # c PROVE FALSE
    BY <1>1 DEF NoConflictBut
  <2>1. r \in RMWReads(g) /\ q \in RMWReads(g) /\ Compete(g, r, q)
    BY <1>3, CarriedCompete
  <2> QED BY <1>8, <2>1 DEF NoConflict
<1>9. ASSUME NEW items, ItemsOK(g, items), ItemsOK(h, items), ItemsAtomic(g, items),
             \A j \in DOMAIN items : Stamp(g, CutEvent(items[j])) <= Stamp(g, c)
      PROVE  ItemsAtomic(h, items)
  <2>1. ItemsIn(items, Events(h))
    BY <1>9 DEF ItemsIn, ItemsOK, ItemOK
  <2>2. c # InitEvent
    <3>1. g.lab[InitEvent].typ = "INIT"
      BY DEF GraphOK, Shape, Kinds
    <3> QED BY <1>1, <3>1
  <2> QED BY <1>3, <1>9, <2>1, <2>2, CarriedItems
<1> QED BY <1>1, <1>5, <1>6, <1>7, <1>8, <1>9

(* Blocks go. *)
LEMMA BlocksGoPreserve ==
  ASSUME NEW p, NEW g, NEW k, NEW X, NEW Y, GraphOK(p, g, X), GraphOK(p, k, Y), X \subseteq Reads(g),
         NEW K, Shrunk(g, k, K), k.co = g.co, \A e \in K : k.lab[e] = g.lab[e], \A e \in Events(g) \ K : g.lab[e].typ = "B"
  PROVE  Preserves(g, k)
<1>1. Events(k) = K /\ K \subseteq Events(g) /\ \A e \in K : k.lab[e] = g.lab[e]
  BY DEF Shrunk
<1>2. SameLabels(g, k)
  BY <1>1 DEF SameLabels
<1>3. SameOrder(g, k)
  BY <1>1 DEF SameOrder, Shrunk
<1>4. SameRMWs(g, k, Bottom)
  <2>1. ASSUME NEW q \in RMWReads(k) PROVE q \in RMWReads(g) /\ k.lab[q].rf = g.lab[q].rf /\ q # Bottom
    <3>1. q \in K /\ NextOf(q) \in K
      BY <1>1, RMWReadIs
    <3>2. k.lab[q] = g.lab[q] /\ k.lab[NextOf(q)] = g.lab[NextOf(q)]
      BY <1>1, <3>1
    <3>3. q # Bottom
      BY <1>1, <3>1, EventsArePairs, PairNotBottom
    <3> QED BY <1>1, <3>1, <3>2, <3>3, RMWReadIs
  <2> QED BY <2>1 DEF SameRMWs
<1>5. SamePrefixes(g, k, Bottom)
  BY <1>1 DEF SamePrefixes, FullPrefix
<1>6. SameCo(g, k, Bottom)
  BY CoCarries
<1>7. KeepsOlder(g, k)
  BY <1>1 DEF KeepsOlder, Writes, OfType
<1>8. Carries(g, k, Bottom)
  BY <1>2, <1>3, <1>4, <1>5, <1>6 DEF Carries
<1>9. Writes(k) \ Events(g) = {}
  BY <1>1 DEF Writes, OfType
<1> QED BY <1>7, <1>8, <1>9, CarriedPreserves

(* Blocked reads are revisited in place. *)
LEMMA InPlacePreserves ==
  ASSUME NEW p, NEW g, NEW k, NEW h, NEW rf, NEW K, GraphOK(p, g, {}), InPlace(p, g, k, h, rf, K)
  PROVE  Preserves(g, h)
<1>1. /\ Shrunk(g, k, K) /\ GraphOK(p, k, {}) /\ k.co = g.co /\ \A e \in K : k.lab[e] = g.lab[e]
      /\ \A e \in Events(g) \ K : g.lab[e].typ = "B"
      /\ LastReads(k, rf) /\ GraphOK(p, h, {}) /\ Reread(k, h, rf)
  BY DEF InPlace
<1>2. Preserves(g, k)
  BY <1>1, BlocksGoPreserve
<1>3. Preserves(k, h) /\ Events(h) = Events(k) /\ Events(k) = K /\ K \subseteq Events(g)
  BY <1>1, RereadPreserves DEF Shrunk
<1>4. ASSUME NEW items, ItemsOK(g, items) PROVE ItemsOK(k, items)
  <2>1. Keeps(g, k, K)
    BY <1>1, ShrunkKeeps
  <2>2. ItemsIn(items, Events(g) \ (Events(g) \ K))
    BY <1>1, <1>4, ItemsNotBlocks
  <2>3. ItemsIn(items, K)
    BY <2>2 DEF ItemsIn
  <2> QED BY <1>4, <2>1, <2>3, KeptItems
<1> QED BY <1>2, <1>3, <1>4 DEF Preserves

(************************* Placing and moving a store **********************)

(* Coherence has w right after pred and is otherwise the same. *)
CoInserted(g, h, w, pred) ==
    LET l == Loc(g, w)
    IN /\ \A k \in Locs \ {l} : h.co[k] = g.co[k]
       /\ ToSet(h.co[l]) = ToSet(g.co[l]) \cup {w}
       /\ \A a, b : a # w /\ b # w => (co_lt(h, l, a, b) <=> co_lt(g, l, a, b))
       /\ \A a : a # w => (co_lt(h, l, a, w) <=> a = pred \/ co_lt(g, l, a, pred))
       /\ \A b : b # w => (co_lt(h, l, w, b) <=> co_lt(g, l, pred, b))

(* Nothing else changes: w is placed right after pred. *)
Inserted(g, h, w, pred) ==
    /\ SameText(g, h) /\ \A e \in Events(g) : h.lab[e].rf = g.lab[e].rf /\ h.lab[e].prefix = g.lab[e].prefix
    /\ CoInserted(g, h, w, pred)

(* addCo inserts. *)
LEMMA AddCoInserts ==
  ASSUME NEW p, NEW g, NEW X, GraphOK(p, g, X), NEW w \in Events(g), g.lab[w].typ = "W", w \notin ToSet(g.co[Loc(g, w)]),
         NEW pred, pred \in StoresOf(g, w)
  PROVE  Inserted(g, addCo(g, w, pred), w, pred)
<1> DEFINE h == addCo(g, w, pred)
           l == Loc(g, w)
           s == g.co[l]
           k == CoIndex(g, pred, l)
<1>1. CoGrows(g, h)
  BY AddCoOK
<1>2. SameText(g, h) /\ \A e \in Events(g) : h.lab[e].rf = g.lab[e].rf /\ h.lab[e].prefix = g.lab[e].prefix
  BY <1>1 DEF CoGrows
<1>3. l \in Locs /\ IsCo(s) /\ w # InitEvent
  <2>1. l \in Locs
    BY CoOf
  <2>2. g.lab[InitEvent].typ = "INIT"
    BY DEF GraphOK, Shape, Kinds
  <2> QED BY <2>1, <2>2, CoIsCo
<1>4. k \in 0 .. Len(s) /\ pred = IF k = 0 THEN InitEvent ELSE s[k]
  <2>1. g.co[l] \in Seq(Events(g)) /\ pred \in {InitEvent} \cup ToSet(g.co[l])
    BY <1>3 DEF GraphOK, CoherenceOK, StoresOf
  <2>2. k \in 0 .. Len(s) /\ (pred # InitEvent => k \in DOMAIN s /\ s[k] = pred)
    BY <2>1, CoIndexIn
  <2>3. pred = InitEvent => k = 0
    BY DEF CoIndex
  <2>4. DOMAIN s = 1 .. Len(s)
    BY <2>1
  <2> QED BY <2>2, <2>3, <2>4
<1>5. /\ h.co = [g.co EXCEPT ![l] = InsertAt(s, k + 1, w)] /\ DOMAIN g.co = Locs
  BY DEF addCo, GraphOK, Shape, CoherenceOK
<1>6. h.co[l] = InsertAt(s, k + 1, w) /\ \A m \in Locs \ {l} : h.co[m] = g.co[m]
  <2> HIDE DEF h, l, s, k
  <2> QED BY <1>3, <1>5
<1>7. LET q == InsertAt(s, k + 1, w)
      IN /\ ToSet(q) = ToSet(s) \cup {w}
         /\ \A a, b : a # w /\ b # w => (Precedes(q, a, b) <=> Precedes(s, a, b))
         /\ \A a : a # w => (Precedes(q, a, w) <=> a = pred \/ Precedes(s, a, pred))
         /\ \A b : b # w => (Precedes(q, w, b) <=> Precedes(s, pred, b))
  <2>1. w \notin ToSet(s)
    OBVIOUS
  <2> HIDE DEF h, l, s, k
  <2> QED BY <1>3, <1>4, <2>1, InsertOrder
<1>8. CoInserted(g, h, w, pred)
  <2>1. s = g.co[l] /\ l = Loc(g, w)
    OBVIOUS
  <2> HIDE DEF h, l, s, k
  <2> QED BY <1>6, <1>7, <2>1 DEF CoInserted, co_lt
<1> QED BY <1>2, <1>8 DEF Inserted

(* moveCo removes the store and inserts it. *)
LEMMA MoveCoInserts ==
  ASSUME NEW p, NEW g, NEW X, GraphOK(p, g, X), NEW w \in Events(g), g.lab[w].typ = "W", w \in ToSet(g.co[Loc(g, w)]),
         NEW pred, pred \in StoresOf(g, w) \ {w}
  PROVE  Inserted(g, moveCo(g, w, pred), w, pred)
<1> DEFINE h == moveCo(g, w, pred)
           l == Loc(g, w)
           s == g.co[l]
           n == CoIndex(g, w, l)
           g1 == [g EXCEPT !.co[l] = RemoveAt(s, n)]
           s1 == RemoveAt(s, n)
           k == CoIndex(g1, pred, l)
           m == addCo(g1, w, pred)
<1>1. CoGrows(g, h)
  BY MoveCoOK
<1>2. SameText(g, h) /\ \A e \in Events(g) : h.lab[e].rf = g.lab[e].rf /\ h.lab[e].prefix = g.lab[e].prefix
  BY <1>1 DEF CoGrows
<1>3. l \in Locs /\ IsCo(s) /\ w # InitEvent /\ s \in Seq(Events(g)) /\ Distinct(s)
  <2>1. l \in Locs
    BY CoOf
  <2>2. g.lab[InitEvent].typ = "INIT"
    BY DEF GraphOK, Shape, Kinds
  <2>3. s \in Seq(Events(g))
    BY <2>1 DEF GraphOK, CoherenceOK
  <2> QED BY <2>1, <2>2, <2>3, CoIsCo DEF IsCo
<1>4. n \in 1 .. Len(s) /\ s[n] = w
  <2>1. n \in DOMAIN s /\ s[n] = w
    BY <1>3, CoIndexIn
  <2> QED BY <1>3, <2>1
<1>5. /\ IsCo(s1) /\ ToSet(s1) = ToSet(s) \ {w}
      /\ \A a, b : a # w /\ b # w => (Precedes(s1, a, b) <=> Precedes(s, a, b))
  <2> HIDE DEF s, n
  <2> QED BY <1>3, <1>4, RemoveOrder
<1>6. s1 \in Seq(Events(g))
  <2> HIDE DEF s, n
  <2> QED BY <1>3, <1>4, RemoveAtProperties
<1>7. /\ DOMAIN g = {"stamp", "lab", "co", "lin"} /\ DOMAIN g.co = Locs
  BY DEF GraphOK, Shape, CoherenceOK
<1>8. /\ g1.co = [g.co EXCEPT ![l] = s1] /\ g1.lab = g.lab /\ DOMAIN g1 = DOMAIN g
  BY <1>7
<1>9. g1.co[l] = s1 /\ \A j \in Locs \ {l} : g1.co[j] = g.co[j]
  <2> HIDE DEF g1, s1, l
  <2> QED BY <1>3, <1>7, <1>8
<1>10. pred \in {InitEvent} \cup ToSet(s1)
  <2>1. pred \in {InitEvent} \cup ToSet(s)
    BY DEF StoresOf
  <2> QED BY <1>5, <2>1
<1>11. k \in 0 .. Len(s1) /\ pred = IF k = 0 THEN InitEvent ELSE s1[k]
  <2>1. k \in 0 .. Len(g1.co[l]) /\ (pred # InitEvent => k \in DOMAIN g1.co[l] /\ g1.co[l][k] = pred)
    <3> HIDE DEF g1, s1, l
    <3> QED BY <1>6, <1>9, <1>10, CoIndexIn
  <2>2. pred = InitEvent => k = 0
    BY DEF CoIndex
  <2>3. DOMAIN s1 = 1 .. Len(s1)
    BY <1>6
  <2> HIDE DEF g1, s1, l, k
  <2> QED BY <1>9, <2>1, <2>2, <2>3
<1>12. m.co = [g1.co EXCEPT ![l] = InsertAt(g1.co[l], k + 1, w)]
  <2>1. Loc(g1, w) = l
    BY <1>8 DEF Loc
  <2> HIDE DEF g1, l, k
  <2>2. DOMAIN g1 = {"stamp", "lab", "co", "lin"}
    BY <1>7, <1>8
  <2> QED BY <2>1, <2>2 DEF addCo, k
<1>13. h.co = m.co
  <2>1. h = [m EXCEPT !.lab[w].addedMax = (w = co_max(m, Loc(m, w)))]
    BY DEF moveCo
  <2> HIDE DEF h, m
  <2>2. "co" # "lab"
    OBVIOUS
  <2> QED BY <2>1
<1>14. h.co[l] = InsertAt(s1, k + 1, w) /\ \A j \in Locs \ {l} : h.co[j] = g.co[j]
  <2>1. DOMAIN g1.co = Locs
    BY <1>7, <1>8
  <2> HIDE DEF h, l, s, k, g1, s1, m
  <2> QED BY <1>3, <1>9, <1>12, <1>13, <2>1
<1>15. LET q == InsertAt(s1, k + 1, w)
       IN /\ ToSet(q) = ToSet(s1) \cup {w}
          /\ \A a, b : a # w /\ b # w => (Precedes(q, a, b) <=> Precedes(s1, a, b))
          /\ \A a : a # w => (Precedes(q, a, w) <=> a = pred \/ Precedes(s1, a, pred))
          /\ \A b : b # w => (Precedes(q, w, b) <=> Precedes(s1, pred, b))
  <2>1. w \notin ToSet(s1)
    BY <1>5
  <2> HIDE DEF s1, k
  <2> QED BY <1>3, <1>5, <1>11, <2>1, InsertOrder
<1>16. CoInserted(g, h, w, pred)
  <2>1. s = g.co[l] /\ l = Loc(g, w) /\ pred # w /\ w \in ToSet(s)
    OBVIOUS
  <2>2. ToSet(s1) \cup {w} = ToSet(s) \cup {w}
    BY <1>5, <2>1
  <2> HIDE DEF h, l, s, k, s1
  <2> QED BY <1>5, <1>14, <1>15, <2>1, <2>2 DEF CoInserted, co_lt
<1> QED BY <1>2, <1>16 DEF Inserted

(* What an insertion carries on. *)
InsertionCarries(g, h, w) ==
    /\ Carries(g, h, w) /\ KeepsOlder(g, h) /\ Events(h) = Events(g)
    /\ RMWReads(h) = RMWReads(g) /\ w \notin RMWReads(g) /\ w # InitEvent
    /\ Paired(g) => Paired(h)
    /\ \A r, q \in RMWReads(g) : Compete(h, r, q) <=> Compete(g, r, q)
    /\ \A r \in RMWReads(g) : h.lab[r].rf = g.lab[r].rf /\ Loc(h, r) = Loc(g, r)

(* Placing a store carries on everything but its place. *)
LEMMA InsertedCarries ==
  ASSUME NEW p, NEW g, NEW h, NEW X, GraphOK(p, g, X), NEW w \in Events(g), g.lab[w].typ = "W", NEW pred,
         Inserted(g, h, w, pred)
  PROVE  InsertionCarries(g, h, w)
<1>1. /\ SameText(g, h) /\ CoInserted(g, h, w, pred)
      /\ \A e \in Events(g) : h.lab[e].rf = g.lab[e].rf /\ h.lab[e].prefix = g.lab[e].prefix
  BY DEF Inserted
<1>2. SameLabels(g, h) /\ SameOrder(g, h) /\ KeepsOlder(g, h) /\ Events(h) = Events(g)
  BY <1>1, TextCarries
<1>3. RMWReads(h) = RMWReads(g) /\ w \notin RMWReads(g) /\ \A r \in RMWReads(g) : r \in Events(g)
  BY <1>1, TextRMWs, RMWReadIs
<1>4. SameRMWs(g, h, w)
  BY <1>1, <1>3 DEF SameRMWs
<1>5. SamePrefixes(g, h, w)
  BY <1>1 DEF SamePrefixes, FullPrefix
<1>6. SameCo(g, h, w)
  BY <1>1 DEF SameCo, CoInserted, co_lt
<1>7. w # InitEvent
  <2>1. g.lab[InitEvent].typ = "INIT"
    BY DEF GraphOK, Shape, Kinds
  <2> QED BY <2>1
<1>8. \A e \in Events(g) : h.lab[e].ins = g.lab[e].ins /\ h.lab[e].typ = g.lab[e].typ
  BY <1>1 DEF SameText
<1>9. Paired(g) => Paired(h)
  BY <1>2, <1>3, <1>8 DEF Paired, Writes, OfType
<1>10. \A r \in RMWReads(g) : h.lab[r].rf = g.lab[r].rf /\ Loc(h, r) = Loc(g, r)
  BY <1>1, <1>3, <1>8 DEF Loc
<1>11. \A r, q \in RMWReads(g) : Compete(h, r, q) <=> Compete(g, r, q)
  BY <1>10 DEF Compete
<1> QED BY <1>2, <1>3, <1>4, <1>5, <1>6, <1>7, <1>9, <1>10, <1>11 DEF Carries, InsertionCarries

(* Right after pred, the store w does not come between an RMW and the store *)
(* that it reads, unless it is the write of a competitor.                   *)
Apart(g, w, pred) ==
    LET l == Loc(g, w)
    IN /\ \A r \in RMWReads(g) : g.lab[r].rf # w
       /\ \A r \in RMWReads(g) : NextOf(r) = w => g.lab[r].rf = pred /\ Loc(g, r) = l
       /\ \A r \in RMWReads(g) :
             /\ Loc(g, r) = l /\ NextOf(r) # w /\ co_lt(g, l, pred, NextOf(r))
             /\ g.lab[r].rf = pred \/ co_lt(g, l, g.lab[r].rf, pred)
             => \E q \in RMWReads(g) : NextOf(q) = w /\ Compete(g, r, q)

(* Such an insertion keeps every RMW next to the store that it reads. *)
LEMMA InsertedAdjacent ==
  ASSUME NEW p, NEW g, NEW h, NEW X, NEW Y, GraphOK(p, g, X), GraphOK(p, h, Y),
         NEW w \in Events(g), g.lab[w].typ = "W", NEW pred, pred # w, Inserted(g, h, w, pred), Adjacent(g),
         Apart(g, w, pred), NEW l, l = Loc(g, w)
  PROVE  Adjacent(h)
<1>1. /\ \A r \in RMWReads(g) : g.lab[r].rf # w
      /\ \A r \in RMWReads(g) : NextOf(r) = w => g.lab[r].rf = pred /\ Loc(g, r) = l
  BY DEF Apart
<1>2. ASSUME NEW r \in RMWReads(g), Loc(g, r) = l, NextOf(r) # w, co_lt(g, l, pred, NextOf(r)),
              g.lab[r].rf = pred \/ co_lt(g, l, g.lab[r].rf, pred)
       PROVE  \E q \in RMWReads(g) : NextOf(q) = w /\ Compete(g, r, q)
  BY <1>2 DEF Apart
<1>3. InsertionCarries(g, h, w)
  BY InsertedCarries
<1>4. /\ Carries(g, h, w) /\ RMWReads(h) = RMWReads(g) /\ w \notin RMWReads(g) /\ Events(h) = Events(g)
      /\ \A r, q \in RMWReads(g) : Compete(h, r, q) <=> Compete(g, r, q)
      /\ \A r \in RMWReads(g) : h.lab[r].rf = g.lab[r].rf /\ Loc(h, r) = Loc(g, r)
  BY <1>3 DEF InsertionCarries
<1>5. /\ \A a, b : a # w /\ b # w => (co_lt(h, l, a, b) <=> co_lt(g, l, a, b))
      /\ \A a : a # w => (co_lt(h, l, a, w) <=> a = pred \/ co_lt(g, l, a, pred))
      /\ \A b : b # w => (co_lt(h, l, w, b) <=> co_lt(g, l, pred, b))
  BY DEF Inserted, CoInserted
<1>6. l \in Locs /\ h.lab[w].typ = "W" /\ Loc(h, w) = l
  <2>1. h.lab[w].typ = g.lab[w].typ /\ h.lab[w].ins = g.lab[w].ins
    BY DEF Inserted, SameText
  <2>2. Loc(g, w) \in Locs
    BY CoOf
  <2> QED BY <2>1, <2>2 DEF Loc
<1> SUFFICES ASSUME NEW r \in RMWReads(h) PROVE AdjacentTo(h, r)
  BY DEF Adjacent
<1> DEFINE loc == Loc(h, r)
           u == h.lab[r].rf
<1>7. SUFFICES ASSUME NextOf(r) \in ToSet(h.co[loc])
               PROVE  /\ co_lt(h, loc, u, NextOf(r))
                      /\ \A x \in ToSet(h.co[loc]) : co_lt(h, loc, u, x) /\ co_lt(h, loc, x, NextOf(r)) =>
                            \E q \in RMWReads(h) : NextOf(q) = x /\ Compete(h, r, q)
  BY DEF AdjacentTo
<1>8. r \in RMWReads(g) /\ loc = Loc(g, r) /\ u = g.lab[r].rf /\ r \in Events(h) /\ h.lab[r].typ = "R"
  BY <1>4, RMWReadIs
<1>9. loc \in Locs
  BY <1>8, CoOf
<1>10. u # w /\ r # w
  BY <1>1, <1>4, <1>8
<1>11. CASE NextOf(r) = w
  <2>1. u = pred /\ loc = l
    BY <1>1, <1>8, <1>11
  <2>2. co_lt(h, l, pred, w)
    BY <1>5
  <2>3. ASSUME NEW x, co_lt(h, l, pred, x), co_lt(h, l, x, w) PROVE FALSE
    <3>1. x # w /\ x # pred
      BY <1>6, <2>3, StoreBefore
    <3>2. co_lt(g, l, x, pred)
      BY <1>5, <2>3, <3>1
    <3>3. co_lt(h, l, x, pred)
      BY <1>5, <3>1, <3>2
    <3>4. CoOrder(h.co[l])
      BY <1>6, CoIsCo
    <3> QED BY <2>3, <3>3, <3>4 DEF CoOrder, co_lt
  <2> QED BY <1>11, <2>1, <2>2, <2>3
<1>12. CASE NextOf(r) # w
  <2>1. AdjacentTo(g, r)
    BY <1>8 DEF Adjacent
  <2> HIDE DEF loc, u
  <2>2. loc = Loc(h, r) /\ u = h.lab[r].rf /\ h.lab[r].rf # w
    BY <1>10 DEF loc, u
  <2>3. /\ co_lt(h, loc, u, NextOf(r))
        /\ \A x \in ToSet(h.co[loc]) \ {w} : co_lt(h, loc, u, x) /\ co_lt(h, loc, x, NextOf(r)) =>
               \E q \in RMWReads(h) : NextOf(q) = x /\ Compete(h, r, q)
    BY <1>4, <1>7, <1>9, <1>10, <1>12, <2>1, <2>2, CarriedAdjacent
  <2>4. ASSUME w \in ToSet(h.co[loc]), co_lt(h, loc, u, w), co_lt(h, loc, w, NextOf(r))
        PROVE  \E q \in RMWReads(h) : NextOf(q) = w /\ Compete(h, r, q)
    <3>1. loc = l
      BY <1>6, <1>9, <2>4, CoIsCo
    <3>2. u = pred \/ co_lt(g, l, u, pred)
      BY <1>5, <1>10, <2>4, <3>1
    <3>3. co_lt(g, l, pred, NextOf(r))
      BY <1>5, <1>12, <2>4, <3>1
    <3>4. PICK q \in RMWReads(g) : NextOf(q) = w /\ Compete(g, r, q)
      BY <1>2, <1>8, <1>12, <3>1, <3>2, <3>3
    <3> QED BY <1>4, <1>8, <3>4
  <2> QED BY <2>3, <2>4
<1> QED BY <1>11, <1>12

(* What an insertion keeps. *)
InsertKeeps(g, h, w) ==
    /\ Paired(h) /\ Adjacent(h)
    /\ NoConflict(g) => NoConflict(h)
    /\ \A c : NoConflictBut(g, c) => NoConflictBut(h, c)
    /\ ConflictLast(g) => ConflictLast(h)
    /\ \A items : /\ ItemsOK(g, items) /\ ItemsOK(h, items) /\ ItemsAtomic(g, items)
                  /\ \A j \in DOMAIN items : Stamp(g, CutEvent(items[j])) <= Stamp(g, w)
                  => ItemsAtomic(h, items)

(* Such an insertion keeps what is said of RMWs, their conflicts and the    *)
(* items.                                                                   *)
LEMMA InsertedKeeps ==
  ASSUME NEW p, NEW g, NEW h, NEW X, NEW Y, GraphOK(p, g, X), GraphOK(p, h, Y), X \subseteq Reads(g),
         NEW w \in Events(g), g.lab[w].typ = "W", NEW pred, pred # w, Inserted(g, h, w, pred),
         Paired(g), Adjacent(g), Apart(g, w, pred)
  PROVE  InsertKeeps(g, h, w)
<1>1. InsertionCarries(g, h, w)
  BY InsertedCarries
<1>2. /\ Carries(g, h, w) /\ KeepsOlder(g, h) /\ Events(h) = Events(g) /\ w # InitEvent
      /\ RMWReads(h) = RMWReads(g) /\ Paired(h)
  BY <1>1 DEF InsertionCarries
<1>3. \A r, q \in RMWReads(g) : Compete(h, r, q) <=> Compete(g, r, q)
  BY <1>1 DEF InsertionCarries
<1>4. Adjacent(h)
  BY InsertedAdjacent
<1>5. NoConflict(g) => NoConflict(h)
  BY <1>2, <1>3 DEF NoConflict
<1>6. \A c : NoConflictBut(g, c) => NoConflictBut(h, c)
  BY <1>2, <1>3 DEF NoConflictBut
<1>7. \A e : Youngest(g, e) => Youngest(h, e)
  BY <1>2 DEF Youngest, Inserted, SameText, Stamp
<1>8. ConflictLast(g) => ConflictLast(h)
  BY <1>2, <1>3, <1>7 DEF ConflictLast
<1>9. ASSUME NEW items, ItemsOK(g, items), ItemsOK(h, items), ItemsAtomic(g, items),
             \A j \in DOMAIN items : Stamp(g, CutEvent(items[j])) <= Stamp(g, w)
      PROVE  ItemsAtomic(h, items)
  <2>1. ItemsIn(items, Events(h))
    BY <1>9 DEF ItemsIn, ItemsOK, ItemOK
  <2> QED BY <1>2, <1>9, <2>1, CarriedItems
<1> QED BY <1>2, <1>4, <1>5, <1>6, <1>8, <1>9 DEF InsertKeeps

(* The place of an RMW's write, which is the only one with a conflict:      *)
(* right after the store that the RMW reads.                                *)
LEMMA ApartRMW ==
  ASSUME NEW p, NEW g, NEW X, GraphOK(p, g, X), NEW w \in Events(g), g.lab[w].typ = "W",
         w \notin ToSet(g.co[Loc(g, w)]), Adjacent(g), NoConflictBut(g, w),
         NEW c \in RMWReads(g), NextOf(c) = w, Loc(g, c) = Loc(g, w), NEW pred, pred = g.lab[c].rf
  PROVE  Apart(g, w, pred)
<1> DEFINE l == Loc(g, w)
<1>1. l \in Locs /\ w # InitEvent /\ w # Bottom
  <2>1. g.lab[InitEvent].typ = "INIT"
    BY DEF GraphOK, Shape, Kinds
  <2>2. w \in Nat \X Nat
    BY EventsArePairs
  <2> QED BY <2>1, <2>2, CoOf, PairNotBottom
<1>2. ASSUME NEW r \in RMWReads(g), g.lab[r].rf = w PROVE FALSE
  <2>1. r \in Events(g) /\ g.lab[r].typ = "R"
    BY RMWReadIs
  <2>2. w \in ToSet(g.co[Loc(g, r)])
    BY <1>1, <1>2, <2>1 DEF GraphOK, ReadsFrom
  <2>3. Loc(g, w) = Loc(g, r)
    BY <2>1, <2>2, CoOf
  <2> QED BY <2>2, <2>3
<1>3. ASSUME NEW r \in RMWReads(g), NextOf(r) = w PROVE r = c
  <2>1. r \in Nat \X Nat /\ c \in Nat \X Nat
    BY RMWReadIs, EventsArePairs
  <2> QED BY <1>3, <2>1, NextOnce
<1>4. ASSUME NEW r \in RMWReads(g), Loc(g, r) = l, NextOf(r) # w, co_lt(g, l, pred, NextOf(r)),
             co_lt(g, l, g.lab[r].rf, pred)
      PROVE  FALSE
  <2>1. pred \in ToSet(g.co[l]) /\ NextOf(r) \in ToSet(g.co[l]) /\ pred # w
    <3> HIDE DEF l
    <3>1. pred \in ToSet(g.co[l]) /\ NextOf(r) \in ToSet(g.co[l])
      BY <1>1, <1>4, StoreBefore
    <3> QED BY <3>1 DEF l
  <2>2. PICK q \in RMWReads(g) : NextOf(q) = pred /\ Compete(g, r, q)
    BY <1>4, <2>1 DEF Adjacent, AdjacentTo
  <2> QED BY <1>4, <2>1, <2>2 DEF NoConflictBut
<1>5. ASSUME NEW r \in RMWReads(g), Loc(g, r) = l, NextOf(r) # w, g.lab[r].rf = pred
      PROVE  Compete(g, r, c)
  BY <1>5 DEF Compete
<1> QED BY <1>2, <1>3, <1>4, <1>5 DEF Apart

(* Nothing comes after the last store of a location. *)
LEMMA NothingAfterMax ==
  ASSUME NEW p, NEW g, NEW X, GraphOK(p, g, X), NEW l \in Locs, NEW x, co_lt(g, l, co_max(g, l), x)
  PROVE  FALSE
<1> DEFINE s == g.co[l]
           pred == co_max(g, l)
<1>1. IsCo(s)
  BY CoIsCo
<1>2. CASE s = <<>>
  <2>1. ToSet(s) = {}
    BY <1>2 DEF ToSet
  <2>2. x \in ToSet(s)
    BY StoreBefore
  <2> QED BY <2>1, <2>2
<1>3. CASE s # <<>>
  <2>1. pred = s[Len(s)]
    BY <1>3 DEF co_max, Last
  <2>2. Precedes(s, pred, x)
    BY DEF co_lt
  <2> HIDE DEF s, pred
  <2>3. Len(s) \in 1 .. Len(s)
    BY <1>1, <1>3 DEF IsCo
  <2>4. Place(s, pred) < Place(s, x) /\ x \in ToSet(s)
    BY <1>1, <2>2, PrecedesIs
  <2>5. Place(s, pred) = Len(s)
    BY <1>1, <2>1, <2>3, PlaceIn
  <2>6. Place(s, x) \in 1 .. Len(s) /\ Len(s) \in Nat
    BY <1>1, <2>4, PlaceIn
  <2> QED BY <2>4, <2>5, <2>6
<1> QED BY <1>2, <1>3

(* The place of a plain store: at the end. *)
LEMMA ApartLast ==
  ASSUME NEW p, NEW g, NEW X, GraphOK(p, g, X), NEW w \in Events(g), g.lab[w].typ = "W",
         w \notin ToSet(g.co[Loc(g, w)]), \A r \in RMWReads(g) : NextOf(r) # w
  PROVE  Apart(g, w, co_max(g, Loc(g, w)))
<1> DEFINE l == Loc(g, w)
           pred == co_max(g, l)
<1>1. l \in Locs /\ w # InitEvent /\ w # Bottom
  <2>1. g.lab[InitEvent].typ = "INIT"
    BY DEF GraphOK, Shape, Kinds
  <2>2. w \in Nat \X Nat
    BY EventsArePairs
  <2> QED BY <2>1, <2>2, CoOf, PairNotBottom
<1>2. ASSUME NEW r \in RMWReads(g), g.lab[r].rf = w PROVE FALSE
  <2>1. r \in Events(g) /\ g.lab[r].typ = "R"
    BY RMWReadIs
  <2>2. w \in ToSet(g.co[Loc(g, r)])
    BY <1>1, <1>2, <2>1 DEF GraphOK, ReadsFrom
  <2>3. Loc(g, w) = Loc(g, r)
    BY <2>1, <2>2, CoOf
  <2> QED BY <2>2, <2>3
<1>3. ASSUME NEW x, co_lt(g, l, pred, x) PROVE FALSE
  BY <1>1, <1>3, NothingAfterMax
<1> QED BY <1>2, <1>3 DEF Apart

(* The other place of a store, which is the last thing that was added. *)
LEMMA ApartMoved ==
  ASSUME NEW p, NEW g, NEW X, GraphOK(p, g, X), NEW w \in Events(g), g.lab[w].typ = "W", Youngest(g, w),
         Paired(g), Adjacent(g), NoConflict(g), NEW pred, COAtomic(g, w, pred),
         \A r \in RMWReads(g) : g.lab[r].rf # w
  PROVE  Apart(g, w, pred)
<1> DEFINE l == Loc(g, w)
<1>1. l \in Locs
  BY CoOf
<1>2. ASSUME NEW r \in RMWReads(g) PROVE NextOf(r) # w /\ IsRMWOp(g.lab[NextOf(r)].ins)
  <2>1. /\ r \in Events(g) /\ NextOf(r) \in Writes(g) /\ IsRMWOp(g.lab[r].ins)
    BY RMWReadIs DEF Writes, OfType
  <2>2. g.lab[NextOf(r)].ins = g.lab[r].ins
    BY <2>1 DEF Paired
  <2> QED BY <2>1, <2>2 DEF COAtomic
<1>3. ASSUME NEW x \in ToSet(g.co[l]), x # w PROVE x \in OlderIn(g, w)
  <2>1. x \in Events(g) /\ g.lab[x].typ = "W" /\ w \in Events(g)
    <3> HIDE DEF l
    <3> QED BY <1>1, CoIsCo
  <2>2. x[2] > 0
    <3>1. x[2] \in Nat
      BY <2>1, EventsArePairs
    <3>2. x[2] # 0
      BY <2>1 DEF GraphOK, Kinds
    <3> QED BY <3>1, <3>2
  <2>3. Stamp(g, x) <= Stamp(g, w)
    BY <2>1, <2>2 DEF Youngest
  <2>4. Stamp(g, x) # Stamp(g, w)
    BY <1>3, <2>1 DEF GraphOK, Stamps
  <2>5. Stamp(g, x) \in Nat /\ Stamp(g, w) \in Nat
    BY <2>1, StampFacts
  <2>6. Stamp(g, x) < Stamp(g, w)
    BY <2>3, <2>4, <2>5
  <2> QED BY <2>6 DEF OlderIn
<1>4. ASSUME NEW r \in RMWReads(g), Loc(g, r) = l, co_lt(g, l, pred, NextOf(r)),
             g.lab[r].rf = pred \/ co_lt(g, l, g.lab[r].rf, pred)
      PROVE  FALSE
  <2>1. NextOf(r) \in ToSet(g.co[l]) /\ pred \in {InitEvent} \cup ToSet(g.co[l])
    <3> HIDE DEF l
    <3> QED BY <1>1, <1>4, StoreBefore
  <2>2. \A x \in ToSet(g.co[l]) : ~(co_lt(g, l, g.lab[r].rf, x) /\ co_lt(g, l, x, NextOf(r)))
    <3>1. AdjacentTo(g, r)
      BY DEF Adjacent
    <3> QED BY <1>4, <2>1, <3>1 DEF AdjacentTo, NoConflict
  <2>3. CASE g.lab[r].rf = pred
    <3>1. NextOf(r) \in OlderIn(g, w) /\ IsRMWOp(g.lab[NextOf(r)].ins)
      BY <1>2, <1>3, <2>1
    <3>2. PICK y \in OlderIn(g, w) : co_lt(g, l, pred, y) /\ co_lt(g, l, y, NextOf(r))
      BY <1>4, <3>1 DEF COAtomic
    <3>3. y \in ToSet(g.co[l])
      BY <3>2 DEF OlderIn
    <3> QED BY <2>2, <2>3, <3>2, <3>3
  <2>4. CASE co_lt(g, l, g.lab[r].rf, pred)
    <3>1. pred \in ToSet(g.co[l])
      <4> HIDE DEF l
      <4> QED BY <1>1, <2>4, StoreBefore
    <3> QED BY <1>4, <2>2, <2>4, <3>1
  <2> QED BY <1>4, <2>3, <2>4
<1> QED BY <1>2, <1>4 DEF Apart

(************************* Cuts and what is atomic *************************)

(* What a view leaves of a graph: the RMWs that it keeps keep their store.  *)
LEMMA ShrunkCarries ==
  ASSUME NEW p, ProgramOK(p), NEW g, GraphOK(p, g, {}), NoDangling(g), NEW v, ViewOK(g, v), Lossless(g, v),
         NEW k, Shrunk(g, k, KeptEvents(g, v)), \A l \in Locs : k.co[l] = Kept(g.co[l], KeptEvents(g, v))
  PROVE  Carries(g, k, Bottom)
<1> DEFINE K == KeptEvents(g, v)
<1>1. /\ v \subseteq K /\ InitEvent \in K /\ K \subseteq Events(g)
      /\ \A e \in K : e[2] > 0 <=> e \in v
  BY ViewClosed DEF KeptEvents, Closed
<1>2. Shrunk(g, k, K) /\ \A l \in Locs : k.co[l] = Kept(g.co[l], K)
  OBVIOUS
<1> HIDE DEF K
<1>3. Events(k) = K /\ Events(g) \cap Events(k) = K /\ Events(k) \ Events(g) = {}
  BY <1>1, <1>2 DEF Shrunk
<1>4. SameLabels(g, k) /\ SameOrder(g, k)
  BY <1>2, <1>3 DEF SameLabels, SameOrder, Shrunk
<1>5. SamePrefixes(g, k, Bottom)
  BY <1>2, <1>3 DEF SamePrefixes, FullPrefix, Shrunk
<1>6. SameRMWs(g, k, Bottom)
  <2>1. Bottom \notin RMWReads(k)
    <3>1. \A q \in RMWReads(k) : q \in Nat \X Nat
      BY <1>1, <1>3, RMWReadIs, EventsArePairs
    <3> QED BY <3>1, PairNotBottom
  <2>2. ASSUME NEW q \in RMWReads(k) PROVE q \in RMWReads(g) /\ k.lab[q].rf = g.lab[q].rf
    <3>1. q \in K /\ NextOf(q) \in K
      BY <1>3, RMWReadIs
    <3>2. q \in RMWReads(g)
      BY <1>1, <1>2, <1>3, <3>1, RMWReadIs DEF Shrunk
    <3>3. q \in Reads(g) /\ g.lab[q].ins.op # "R" /\ g.lab[q].typ = "R" /\ q \in Events(g)
      BY <3>2, RMWReadIs DEF RMWReads, IsRMWOp
    <3>4. g.lab[q].ins.mo # "na" /\ g.lab[q].rf # Bottom
      BY <3>3, RMWHasItsStore
    <3>5. q[2] > 0 /\ NextOf(q)[2] > 0
      <4>1. q \in Nat \X Nat
        BY <3>3, EventsArePairs
      <4>2. q[2] # 0
        BY <3>3 DEF GraphOK, Kinds
      <4>3. NextOf(q)[2] = q[2] + 1
        BY DEF NextOf
      <4> QED BY <4>1, <4>2, <4>3
    <3>6. q \in v /\ NextOf(q) \in v
      BY <1>1, <3>1, <3>5
    <3>7. g.lab[q].rf \in K
      BY <1>1, <3>3, <3>4, <3>6 DEF Lossless
    <3> QED BY <1>2, <3>1, <3>2, <3>7 DEF Shrunk
  <2> QED BY <2>1, <2>2 DEF SameRMWs
<1>7. SameCo(g, k, Bottom)
  <2> SUFFICES ASSUME NEW l \in Locs
               PROVE  /\ ToSet(k.co[l]) \subseteq ToSet(g.co[l])
                      /\ \A a, b \in K : co_lt(k, l, a, b) <=> co_lt(g, l, a, b)
    BY <1>3 DEF SameCo
  <2> DEFINE s == g.co[l]
             t == k.co[l]
  <2>1. IsCo(s)
    BY CoIsCo
  <2>2. t = Kept(s, K)
    BY <1>2
  <2> HIDE DEF s, t
  <2>3. /\ ToSet(t) = ToSet(s) \cap K
        /\ \A a, b : a \in {InitEvent} \cup K /\ b \in K => (Precedes(t, a, b) <=> Precedes(s, a, b))
    BY <2>1, <2>2, KeptOrder
  <2> QED BY <2>3 DEF s, t, co_lt
<1> QED BY <1>4, <1>5, <1>6, <1>7 DEF Carries

(* Reads that lost their store are not RMWs. *)
LEMMA RepairPreserves ==
  ASSUME CheckerOK, NEW p, NEW k, GraphOK(p, k, LostReads(k))
  PROVE  LET h == repairDanglingReads(k)
         IN /\ GraphOK(p, h, {}) /\ Preserves(k, h) /\ Events(h) = Events(k)
            /\ Keeps(k, h, Events(k))
<1> DEFINE h == repairDanglingReads(k)
<1>1. PICK rf : Reread(k, h, rf) /\ DOMAIN rf = LostReads(k) /\ LastReads(k, rf)
  BY RepairOK
<1>2. GraphOK(p, h, {})
  BY RepairOK
<1>3. LostReads(k) \subseteq Reads(k)
  BY DEF LostReads
<1> HIDE DEF h
<1>4. Preserves(k, h) /\ Events(h) = Events(k)
  BY <1>1, <1>2, <1>3, RereadPreserves
<1>5. Keeps(k, h, Events(k))
  BY <1>1, RereadKeeps
<1> QED BY <1>2, <1>4, <1>5 DEF h

(* All items that are left refer to events that the cut leaves. *)
LEMMA CutKeepsItems ==
  ASSUME CheckerOK, NEW p, NEW x, ExecOK(p, x), x.workqueue # <<>>,
         NEW c, c = CutEvent(Last(x.workqueue)), NEW v, v = getViewFromStamp(x.graph, Stamp(x.graph, c))
  PROVE  ItemsIn(x.workqueue, KeptEvents(x.graph, v))
<1> DEFINE g == x.graph
           item == Last(x.workqueue)
           n == Stamp(g, c)
           K == KeptEvents(g, v)
<1>1. GraphOK(p, g, {}) /\ ItemsOK(g, x.workqueue)
  BY DEF ExecOK
<1>2. item = x.workqueue[Len(x.workqueue)] /\ Len(x.workqueue) \in DOMAIN x.workqueue
  BY <1>1, FrontItems
<1>3. ItemOK(g, item)
  BY <1>1, <1>2 DEF ItemsOK
<1>4. c \in Events(g) /\ c[2] > 0
  BY <1>1, <1>3, CutOfItem
<1>5. n \in Nat /\ \A e \in Events(g) : Stamp(g, e) \in Nat
  BY <1>1, <1>4, StampFacts
<1>6. \A e : e \in v <=> e \in Events(g) /\ e[2] > 0 /\ Stamp(g, e) <= n
  BY DEF getViewFromStamp
<1>7. v \subseteq K /\ InitEvent \in K
  <2>1. ViewOK(g, v)
    BY <1>1, <1>5, StampView
  <2> QED BY <1>1, <2>1, ViewClosed DEF KeptEvents, Closed
<1> HIDE DEF K, n
<1>8. ASSUME NEW j \in DOMAIN x.workqueue PROVE x.workqueue[j].pos \in K /\ x.workqueue[j].rev \in K
  <2> DEFINE it == x.workqueue[j]
             d == CutEvent(it)
  <2>1. ItemOK(g, it)
    BY <1>1 DEF ItemsOK
  <2>2. Stamp(g, d) <= n
    <3>1. j \in 1 .. Len(x.workqueue)
      BY <1>1 DEF ItemsOK, IsSeq
    <3> QED BY <1>1, <1>2, <3>1 DEF ItemsOK, n
  <2>3. d \in Events(g)
    BY <1>1, <2>1, CutOfItem
  <2> HIDE DEF d
  <2>4. ASSUME NEW e, e \in Events(g), e[2] > 0, Stamp(g, e) <= Stamp(g, d) PROVE e \in K
    <3>1. Stamp(g, e) <= n
      BY <1>5, <2>2, <2>3, <2>4
    <3> QED BY <1>6, <1>7, <2>4, <3>1
  <2>5. it.pos \in Events(g) /\ it.pos[2] > 0 /\ Stamp(g, it.pos) <= Stamp(g, d)
    BY <2>1 DEF ItemOK, d
  <2>6. it.rev = InitEvent \/ (it.rev \in Events(g) /\ it.rev[2] > 0 /\ Stamp(g, it.rev) <= Stamp(g, d))
    BY <2>1 DEF ItemOK, d
  <2> QED BY <1>7, <2>4, <2>5, <2>6
<1> QED BY <1>8 DEF ItemsIn, K

(* A cut keeps what is atomic, for the item that is taken, too. *)
LEMMA CutAtomic ==
  ASSUME CheckerOK, NEW p, ProgramOK(p), NEW x, ExecOK(p, x), x.workqueue # <<>>, NoDangling(x.graph),
         ExecAtomic(x)
  PROVE  LET item == Last(x.workqueue)
             y == CutAt(x, CutEvent(item))
         IN ExecAtomic(y) /\ ItemAtomic(y.graph, item)
<1> DEFINE g == x.graph
           item == Last(x.workqueue)
           c == CutEvent(item)
           n == Stamp(g, c)
           v == getViewFromStamp(g, n)
           k == cutToStamp(g, n)
           K == KeptEvents(g, v)
           h == repairDanglingReads(k)
           items == x.workqueue
<1>1. GraphOK(p, g, {}) /\ ItemsOK(g, items)
  BY DEF ExecOK
<1>2. /\ item = items[Len(items)] /\ Len(items) \in DOMAIN items
      /\ \A j \in DOMAIN Front(items) : j \in DOMAIN items /\ Front(items)[j] = items[j]
  BY <1>1, FrontItems
<1>3. ItemOK(g, item)
  BY <1>1, <1>2 DEF ItemsOK
<1>4. c \in Events(g) /\ c[2] > 0
  BY <1>1, <1>3, CutOfItem
<1>5. n \in Nat
  BY <1>1, <1>4, StampFacts
<1>6. ViewOK(g, v) /\ PrefixView(g, v) /\ Lossless(g, v)
  BY <1>1, <1>5, StampView
<1>7. Shrunk(g, k, K) /\ CutLabels(g, k, v)
  BY <1>1, <1>6, CutShrinks, CutCuts
<1>8. CutAt(x, c) = [graph |-> h, workqueue |-> Front(items)]
  BY DEF CutAt
<1>9. ItemsIn(items, K)
  BY CutKeepsItems
<1>10. \A e : e \in v <=> e \in Events(g) /\ e[2] > 0 /\ Stamp(g, e) <= n
  BY DEF getViewFromStamp
<1> HIDE DEF item, c, n, v, k
<1>11. GraphOK(p, k, LostReads(k))
  BY <1>1, <1>6, <1>7, ShrunkToView
<1>12. Carries(g, k, Bottom)
  BY <1>1, <1>6, <1>7, ShrunkCarries DEF CutLabels
<1>13. Events(k) = K /\ K \subseteq Events(g) /\ v \subseteq K /\ \A e \in K : e[2] > 0 <=> e \in v
  BY <1>1, <1>6, <1>7, ViewClosed DEF KeptEvents, Shrunk
<1> HIDE DEF K
<1>14. KeepsOlder(g, k)
  <2> SUFFICES ASSUME NEW e \in Writes(g), NEW d \in Events(g) \cap Events(k), d[2] > 0, Stamp(g, e) < Stamp(g, d)
               PROVE  e \in v
    BY <1>13 DEF KeepsOlder
  <2>1. e \in Events(g) /\ g.lab[e].typ = "W"
    BY DEF Writes, OfType
  <2>2. e[2] # 0 /\ e[2] \in Nat
    BY <1>1, <2>1, EventsArePairs DEF GraphOK, Kinds
  <2>3. Stamp(g, d) <= n
    BY <1>10, <1>13
  <2>4. Stamp(g, e) \in Nat /\ Stamp(g, d) \in Nat
    BY <1>1, <2>1, StampFacts
  <2>5. e[2] > 0 /\ Stamp(g, e) <= n
    BY <1>5, <2>2, <2>3, <2>4
  <2> QED BY <1>10, <2>1, <2>5
<1>15. Writes(k) \ Events(g) = {}
  BY <1>13 DEF Writes, OfType
<1>16. Preserves(g, k)
  BY <1>1, <1>11, <1>12, <1>14, <1>15, CarriedPreserves
<1>17. GraphOK(p, h, {}) /\ Preserves(k, h) /\ Events(h) = Events(k) /\ Keeps(k, h, Events(k))
  BY <1>11, RepairPreserves
<1> HIDE DEF h
<1>18. ItemsOK(k, items)
  BY <1>1, <1>7, <1>9, ShrunkKeeps, KeptItems DEF K
<1>19. ItemsOK(h, items)
  BY <1>11, <1>17, <1>18, KeptAll
<1>20. GraphAtomic(g) /\ ItemsAtomic(g, items)
  BY DEF ExecAtomic
<1>21. GraphAtomic(k) /\ ItemsAtomic(k, items)
  BY <1>1, <1>13, <1>16, <1>18, <1>20 DEF Preserves, GraphAtomic
<1>22. GraphAtomic(h) /\ ItemsAtomic(h, items)
  BY <1>17, <1>18, <1>19, <1>21 DEF Preserves, GraphAtomic
<1>23. ItemsAtomic(h, Front(items)) /\ ItemAtomic(h, item)
  BY <1>2, <1>22 DEF ItemsAtomic
<1> QED BY <1>8, <1>22, <1>23 DEF ExecAtomic, c, item

(************************* Which conflicts there are ***********************)

(* There is one youngest event. *)
LEMMA YoungestOnce ==
  ASSUME NEW p, NEW g, NEW X, GraphOK(p, g, X), NEW c, NEW d, Youngest(g, c), Youngest(g, d), c[2] > 0, d[2] > 0
  PROVE  c = d
<1>1. c \in Events(g) /\ d \in Events(g) /\ Stamp(g, c) <= Stamp(g, d) /\ Stamp(g, d) <= Stamp(g, c)
  BY DEF Youngest
<1>2. Stamp(g, c) \in Nat /\ Stamp(g, d) \in Nat
  BY <1>1, StampFacts
<1>3. Stamp(g, c) = Stamp(g, d)
  BY <1>1, <1>2
<1> QED BY <1>1, <1>3 DEF GraphOK, Stamps

(* The parts of an RMW. *)
LEMMA RMWParts ==
  ASSUME NEW p, NEW g, NEW X, GraphOK(p, g, X), NEW r \in RMWReads(g)
  PROVE  /\ r \in Events(g) /\ r \in Reads(g) /\ g.lab[r].typ = "R" /\ IsRMWOp(g.lab[r].ins) /\ g.lab[r].ins.op # "R"
         /\ r \in Nat \X Nat /\ r[2] > 0
         /\ NextOf(r) \in Events(g) /\ NextOf(r) \in Writes(g) /\ g.lab[NextOf(r)].typ = "W" /\ NextOf(r)[2] > 0
         /\ NextOf(r) # InitEvent
         /\ Stamp(g, r) < Stamp(g, NextOf(r)) /\ Stamp(g, r) \in Nat /\ Stamp(g, NextOf(r)) \in Nat
         /\ Loc(g, r) \in Locs
<1>1. /\ r \in Events(g) /\ r \in Reads(g) /\ g.lab[r].typ = "R" /\ IsRMWOp(g.lab[r].ins) /\ g.lab[r].ins.op # "R"
      /\ NextOf(r) \in Events(g) /\ NextOf(r) \in Writes(g) /\ g.lab[NextOf(r)].typ = "W"
  BY RMWReadIs DEF RMWReads, IsRMWOp, Writes, OfType
<1>2. r \in Nat \X Nat
  BY <1>1, EventsArePairs
<1>3. r[2] # 0
  BY <1>1 DEF GraphOK, Kinds
<1>4. NextOf(r)[2] = r[2] + 1
  BY DEF NextOf
<1>5. NextOf(r) # InitEvent
  BY <1>1 DEF GraphOK, Kinds
<1>6. Stamp(g, r) < Stamp(g, NextOf(r)) /\ Stamp(g, r) \in Nat /\ Stamp(g, NextOf(r)) \in Nat
  BY <1>1, <1>2, NextIn
<1>7. Loc(g, r) \in Locs
  BY <1>1, CoOf
<1>8. r[2] > 0 /\ NextOf(r)[2] > 0
  BY <1>2, <1>3, <1>4
<1> QED BY <1>1, <1>2, <1>5, <1>6, <1>7, <1>8

(* A cut that ends with something else than an RMW's write leaves no        *)
(* conflict.                                                                *)
LEMMA NoConflictLeft ==
  ASSUME NEW p, NEW g, NEW X, GraphOK(p, g, X), ConflictLast(g), NEW c, Youngest(g, c), c[2] > 0,
         \A b \in RMWReads(g) : NextOf(b) # c
  PROVE  NoConflict(g)
<1> SUFFICES ASSUME NEW r \in RMWReads(g), NEW q \in RMWReads(g), Compete(g, r, q) PROVE FALSE
  BY DEF NoConflict
<1>1. Youngest(g, NextOf(r)) \/ Youngest(g, NextOf(q))
  BY DEF ConflictLast
<1>2. NextOf(r)[2] > 0 /\ NextOf(q)[2] > 0
  BY RMWParts
<1> QED BY <1>1, <1>2, YoungestOnce

(* Only what is young conflicts. *)
LEMMA ConflictIsLast ==
  ASSUME NEW g, NEW c, Youngest(g, c), NoConflictBut(g, c)
  PROVE  ConflictLast(g)
BY DEF ConflictLast, NoConflictBut

(* Without conflicts nothing is asked of them. *)
LEMMA NoConflictIsLast ==
  ASSUME NEW g, NoConflict(g)
  PROVE  ConflictLast(g) /\ \A c : NoConflictBut(g, c)
BY DEF ConflictLast, NoConflictBut, NoConflict

(* The conflicting RMWs that findPendingRMW looks for. *)
LEMMA PendingIs ==
  ASSUME NEW p, NEW g, NEW X, GraphOK(p, g, X), Paired(g), NEW b \in RMWReads(g), NEW q \in RMWReads(g),
         Compete(g, b, q), NEW s, s = NextOf(b)
  PROVE  NextOf(q) \in PendingRMWs(g, s)
<1>1. b \in Events(g) /\ s \in Writes(g) /\ g.lab[s].typ = "W" /\ IsRMWOp(g.lab[b].ins) /\ b \in Nat \X Nat
  BY RMWParts
<1>2. g.lab[s].ins = g.lab[b].ins
  BY <1>1 DEF Paired
<1>3. IsRMWWrite(g, s) /\ Loc(g, s) = Loc(g, b)
  BY <1>1, <1>2 DEF IsRMWWrite, Loc
<1>4. <<s[1], s[2] - 1>> = b
  <2>1. b = <<b[1], b[2]>> /\ b[1] \in Nat /\ b[2] \in Nat
    BY <1>1
  <2>2. s[1] = b[1] /\ s[2] = b[2] + 1
    BY DEF NextOf
  <2>3. s[2] - 1 = b[2]
    BY <2>1, <2>2
  <2> QED BY <2>1, <2>2, <2>3
<1>5. q \in readers(g, g.lab[b].rf, Loc(g, s)) \ {b} /\ IsRMWRead(g, q)
  BY <1>3 DEF readers, Compete, RMWReads
<1>6. NextOf(q) = <<q[1], q[2] + 1>>
  BY DEF NextOf
<1> QED BY <1>3, <1>4, <1>5, <1>6 DEF PendingRMWs

(* If violatesAtomicity() says no about the only write that may be in       *)
(* conflict, none is.                                                       *)
LEMMA NoPending ==
  ASSUME NEW p, NEW g, NEW X, GraphOK(p, g, X), Paired(g), NEW s, NoConflictBut(g, s), ~violatesAtomicity(g, s)
  PROVE  NoConflict(g)
<1> SUFFICES ASSUME NEW r \in RMWReads(g), NEW q \in RMWReads(g), Compete(g, r, q) PROVE FALSE
  BY DEF NoConflict
<1>1. Compete(g, q, r)
  BY DEF Compete
<1>2. NextOf(r) = s \/ NextOf(q) = s
  BY DEF NoConflictBut
<1>3. PendingRMWs(g, s) = {}
  BY DEF violatesAtomicity
<1> QED BY <1>1, <1>2, <1>3, PendingIs

(* The other way round: a pending RMW reads the same store. *)
LEMMA PendingReads ==
  ASSUME NEW p, NEW g, NEW X, GraphOK(p, g, X), NEW b \in Nat \X Nat, NEW s, s = NextOf(b), violatesAtomicity(g, s)
  PROVE  \E q \in RMWReads(g) : q # b /\ g.lab[q].rf = g.lab[b].rf /\ Loc(g, q) = Loc(g, s)
<1>1. <<s[1], s[2] - 1>> = b
  <2>1. b = <<b[1], b[2]>> /\ b[1] \in Nat /\ b[2] \in Nat
    OBVIOUS
  <2>2. s[1] = b[1] /\ s[2] = b[2] + 1
    BY DEF NextOf
  <2>3. s[2] - 1 = b[2]
    BY <2>1, <2>2
  <2> QED BY <2>1, <2>2, <2>3
<1>2. \E q \in readers(g, g.lab[b].rf, Loc(g, s)) \ {b} : IsRMWRead(g, q)
  BY <1>1 DEF violatesAtomicity, PendingRMWs
<1> QED BY <1>2 DEF readers, RMWReads

(* No RMW reads the store of an item before the item is taken. *)
LEMMA NobodyReads ==
  ASSUME NEW p, NEW g, GraphOK(p, g, {}), Whole(g, {}), NEW w \in Events(g), g.lab[w].typ = "W", Youngest(g, w),
         w \notin Settled(g)
  PROVE  \A q \in RMWReads(g) : g.lab[q].rf # w
<1> SUFFICES ASSUME NEW q \in RMWReads(g), g.lab[q].rf = w PROVE FALSE
  OBVIOUS
<1>1. w \in Nat \X Nat /\ w # Bottom
  BY EventsArePairs, PairNotBottom
<1>2. w[2] # 0
  BY DEF GraphOK, Kinds
<1>3. q \in Reads(g) /\ g.lab[q].ins.op # "R" /\ q \in Events(g) /\ q[2] > 0
  BY RMWParts
<1>4. Stamp(g, w) \in Nat /\ Stamp(g, q) \in Nat /\ Stamp(g, w) < Stamp(g, q)
  BY <1>1, <1>2, <1>3, RMWStoreIs
<1>5. Stamp(g, q) <= Stamp(g, w)
  BY <1>3 DEF Youngest
<1> QED BY <1>4, <1>5

(* The copy that a backward revisit works on has no conflicts, and no RMW   *)
(* reads the revisiting store.                                              *)
LEMMA CopyAtomic ==
  ASSUME CheckerOK, NEW p, ProgramOK(p), NEW g, GraphOK(p, g, {}), Joins(g), NoDangling(g), SettledOK(g), Whole(g, {}),
         NEW item, ItemOK(g, item), item.kind = "BR", ItemSettled(g, item), Youngest(g, item.rev),
         GraphAtomic(g), ItemAtomic(g, item)
  PROVE  LET y == Copied(g, item)
         IN /\ Paired(y.graph) /\ Adjacent(y.graph) /\ NoConflict(y.graph) /\ y.workqueue = <<>>
            /\ \A q \in RMWReads(y.graph) : y.graph.lab[q].rf # item.rev
<1> DEFINE r == item.pos
           s == item.rev
           P == FullPrefix(g, s)
           v == getRevisitView(g, r, s)
           k == copyGraph(g, r, s)
           j == getCopyUpTo(g, v)
           K == KeptEvents(g, v)
           h == repairDanglingReads(k)
<1>1. Copied(g, item) = [graph |-> h, workqueue |-> <<>>]
  BY DEF Copied
<1>2. Copies(p, g, item, k, v)
  BY CopySteps
<1>3. k = Settle(j, getPrefixView(g, s))
  BY DEF copyGraph
<1>4. /\ r \in Events(g) /\ r[2] > 0 /\ g.lab[r].typ = "R"
      /\ s \in Events(g) /\ g.lab[s].typ = "W" /\ r \notin P
      /\ ViewOK(g, v) /\ v = getViewFromStamp(g, Stamp(g, r)) \cup P
      /\ Shrunk(g, k, K) /\ GraphOK(p, k, LostReads(k))
  BY <1>2 DEF Copies
<1>5. Lossless(g, v)
  BY <1>4, RevisitView DEF CheckerOK
<1>6. Shrunk(g, j, K) /\ CutLabels(g, j, v)
  BY <1>4, CopyShrinks, CopyCuts
<1>7. \A l \in Locs : k.co[l] = Kept(g.co[l], K)
  <2>1. DOMAIN j = {"stamp", "lab", "co", "lin"}
    BY <1>6 DEF Shrunk, GraphOK, Shape
  <2>2. k.co = j.co
    BY <1>3, <2>1 DEF Settle
  <2> QED BY <1>6, <2>2 DEF CutLabels
<1>8. \A e : e \in v <=> (e \in Events(g) /\ e[2] > 0 /\ Stamp(g, e) <= Stamp(g, r)) \/ e \in P
  BY <1>4 DEF getViewFromStamp
<1> HIDE DEF k, v, j
<1>9. Carries(g, k, Bottom)
  BY <1>4, <1>5, <1>7, ShrunkCarries
<1>10. Events(k) = K /\ K \subseteq Events(g) /\ \A e \in K : e[2] > 0 <=> e \in v
  <2>1. ViewOK(g, v)
    BY <1>4
  <2>2. \A e \in K : e \in Events(g) /\ (e[2] > 0 <=> e \in v)
    BY <2>1, ViewClosed DEF KeptEvents
  <2>3. Events(k) = K
    BY <1>4 DEF Shrunk
  <2> QED
    BY <2>2, <2>3
<1> HIDE DEF K
<1>11. Writes(k) \ Events(g) = {}
  BY <1>10 DEF Writes, OfType
<1>12. Paired(k) /\ Adjacent(k)
  BY <1>4, <1>9, <1>11, CarriedGraph DEF GraphAtomic
<1>13. ASSUME NEW b \in RMWReads(k), NEW q \in RMWReads(k), Compete(k, b, q), NextOf(b) = s PROVE FALSE
  <2>1. b \in RMWReads(g) /\ q \in RMWReads(g) /\ Compete(g, b, q)
    <3>1. b \in Nat \X Nat /\ q \in Nat \X Nat
      BY <1>4, RMWParts
    <3>2. b # Bottom /\ q # Bottom
      BY <3>1, PairNotBottom
    <3> QED BY <1>9, <1>13, <3>2, CarriedCompete
  <2>2. Stamp(g, r) <= Stamp(g, NextOf(q)) /\ NextOf(q) \notin P
    BY <1>13, <2>1 DEF ItemAtomic, BRAtomic
  <2>3. /\ NextOf(q) \in Events(g) /\ NextOf(q)[2] > 0 /\ g.lab[NextOf(q)].typ = "W"
        /\ Stamp(g, NextOf(q)) \in Nat
    BY <2>1, RMWParts
  <2>4. NextOf(q) \in K
    BY <1>4, <1>10, RMWParts
  <2>5. Stamp(g, NextOf(q)) <= Stamp(g, r)
    BY <1>8, <1>10, <2>2, <2>3, <2>4
  <2>6. Stamp(g, r) \in Nat
    BY <1>4, StampFacts
  <2>7. Stamp(g, NextOf(q)) = Stamp(g, r)
    BY <2>2, <2>3, <2>5, <2>6
  <2>8. NextOf(q) = r
    BY <1>4, <2>3, <2>7 DEF GraphOK, Stamps
  <2> QED BY <1>4, <2>3, <2>8
<1>14. s[2] > 0
  <2>1. s \in Nat \X Nat
    BY <1>4, EventsArePairs
  <2>2. s[2] # 0
    BY <1>4 DEF GraphOK, Kinds
  <2> QED BY <2>1, <2>2
<1>15. NoConflict(k)
  <2> SUFFICES ASSUME NEW b \in RMWReads(k), NEW q \in RMWReads(k), Compete(k, b, q) PROVE FALSE
    BY DEF NoConflict
  <2>1. b # Bottom /\ q # Bottom
    <3>1. b \in Nat \X Nat /\ q \in Nat \X Nat
      BY <1>4, RMWParts
    <3> QED BY <3>1, PairNotBottom
  <2>2. b \in RMWReads(g) /\ q \in RMWReads(g) /\ Compete(g, b, q)
    BY <1>9, <2>1, CarriedCompete
  <2>3. Youngest(g, NextOf(b)) \/ Youngest(g, NextOf(q))
    BY <2>2 DEF GraphAtomic, ConflictLast
  <2>4. NextOf(b)[2] > 0 /\ NextOf(q)[2] > 0
    BY <2>2, RMWParts
  <2>5. NextOf(b) = s \/ NextOf(q) = s
    BY <1>14, <2>3, <2>4, YoungestOnce
  <2>6. Compete(k, q, b)
    BY DEF Compete
  <2> QED BY <1>13, <2>5, <2>6
<1>16. GraphOK(p, h, {}) /\ Preserves(k, h)
  BY <1>4, RepairPreserves
<1>17. Paired(h) /\ Adjacent(h) /\ NoConflict(h)
  BY <1>12, <1>15, <1>16 DEF Preserves
<1>18. PICK rf : Reread(k, h, rf) /\ DOMAIN rf = LostReads(k)
  BY <1>4, RepairOK
<1>19. ASSUME NEW q \in RMWReads(h), h.lab[q].rf = s PROVE FALSE
  <2> HIDE DEF h
  <2>1. RMWReads(h) = RMWReads(k)
    BY <1>18, TextRMWs DEF Reread
  <2>2. q \in RMWReads(k) /\ q \in Events(k) /\ NextOf(q) \in Events(k) /\ q \in Nat \X Nat
    BY <1>4, <1>19, <2>1, RMWParts
  <2>3. q \notin LostReads(k)
    <3>1. NextOf(q)[1] = q[1] /\ NextOf(q)[2] = q[2] + 1
      BY DEF NextOf
    <3>2. ~IsLast(k, q)
      BY <2>2, <3>1 DEF IsLast
    <3> QED BY <3>2 DEF LostReads
  <2>4. k.lab[q].rf = s
    BY <1>18, <1>19, <2>2, <2>3 DEF Reread
  <2>5. q \in RMWReads(g) /\ g.lab[q].rf = s
    BY <1>9, <2>2, <2>4, PairNotBottom, CarriedRMW
  <2>6. s \notin Settled(g)
    BY DEF ItemSettled, CutEvent
  <2> QED BY <1>4, <2>5, <2>6, NobodyReads
<1> HIDE DEF h
<1> QED BY <1>1, <1>17, <1>19

(************************** Revisits and what is atomic ********************)

(* The items of two queues. *)
LEMMA BothAtomic ==
  ASSUME NEW g, NEW items, IsSeq(items), ItemsAtomic(g, items), NEW more, IsSeq(more), ItemsAtomic(g, more)
  PROVE  ItemsAtomic(g, items \o more)
<1> DEFINE all == items \o more
<1>1. items \in Seq(ToSet(items)) /\ more \in Seq(ToSet(more))
  BY DEF IsSeq
<1>2. /\ Len(items) \in Nat /\ Len(more) \in Nat /\ DOMAIN items = 1 .. Len(items) /\ DOMAIN more = 1 .. Len(more)
      /\ DOMAIN all = 1 .. Len(items) + Len(more)
      /\ \A j \in DOMAIN all : all[j] = IF j <= Len(items) THEN items[j] ELSE more[j - Len(items)]
  BY <1>1
<1> HIDE DEF all
<1>3. ASSUME NEW j \in DOMAIN all
      PROVE  \/ j \in DOMAIN items /\ all[j] = items[j]
             \/ j - Len(items) \in DOMAIN more /\ all[j] = more[j - Len(items)]
  BY <1>2
<1>4. \A j \in DOMAIN all : ItemAtomic(g, all[j])
  BY <1>3 DEF ItemsAtomic
<1> QED BY <1>4 DEF ItemsAtomic, all

(* The write of no RMW that competes with the one of the store s is in the  *)
(* prefix of s.                                                             *)
Independent(g, s) ==
    \A b, q \in RMWReads(g) : NextOf(b) = s /\ Compete(g, b, q) => NextOf(q) \notin FullPrefix(g, s)

(* A store that was just placed: only its own RMW may compete with others. *)
JustPlaced(g, s) ==
    /\ s \in Events(g) /\ g.lab[s].typ = "W" /\ s \in ToSet(g.co[Loc(g, s)]) /\ Youngest(g, s)
    /\ Paired(g) /\ Adjacent(g) /\ NoConflictBut(g, s)

(* The revisit of a read by a store leaves out the RMWs that compete with   *)
(* the one of the store.                                                    *)
LEMMA RevisitItem ==
  ASSUME NEW p, NEW g, GraphOK(p, g, {}), NEW s, JustPlaced(g, s), Independent(g, s), NEW r \in getRevisitable(g, s),
         NEW item, item = Item("BR", r, s)
  PROVE  ItemOK(g, item) /\ CutEvent(item) = s /\ ItemAtomic(g, item)
<1>1. s \in Events(g) /\ g.lab[s].typ = "W" /\ s \in ToSet(g.co[Loc(g, s)]) /\ Youngest(g, s) /\ Paired(g)
  BY DEF JustPlaced
<1>2. /\ r \in Reads(g) /\ Loc(g, r) = Loc(g, s) /\ r \notin g.lab[s].prefix
      /\ \A w \in PendingRMWs(g, s) : Stamp(g, r) <= Stamp(g, w)
  BY DEF getRevisitable, readers, getPrefixView
<1>3. FullPrefix(g, s) = g.lab[s].prefix
  BY <1>1 DEF GraphOK, PrefixesOK, FullPrefix
<1>4. r \in Events(g) /\ g.lab[r].typ = "R"
  BY <1>2 DEF Reads, OfType
<1>5. r[2] > 0 /\ s[2] > 0
  <2>1. r[2] # 0 /\ s[2] # 0
    BY <1>1, <1>4 DEF GraphOK, Kinds
  <2>2. r[2] \in Nat /\ s[2] \in Nat
    BY <1>1, <1>4, ThreadOf
  <2> QED BY <2>1, <2>2
<1>6. Stamp(g, r) <= Stamp(g, s) /\ Stamp(g, s) <= Stamp(g, s)
  BY <1>1, <1>4, <1>5 DEF Youngest
<1>7. item.kind = "BR" /\ item.pos = r /\ item.rev = s
  BY DEF Item
<1>8. CutEvent(item) = s
  BY <1>7 DEF CutEvent
<1>9. ItemOK(g, item)
  BY <1>1, <1>2, <1>3, <1>4, <1>5, <1>6, <1>7, <1>8 DEF ItemOK, ItemKinds
<1>10. BRAtomic(g, r, s)
  <2> SUFFICES ASSUME NEW b \in RMWReads(g), NEW q \in RMWReads(g), NextOf(b) = s, Compete(g, b, q)
               PROVE  Stamp(g, r) <= Stamp(g, NextOf(q)) /\ NextOf(q) \notin FullPrefix(g, s)
    BY DEF BRAtomic
  <2>1. NextOf(q) \in PendingRMWs(g, s)
    BY <1>1, PendingIs
  <2> QED BY <1>2, <2>1 DEF Independent
<1> QED BY <1>7, <1>8, <1>9, <1>10 DEF ItemAtomic

(* The reads that a store revisits in place and the revisits that it        *)
(* pushes.                                                                  *)
LEMMA CalcAtomic ==
  ASSUME CheckerOK, NEW p, ProgramOK(p), NEW x, ExecOK(p, x), Ipr => NoDangling(x.graph), NEW s,
         JustPlaced(x.graph, s), Independent(x.graph, s), ItemsAtomic(x.graph, x.workqueue)
  PROVE  LET y == calcRevisits(x, s)
         IN /\ ExecAtomic(y) /\ NoConflictBut(y.graph, s)
            /\ NoConflict(x.graph) => NoConflict(y.graph)
<1> DEFINE y == calcRevisits(x, s)
           g == x.graph
           h == y.graph
<1>1. s \in Events(g) /\ g.lab[s].typ = "W" /\ s \in ToSet(g.co[Loc(g, s)]) /\ Youngest(g, s)
  BY DEF JustPlaced
<1>2. PICK reads, more : Calculated(x, y, s, reads, more)
  BY <1>1, CalcIs
<1>3. ExecOK(p, y) /\ Revisited(g, h, s)
  BY <1>1, CalcRevisitsOK
<1> HIDE DEF y
<1>4. GraphOK(p, g, {}) /\ GraphOK(p, h, {}) /\ ItemsOK(g, x.workqueue) /\ ItemsOK(h, y.workqueue)
  BY <1>3 DEF ExecOK
<1>5. \A j \in DOMAIN more : ItemOK(g, more[j]) /\ CutEvent(more[j]) = s /\ ItemAtomic(g, more[j])
  <2> TAKE j \in DOMAIN more
  <2>1. PICK r \in getRevisitable(g, s) : more[j] = Item("BR", r, s)
    BY <1>2 DEF Calculated
  <2> QED BY <1>4, <2>1, RevisitItem
<1>6. IsSeq(more) /\ y.workqueue = x.workqueue \o more
  BY <1>2 DEF Calculated
<1>7. ItemsOK(g, y.workqueue)
  BY <1>1, <1>4, <1>5, <1>6, PushItems
<1>8. ItemsAtomic(g, y.workqueue)
  <2>1. IsSeq(x.workqueue)
    BY <1>4 DEF ItemsOK
  <2>2. ItemsAtomic(g, more)
    BY <1>5 DEF ItemsAtomic
  <2> QED BY <1>6, <2>1, <2>2, BothAtomic
<1>9. Preserves(g, h) \/ h = g
  <2>1. \A r \in reads : r \in Reads(g) /\ Loc(g, r) = Loc(g, s)
    BY <1>2 DEF Calculated, getRevisitable, readers
  <2>2. CASE Ipr /\ h = revisitInPlace(g, reads, s) /\ \A r \in reads : ReadBlocks(g, r)
    <3>1. reads \subseteq Reads(g) /\ NoDangling(g) /\ \A r \in reads : Loc(g, r) = Loc(g, s) /\ ReadBlocks(g, r)
      BY <2>1, <2>2
    <3>2. PICK k, K, rf : InPlace(p, g, k, h, rf, K)
      BY <1>1, <1>4, <2>2, <3>1, RevisitInPlaceSteps
    <3> QED BY <1>4, <3>2, InPlacePreserves
  <2> QED BY <1>2, <2>2 DEF Calculated
<1>10. Paired(g) /\ Adjacent(g) /\ NoConflictBut(g, s)
  BY DEF JustPlaced
<1>11. /\ Paired(h) /\ Adjacent(h) /\ NoConflictBut(h, s) /\ ItemsAtomic(h, y.workqueue)
       /\ NoConflict(g) => NoConflict(h)
  BY <1>4, <1>7, <1>8, <1>9, <1>10 DEF Preserves
<1>12. Youngest(h, s)
  <2>1. s \in Events(h) /\ \A e \in Events(h) : e \in Events(g)
    BY <1>1, <1>3 DEF Revisited
  <2> QED BY <1>1, <1>3, <2>1 DEF Revisited, Keeps, Youngest
<1>13. ConflictLast(h)
  BY <1>11, <1>12, ConflictIsLast
<1> QED BY <1>11, <1>13 DEF ExecAtomic, GraphAtomic, y

(************************ The write of an RMW is added *********************)

(* The writes of the RMWs that read the same store as r are not in the      *)
(* prefix of r.                                                             *)
Clear(g, r) ==
    \A q \in RMWReads(g) : g.lab[q].rf = g.lab[r].rf /\ Loc(g, q) = Loc(g, r) => NextOf(q) \notin g.lab[r].prefix

(* The RMWs that read w are not in the prefix of the event before r. *)
Free(g, r, w) ==
    \A q \in RMWReads(g) : \A b \in Events(g) :
        g.lab[q].rf = w /\ Loc(g, q) = Loc(g, r) /\ NextOf(b) = r => q \notin FullPrefix(g, b)

(* The prefix of an access that is added after r. *)
LEMMA PrefixOfAccess ==
  ASSUME CheckerOK, NEW p, NEW h, GraphOK(p, h, {}), NEW r \in Events(h), NEW l, LabelOK(p, h, l),
         l.pos = NextOf(r), l.pos \notin Events(h), l.typ \in {"R", "W"}
  PROVE  addLabelToGraph(h, l).lab[l.pos].prefix = UpTo(l.pos) \cup h.lab[r].prefix
<1> DEFINE a == add(h, l)
           s == l.pos
           m == [l EXCEPT !.views = CalculateViews(a, l.pos), !.prefix = CalculatePrefixView(a, l.pos)]
<1>1. Shape(h) /\ Stamps(h) /\ DOMAIN l = LabelFields /\ l.rf = Bottom
  BY DEF GraphOK, LabelOK
<1>2. Added(h, a, l)
  BY <1>1, AddAdds
<1>3. Added(h, addLabelToGraph(h, l), m)
  BY <1>1, AddLabelAdds
<1> HIDE DEF a
<1>4. m.pos = l.pos /\ m.prefix = PrefixOf(a, s)
  BY <1>1, LabelFieldsAre DEF CheckerOK
<1> HIDE DEF m
<1>5. r \in Nat \X Nat
  BY EventsArePairs
<1>6. s[1] = r[1] /\ s[2] = r[2] + 1 /\ <<s[1], s[2] - 1>> = r
  BY <1>5 DEF NextOf
<1>7. s[2] # 0
  BY <1>5, <1>6
<1>8. r \in Events(a) /\ a.lab[s] = l /\ a.lab[r] = h.lab[r]
  BY <1>2 DEF Added
<1>9. po_imm_pred(a, s) = {r} /\ rf_pred(a, s) = {} /\ tc_pred(a, s) = {} /\ tj_pred(a, s) = {}
  BY <1>1, <1>6, <1>7, <1>8 DEF po_imm_pred, rf_pred, tc_pred, tj_pred
<1>10. PrefixOf(a, s) = UpTo(s) \cup UNION {a.lab[d].prefix : d \in {r} \cup {} \cup {} \cup {}}
  BY <1>9 DEF PrefixOf
<1>11. UNION {a.lab[d].prefix : d \in {r} \cup {} \cup {} \cup {}} = h.lab[r].prefix
  BY <1>8
<1> QED BY <1>3, <1>4, <1>10, <1>11 DEF Added

(* A read that gets a store is clear if it is free of the RMWs that read    *)
(* the store.                                                               *)
LEMMA FreeIsClear ==
  ASSUME NEW p, NEW g, GraphOK(p, g, {}), NEW h, NEW rf, Reread(g, h, rf), LastReads(g, rf), NEW r,
         DOMAIN rf = {r}, NEW w, rf[r] = w, Free(g, r, w)
  PROVE  Clear(h, r)
<1>1. /\ r \in Events(g) /\ r \in Nat \X Nat /\ r[2] # 0 /\ g.lab[r].typ = "R" /\ <<r[1], r[2] - 1>> \in Events(g)
      /\ IsLast(g, r) /\ w \in StoresOf(g, r)
  BY LastReadsAre DEF LastReads
<1> DEFINE b == <<r[1], r[2] - 1>>
<1>2. /\ SameText(g, h) /\ h.lab[r].rf = w
      /\ h.lab[r].prefix = UpTo(r) \cup g.lab[b].prefix \cup g.lab[w].prefix
      /\ \A e \in Events(g) \ {r} : h.lab[e].rf = g.lab[e].rf
  BY DEF Reread
<1>3. NextOf(b) = r /\ b \in Nat \X Nat /\ b \in Events(g)
  BY <1>1 DEF NextOf
<1> HIDE DEF b
<1> SUFFICES ASSUME NEW q \in RMWReads(h), h.lab[q].rf = w, Loc(h, q) = Loc(h, r), NextOf(q) \in h.lab[r].prefix
             PROVE  FALSE
  BY <1>2 DEF Clear
<1>4. q \in RMWReads(g)
  BY <1>2, TextRMWs
<1>5. /\ q \in Events(g) /\ q \in Nat \X Nat /\ q[2] > 0 /\ NextOf(q) \in Events(g) /\ g.lab[NextOf(q)].typ = "W"
      /\ q \in Reads(g) /\ Stamp(g, NextOf(q)) \in Nat
  BY <1>4, RMWParts
<1>6. q # r
  BY <1>1, <1>5 DEF IsLast, NextOf
<1>7. g.lab[q].rf = w /\ Loc(g, q) = Loc(g, r)
  BY <1>1, <1>2, <1>5, <1>6 DEF SameText, Loc
<1>8. q \notin FullPrefix(g, b)
  BY <1>3, <1>4, <1>7 DEF Free
<1>9. CASE NextOf(q) \in UpTo(r)
  <2>1. q[1] = r[1] /\ q[2] + 1 <= r[2]
    BY <1>9 DEF UpTo, NextOf
  <2>2. b[1] = r[1] /\ b[2] = r[2] - 1
    BY <1>1 DEF b
  <2>3. q[2] \in 1 .. b[2] /\ q = <<b[1], q[2]>>
    BY <1>1, <1>5, <2>1, <2>2
  <2> QED BY <1>8, <2>3 DEF FullPrefix, UpTo
<1>10. CASE NextOf(q) \in g.lab[b].prefix
  <2>1. g.lab[b].typ # "B"
    <3>1. ~IsLast(g, b)
      BY <1>1, <1>3 DEF IsLast, NextOf
    <3> QED BY <1>3, <3>1 DEF GraphOK, Kinds
  <2>2. PrefixOK(g, b)
    BY <1>3, <2>1 DEF GraphOK, PrefixesOK
  <2>3. FullPrefix(g, NextOf(q)) \subseteq FullPrefix(g, b)
    BY <1>10, <2>2 DEF PrefixOK, FullPrefix
  <2>4. q \in UpTo(NextOf(q))
    <3>1. q[2] \in 1 .. q[2] + 1 /\ q = <<q[1], q[2]>>
      BY <1>5
    <3> QED BY <3>1 DEF UpTo, NextOf
  <2> QED BY <1>8, <2>3, <2>4 DEF FullPrefix
<1>11. CASE NextOf(q) \in g.lab[w].prefix
  <2>1. w \in Events(g) /\ w # Bottom /\ (w = InitEvent \/ g.lab[w].typ = "W")
    BY <1>1, StoresAre
  <2>2. w # InitEvent
    BY <1>11 DEF GraphOK, Threads
  <2>3. g.lab[w].rf = Bottom
    BY <2>1, <2>2 DEF GraphOK, ReadsFrom
  <2>4. PrefixOK(g, w)
    BY <2>1, <2>2 DEF GraphOK, PrefixesOK
  <2>5. NextOf(q) \in FullPrefix(g, w)
    BY <1>11 DEF FullPrefix
  <2>6. Stamp(g, NextOf(q)) <= Stamp(g, w)
    BY <2>3, <2>4, <2>5 DEF PrefixOK
  <2>7. NextOf(q)[1] = q[1] /\ NextOf(q)[2] > q[2]
    BY <1>5 DEF NextOf
  <2>8. Stamp(g, w) < Stamp(g, NextOf(q))
    BY <1>5, <1>7, <2>1, <2>7 DEF GraphOK, StoreFirst
  <2>9. Stamp(g, w) \in Nat
    BY <2>1, StampFacts
  <2> QED BY <1>5, <2>6, <2>8, <2>9
<1> QED BY <1>2, <1>9, <1>10, <1>11

(* The items that are not newer than r stay atomic. *)
KeepsOldItems(h, m, r) ==
    \A items : /\ ItemsOK(h, items) /\ ItemsOK(m, items) /\ ItemsAtomic(h, items)
               /\ \A j \in DOMAIN items : Stamp(h, CutEvent(items[j])) <= Stamp(h, r)
               => ItemsAtomic(m, items)

(* The write of an RMW goes right after the store that the RMW reads.       *)
LEMMA CompletionAtomic ==
  ASSUME CheckerOK, NEW p, NEW h, GraphOK(p, h, {}), NEW r \in Events(h), h.lab[r].typ = "R", NEW w, h.lab[r].rf = w,
         IsRMWOp(h.lab[r].ins), NEW l, NEW k, NEW m, ReadCompletes(p, h, r, w, l, k, m), Stays(h, k),
         Paired(h), Adjacent(h), NoConflict(h), Clear(h, r)
  PROVE  JustPlaced(m, l.pos) /\ Independent(m, l.pos) /\ KeepsOldItems(h, m, r)
<1> DEFINE s == l.pos
<1>1. /\ l = RMWWriteLabel(h, r) /\ s = NextOf(r) /\ l.typ = "W" /\ l.ins = h.lab[r].ins /\ s \notin Events(h)
      /\ LabelOK(p, h, l)
      /\ k = addLabelToGraph(h, l) /\ GraphOK(p, k, {}) /\ Appended(h, k, l)
      /\ s \notin ToSet(k.co[Loc(k, s)]) /\ w \in StoresOf(k, s)
      /\ m = addCo(k, s, w) /\ GraphOK(p, m, {}) /\ CoGrows(k, m) /\ m.lab = k.lab
      /\ s \in Events(m) /\ m.lab[s].typ = "W" /\ s \in ToSet(m.co[Loc(m, s)])
      /\ Youngest(m, s)
  BY DEF ReadCompletes
<1>2. l.ip = h.lab[r].ip
  <2>1. l = RMWWriteLabel(h, r)
    BY <1>1
  <2> QED BY <2>1 DEF RMWWriteLabel, NewLabel
<1>3. k.lab[s].prefix = UpTo(s) \cup h.lab[r].prefix
  BY <1>1, PrefixOfAccess
<1> HIDE DEF s
<1>4. Completes(h, l, r)
  BY <1>1, <1>2 DEF Completes, Reads, OfType, s
<1>5. /\ r \in RMWReads(k) /\ NextOf(r) = s
      /\ Paired(k) /\ Adjacent(k) /\ NoConflictBut(k, s)
      /\ \A items : ItemsOK(h, items) /\ ItemsOK(k, items) /\ ItemsAtomic(h, items)
                    /\ (\A j \in DOMAIN items : Stamp(h, CutEvent(items[j])) <= Stamp(h, r))
                      => ItemsAtomic(k, items)
  <2>1. {} \subseteq Reads(h)
    OBVIOUS
  <2> QED BY <1>1, <1>4, <2>1, CompletedAtomic DEF s
<1>6. /\ Events(k) = Events(h) \cup {s} /\ \A e \in Events(h) : k.lab[e] = h.lab[e]
      /\ k.lab[s].typ = "W" /\ k.lab[s].ins = h.lab[r].ins /\ IsNewest(k, s) /\ s \in Events(k)
  BY <1>1 DEF Appended, s
<1>7. Loc(k, r) = Loc(k, s) /\ k.lab[r].rf = w
  BY <1>6 DEF Loc
<1>8. Inserted(k, m, s, w)
  BY <1>1, <1>6, AddCoInserts
<1>9. Apart(k, s, w)
  BY <1>1, <1>5, <1>6, <1>7, ApartRMW
<1>10. w # s
  <2>1. s # InitEvent
    BY <1>1 DEF GraphOK, Shape
  <2> QED BY <1>1, <2>1 DEF StoresOf
<1>11. InsertKeeps(k, m, s)
  <2>1. {} \subseteq Reads(k)
    OBVIOUS
  <2> QED BY <1>1, <1>5, <1>6, <1>8, <1>9, <1>10, <2>1, InsertedKeeps
<1>12. JustPlaced(m, s)
  BY <1>1, <1>5, <1>11 DEF JustPlaced, InsertKeeps
<1>13. KeepsOldItems(h, m, r)
  <2> SUFFICES ASSUME NEW items, ItemsOK(h, items), ItemsOK(m, items), ItemsAtomic(h, items),
                      \A j \in DOMAIN items : Stamp(h, CutEvent(items[j])) <= Stamp(h, r)
               PROVE  ItemsAtomic(m, items)
    BY DEF KeepsOldItems
  <2>1. ItemsOK(k, items)
    <3>1. Keeps(h, k, Events(h))
      BY <1>1 DEF Appended
    <3> QED BY <3>1, KeptAll
  <2>2. ItemsAtomic(k, items)
    BY <1>5, <2>1
  <2>3. \A j \in DOMAIN items : Stamp(k, CutEvent(items[j])) <= Stamp(k, s)
    <3> TAKE j \in DOMAIN items
    <3>1. ItemOK(k, items[j])
      BY <2>1 DEF ItemsOK
    <3>2. CutEvent(items[j]) \in Events(k)
      BY <1>1, <3>1, CutOfItem
    <3> QED BY <1>6, <3>2 DEF IsNewest
  <2> QED BY <1>11, <2>1, <2>2, <2>3 DEF InsertKeeps
<1>14. Independent(m, s)
  <2> SUFFICES ASSUME NEW b \in RMWReads(m), NEW q \in RMWReads(m), NextOf(b) = s, Compete(m, b, q)
               PROVE  NextOf(q) \notin FullPrefix(m, s)
    BY DEF Independent
  <2>1. /\ b \in Nat \X Nat /\ q \in Nat \X Nat /\ q \in Events(m) /\ NextOf(q) \in Events(m)
        /\ r \in Nat \X Nat /\ q[2] > 0
    <3>1. r \in Nat \X Nat
      BY EventsArePairs
    <3> QED BY <1>1, <3>1, RMWParts
  <2>2. b = r
    BY <1>5, <2>1, NextOnce
  <2>3. q # r /\ NextOf(q) # s
    <3>1. q # r
      BY <2>2 DEF Compete
    <3> QED BY <1>5, <2>1, <3>1, NextOnce
  <2>4. m.lab[q].rf = w /\ Loc(m, q) = Loc(m, r)
    BY <1>1, <1>7, <2>2 DEF Compete
  <2>5. q # s
    <3>1. m.lab[q].typ = "R"
      BY <1>1, RMWParts
    <3> QED BY <1>1, <3>1 DEF s
  <2>6. q \in Events(h) /\ NextOf(q) \in Events(h)
    BY <1>1, <1>6, <2>1, <2>3, <2>5 DEF Events
  <2>7. m.lab[q] = h.lab[q] /\ m.lab[NextOf(q)] = h.lab[NextOf(q)] /\ m.lab[r] = h.lab[r]
    BY <1>1, <1>6, <2>6
  <2>8. q \in RMWReads(h)
    BY <2>6, <2>7, RMWReadIs
  <2>9. h.lab[q].rf = w /\ Loc(h, q) = Loc(h, r)
    BY <2>4, <2>7 DEF Loc
  <2>10. NextOf(q) \notin h.lab[r].prefix
    BY <2>8, <2>9 DEF Clear
  <2>11. NextOf(q) \notin UpTo(s)
    <3> SUFFICES ASSUME NextOf(q) \in UpTo(s) PROVE FALSE
      OBVIOUS
    <3>1. s[1] = r[1] /\ s[2] = r[2] + 1
      BY <1>5, <2>1 DEF NextOf
    <3>2. q[1] = r[1] /\ q[2] + 1 <= r[2] + 1
      BY <2>1, <3>1 DEF UpTo, NextOf
    <3>3. q[2] # r[2]
      BY <2>1, <2>3, <3>2
    <3>4. q[2] + 1 \in 1 .. r[2]
      BY <2>1, <3>2, <3>3
    <3>5. NextOf(q) \in UpTo(r)
      BY <3>2, <3>4 DEF UpTo, NextOf
    <3>6. UpTo(r) \subseteq h.lab[r].prefix
      BY DEF GraphOK, PrefixesOK
    <3> QED BY <2>10, <3>5, <3>6
  <2>12. FullPrefix(m, s) = UpTo(s) \cup h.lab[r].prefix
    BY <1>1, <1>3 DEF FullPrefix
  <2> QED BY <2>10, <2>11, <2>12
<1> QED BY <1>12, <1>13, <1>14 DEF s

(* An RMW that reads a store that no other reads competes with none. *)
LEMMA CompletionAlone ==
  ASSUME CheckerOK, NEW p, NEW h, GraphOK(p, h, {}), NEW r \in Events(h), NEW w, h.lab[r].rf = w,
         NEW l, NEW k, NEW m, ReadCompletes(p, h, r, w, l, k, m), NoConflictBut(m, l.pos),
         \A q \in RMWReads(h) : h.lab[q].rf # w
  PROVE  NoConflict(m)
<1> DEFINE s == l.pos
<1>1. s = NextOf(r) /\ GraphOK(p, m, {}) /\ Appended(h, k, l) /\ m.lab = k.lab /\ m.lab[s].typ = "W"
  BY DEF ReadCompletes
<1>2. Events(m) = Events(h) \cup {s} /\ \A e \in Events(h) : m.lab[e] = h.lab[e]
  BY <1>1 DEF Appended, Events
<1> HIDE DEF s
<1>3. r \in Nat \X Nat
  BY EventsArePairs
<1>4. ASSUME NEW c \in RMWReads(m), NEW d \in RMWReads(m), Compete(m, c, d), NextOf(c) = s PROVE FALSE
  <2>1. c \in Nat \X Nat /\ d \in Nat \X Nat /\ d \in Events(m) /\ NextOf(d) \in Events(m) /\ m.lab[d].typ = "R"
    BY <1>1, RMWParts
  <2>2. c = r
    BY <1>1, <1>3, <1>4, <2>1, NextOnce
  <2>3. d # r /\ m.lab[d].rf = m.lab[r].rf
    BY <1>4, <2>2 DEF Compete
  <2>4. NextOf(d) # s
    BY <1>1, <1>3, <2>1, <2>3, NextOnce
  <2>5. d \in Events(h) /\ NextOf(d) \in Events(h)
    BY <1>1, <1>2, <2>1, <2>4
  <2>6. d \in RMWReads(h)
    BY <1>2, <2>5, RMWReadIs
  <2> QED BY <1>2, <2>3, <2>5, <2>6
<1>5. ASSUME NEW c \in RMWReads(m), NEW d \in RMWReads(m), Compete(m, c, d) PROVE FALSE
  <2>1. NextOf(c) = s \/ NextOf(d) = s
    BY <1>5 DEF NoConflictBut, s
  <2>2. Compete(m, d, c)
    BY <1>5 DEF Compete
  <2> QED BY <1>4, <1>5, <2>1, <2>2
<1> QED BY <1>5 DEF NoConflict

(* Without conflicts no write violates atomicity. *)
LEMMA NotViolated ==
  ASSUME NEW p, NEW g, NEW X, GraphOK(p, g, X), Paired(g), NoConflict(g), NEW b \in Events(g), NEW s, s = NextOf(b),
         s \in Events(g)
  PROVE  ~violatesAtomicity(g, s)
<1> SUFFICES ASSUME violatesAtomicity(g, s) PROVE FALSE
  OBVIOUS
<1>1. b \in Nat \X Nat
  BY EventsArePairs
<1>2. PICK q \in RMWReads(g) : q # b /\ g.lab[q].rf = g.lab[b].rf /\ Loc(g, q) = Loc(g, s)
  BY <1>1, PendingReads
<1>3. IsRMWWrite(g, s)
  BY DEF violatesAtomicity, PendingRMWs
<1>4. s \in Writes(g) /\ IsRMWOp(g.lab[s].ins)
  BY <1>3 DEF IsRMWWrite, Writes, OfType
<1>5. b \in RMWReads(g) /\ g.lab[s].ins = g.lab[b].ins
  BY <1>4 DEF Paired
<1>6. Compete(g, b, q)
  BY <1>2, <1>5 DEF Compete, Loc
<1> QED BY <1>2, <1>5, <1>6 DEF NoConflict

(* The items of a queue cut at r or before. *)
NoneAfter(x, r) == \A j \in DOMAIN x.workqueue : Stamp(x.graph, CutEvent(x.workqueue[j])) <= Stamp(x.graph, r)
(* An execution without conflicts. *)
ExecCalm(x) ==
    Paired(x.graph) /\ Adjacent(x.graph) /\ NoConflict(x.graph) /\ ItemsAtomic(x.graph, x.workqueue)

(* What is left after the write of an RMW that reads w was added to h and   *)
(* revisited reads.                                                         *)
RMWPlaced(h, w, s, z) ==
    /\ ExecAtomic(z) /\ NoConflictBut(z.graph, s)
    /\ (\A q \in RMWReads(h) : h.lab[q].rf # w) => NoConflict(z.graph)

(* The write of an RMW is placed and revisits the reads that it can. *)
LEMMA CompleteAndCalc ==
  ASSUME CheckerOK, NEW p, ProgramOK(p), NEW h, GraphOK(p, h, {}), NEW r \in Events(h), h.lab[r].typ = "R",
         NEW w, h.lab[r].rf = w, IsRMWOp(h.lab[r].ins), NEW l, NEW k, NEW m, ReadCompletes(p, h, r, w, l, k, m), Stays(h, k),
         Paired(h), Adjacent(h), NoConflict(h), Clear(h, r),
         NEW y, y.graph = m, ExecOK(p, y), Ipr => NoDangling(m),
         ItemsOK(h, y.workqueue), ItemsAtomic(h, y.workqueue),
         \A j \in DOMAIN y.workqueue : Stamp(h, CutEvent(y.workqueue[j])) <= Stamp(h, r)
  PROVE  RMWPlaced(h, w, l.pos, calcRevisits(y, l.pos))
<1>1. JustPlaced(m, l.pos) /\ Independent(m, l.pos) /\ KeepsOldItems(h, m, r)
  BY CompletionAtomic
<1>2. ItemsOK(m, y.workqueue)
  BY DEF ExecOK
<1>3. ItemsAtomic(m, y.workqueue)
  BY <1>1, <1>2 DEF KeepsOldItems
<1>4. (\A q \in RMWReads(h) : h.lab[q].rf # w) => NoConflict(m)
  BY <1>1, CompletionAlone DEF JustPlaced
<1>5. JustPlaced(y.graph, l.pos) /\ Independent(y.graph, l.pos) /\ ItemsAtomic(y.graph, y.workqueue)
  BY <1>1, <1>3
<1>6. LET z == calcRevisits(y, l.pos)
      IN /\ ExecAtomic(z) /\ NoConflictBut(z.graph, l.pos)
         /\ NoConflict(y.graph) => NoConflict(z.graph)
  BY <1>5, CalcAtomic
<1> QED BY <1>4, <1>6 DEF RMWPlaced

(* A read that reads another store. *)
LEMMA RevisitReadAtomic ==
  ASSUME CheckerOK, NEW p, ProgramOK(p), NEW x, ExecOK(p, x), Ipr => NoDangling(x.graph), NEW r \in Events(x.graph),
         x.graph.lab[r].typ = "R", IsLast(x.graph, r), NEW w, w \in StoresOf(x.graph, r),
         ExecCalm(x), NoneAfter(x, r),
         valueMakesRMWSucceed(x.graph, r, ValueOf(x.graph, w)) => Free(x.graph, r, w)
  PROVE  LET rv == revisitRead(x, r, w)
         IN /\ ExecAtomic(rv.exec)
            /\ rv.ok => NoConflict(rv.exec.graph)
            /\ (\A q \in RMWReads(x.graph) : x.graph.lab[q].rf # w) => rv.ok
<1> DEFINE g == x.graph
           h == updateLabelViews(setRf(g, r, w), r)
           rv == revisitRead(x, r, w)
           rf == [e \in {r} |-> w]
<1>1. /\ StoreRead(p, x, h, r, w)
      /\ IF valueMakesRMWSucceed(h, r, ValueOf(h, w)) THEN RevisitCompletes(p, x, h, r, w, rv)
         ELSE rv.exec = [graph |-> h, workqueue |-> x.workqueue] /\ rv.ok
  BY RevisitReadSteps
<1>2. GraphOK(p, g, {}) /\ ItemsOK(g, x.workqueue)
  BY DEF ExecOK
<1>3. DOMAIN rf = {r} /\ rf[r] = w /\ LastReads(g, rf)
  BY DEF LastReads, Reads, OfType
<1>4. Reread(g, h, rf)
  BY <1>2, <1>3, ReadFromRereads
<1> HIDE DEF h, rv, rf
<1>5. /\ GraphOK(p, h, {}) /\ ItemsOK(h, x.workqueue) /\ SameText(g, h) /\ h.lab[r].rf = w
      /\ Events(h) = Events(g) /\ h.lab[r].typ = "R" /\ h.lab[r].ins = g.lab[r].ins
      /\ NoDangling(g) => NoDangling(h)
  BY <1>1 DEF StoreRead, SameText, NoDangling, Reads, OfType
<1>6. Preserves(g, h)
  <2>1. {} \subseteq Reads(g)
    OBVIOUS
  <2> QED BY <1>2, <1>3, <1>4, <1>5, <2>1, RereadPreserves
<1>7. Paired(h) /\ Adjacent(h) /\ NoConflict(h) /\ ItemsAtomic(h, x.workqueue)
  BY <1>2, <1>5, <1>6 DEF Preserves, ExecCalm
<1>8. valueMakesRMWSucceed(h, r, ValueOf(h, w)) => valueMakesRMWSucceed(g, r, ValueOf(g, w))
  <2>1. w \in Events(g)
    BY <1>2, StoresAre
  <2>2. ValueOf(h, w) = ValueOf(g, w)
    BY <1>5, <2>1 DEF ValueOf, SameText
  <2> QED BY <1>5, <2>2 DEF valueMakesRMWSucceed
<1>9. CASE ~valueMakesRMWSucceed(h, r, ValueOf(h, w))
  <2>1. rv.exec.graph = h /\ rv.exec.workqueue = x.workqueue /\ rv.ok
    BY <1>1, <1>9
  <2>2. ConflictLast(h)
    BY <1>7, NoConflictIsLast
  <2> QED BY <1>7, <2>1, <2>2 DEF ExecAtomic, GraphAtomic, rv
<1>10. CASE valueMakesRMWSucceed(h, r, ValueOf(h, w))
  <2>1. Clear(h, r)
    BY <1>2, <1>3, <1>4, <1>8, <1>10, FreeIsClear
  <2>2. PICK l, k, m, y :
          /\ ReadCompletes(p, h, r, w, l, k, m)
          /\ y.graph = m /\ y.workqueue = x.workqueue /\ ExecOK(p, y)
          /\ rv.exec = calcRevisits(y, l.pos) /\ rv.ok = ~violatesAtomicity(rv.exec.graph, l.pos)
          /\ (NoDangling(h) => NoDangling(m))
    BY <1>1, <1>10 DEF RevisitCompletes
  <2>3. Stays(h, k)
    <3>1. Appended(h, k, l) /\ k = addLabelToGraph(h, l)
      BY <2>2 DEF ReadCompletes
    <3>2. DOMAIN l = LabelFields /\ l.revisitable /\ l.pos \notin Events(h)
      BY <2>2 DEF ReadCompletes, RMWWriteLabel, LabelFields, NewLabel
    <3>3. Shape(h) /\ Stamps(h)
      BY <1>5 DEF GraphOK
    <3>4. k.lab[l.pos].revisitable
      BY <3>1, <3>2, <3>3, AddedLabels
    <3> QED BY <3>1, <3>4, AppendStays
  <2>4. IsRMWOp(h.lab[r].ins)
    BY <1>10 DEF valueMakesRMWSucceed, IsRMWOp
  <2>5. Ipr => NoDangling(m)
    BY <1>5, <2>2
  <2>6. ItemsOK(h, y.workqueue) /\ ItemsAtomic(h, y.workqueue)
    BY <1>5, <1>7, <2>2
  <2>7. \A j \in DOMAIN y.workqueue : Stamp(h, CutEvent(y.workqueue[j])) <= Stamp(h, r)
    BY <1>5, <2>2 DEF NoneAfter, SameText, Stamp
  <2> DEFINE z == calcRevisits(y, l.pos)
  <2>8. r \in Events(h) /\ h.lab[r].typ = "R" /\ h.lab[r].rf = w
    BY <1>5
  <2>9. RMWPlaced(h, w, l.pos, z)
    <3>1. /\ GraphOK(p, h, {}) /\ ReadCompletes(p, h, r, w, l, k, m) /\ y.graph = m /\ ExecOK(p, y)
          /\ Paired(h) /\ Adjacent(h) /\ NoConflict(h)
      BY <1>5, <1>7, <2>2
    <3> QED BY <2>1, <2>3, <2>4, <2>5, <2>6, <2>7, <2>8, <3>1, CompleteAndCalc
  <2>10. /\ l.pos \in Events(m) /\ m.lab[l.pos].typ = "W" /\ l.pos \in ToSet(m.co[Loc(m, l.pos)])
         /\ Youngest(m, l.pos) /\ l.pos = NextOf(r)
    BY <2>2 DEF ReadCompletes
  <2>11. ExecOK(p, z) /\ Revisited(m, z.graph, l.pos)
    BY <2>2, <2>5, <2>10, CalcRevisitsOK
  <2> HIDE DEF z
  <2>12. GraphOK(p, z.graph, {}) /\ Paired(z.graph)
    BY <2>9, <2>11 DEF ExecOK, RMWPlaced, ExecAtomic, GraphAtomic
  <2>13. rv.exec = z /\ rv.ok = ~violatesAtomicity(z.graph, l.pos)
    BY <2>2 DEF z
  <2>14. rv.ok => NoConflict(z.graph)
    BY <2>9, <2>12, <2>13, NoPending DEF RMWPlaced
  <2>15. ASSUME \A q \in RMWReads(g) : g.lab[q].rf # w PROVE rv.ok
    <3>1. \A q \in RMWReads(h) : h.lab[q].rf # w
      <4> TAKE q \in RMWReads(h)
      <4>1. q \in RMWReads(g)
        BY <1>5, TextRMWs
      <4>2. NextOf(q) \in Events(g) /\ q \in Events(g) /\ q \in Nat \X Nat
        BY <1>2, <4>1, RMWParts
      <4>3. q # r
        BY <4>2 DEF IsLast, NextOf
      <4>4. h.lab[q].rf = g.lab[q].rf
        BY <1>3, <1>4, <4>2, <4>3 DEF Reread
      <4> QED BY <2>15, <4>1, <4>4
    <3>2. NoConflict(z.graph)
      BY <2>9, <3>1 DEF RMWPlaced
    <3>3. r \in Events(z.graph) /\ l.pos \in Events(z.graph)
      <4>1. l.pos \in Events(z.graph)
        BY <2>10, <2>11 DEF Revisited
      <4>2. r \in Nat \X Nat
        BY <1>2, EventsArePairs
      <4> QED BY <2>10, <2>12, <4>1, <4>2, NextIn
    <3> QED BY <2>10, <2>12, <2>13, <3>2, <3>3, NotViolated
  <2> QED BY <2>9, <2>13, <2>14, <2>15 DEF rv, RMWPlaced
<1> QED BY <1>9, <1>10

(* A store that was moved in coherence. *)
LEMMA RevisitWriteAtomic ==
  ASSUME CheckerOK, NEW p, ProgramOK(p), NEW x, ExecOK(p, x), Ipr => NoDangling(x.graph), NEW w \in Events(x.graph),
         x.graph.lab[w].typ = "W", w \in StoresOf(x.graph, w), NEW pred, pred \in StoresOf(x.graph, w) \ {w},
         Youngest(x.graph, w), w \notin Settled(x.graph), Whole(x.graph, {}),
         ExecCalm(x), COAtomic(x.graph, w, pred)
  PROVE  LET rv == revisitWrite(x, w, pred) IN ExecAtomic(rv.exec) /\ NoConflict(rv.exec.graph)
<1> DEFINE g == x.graph
           h == moveCo(g, w, pred)
           y == [x EXCEPT !.graph = h]
           rv == revisitWrite(x, w, pred)
<1>1. GraphOK(p, g, {}) /\ Joins(g) /\ ItemsOK(g, x.workqueue) /\ DOMAIN x = {"graph", "workqueue"}
  BY DEF ExecOK
<1>2. w \in ToSet(g.co[Loc(g, w)]) /\ Loc(g, w) \in Locs
  <2>1. w # InitEvent
    BY <1>1 DEF GraphOK, Kinds, Shape
  <2> QED BY <1>1, <2>1 DEF StoresOf, GraphOK, Texts, Loc
<1>3. CoGrows(g, h) /\ GraphOK(p, h, {})
  BY <1>1, <1>2, MoveCoOK
<1>4. rv.exec = calcRevisits(y, w)
  BY DEF revisitWrite, AtomicAt
<1>5. Inserted(g, h, w, pred)
  BY <1>1, <1>2, MoveCoInserts
<1> HIDE DEF h
<1>6. y.graph = h /\ y.workqueue = x.workqueue /\ DOMAIN y = {"graph", "workqueue"}
  BY <1>1
<1> HIDE DEF y, rv
<1>7. ExecOK(p, y) /\ ItemsOK(h, x.workqueue)
  <2>1. Joins(h) /\ ItemsOK(h, x.workqueue)
    BY <1>1, <1>3, CoGrowsKeeps, KeptAll, SameTextJoins DEF CoGrows
  <2> QED BY <1>3, <1>6, <2>1 DEF ExecOK
<1>8. /\ w \in Events(h) /\ h.lab[w].typ = "W" /\ w \in ToSet(h.co[Loc(h, w)]) /\ Youngest(h, w)
      /\ NoDangling(g) => NoDangling(h)
  BY <1>2, <1>3 DEF CoGrows, SameText, Youngest, Stamp, Loc, NoDangling, Reads, OfType
<1>9. Paired(g) /\ Adjacent(g) /\ NoConflict(g) /\ ItemsAtomic(g, x.workqueue)
  BY DEF ExecCalm
<1>10. \A q \in RMWReads(g) : g.lab[q].rf # w
  BY <1>1, NobodyReads
<1>11. Apart(g, w, pred)
  BY <1>1, <1>9, <1>10, ApartMoved
<1>12. InsertKeeps(g, h, w)
  <2>1. {} \subseteq Reads(g) /\ pred # w
    OBVIOUS
  <2> QED BY <1>1, <1>3, <1>5, <1>9, <1>11, <2>1, InsertedKeeps
<1>13. \A j \in DOMAIN x.workqueue : Stamp(g, CutEvent(x.workqueue[j])) <= Stamp(g, w)
  <2> TAKE j \in DOMAIN x.workqueue
  <2>1. ItemOK(g, x.workqueue[j])
    BY <1>1 DEF ItemsOK
  <2>2. CutEvent(x.workqueue[j]) \in Events(g) /\ CutEvent(x.workqueue[j])[2] > 0
    BY <1>1, <2>1, CutOfItem
  <2> QED BY <2>2 DEF Youngest
<1>14. Paired(h) /\ Adjacent(h) /\ NoConflict(h) /\ ItemsAtomic(h, x.workqueue)
  BY <1>1, <1>7, <1>9, <1>12, <1>13 DEF InsertKeeps
<1>15. JustPlaced(h, w) /\ Independent(h, w)
  <2>1. NoConflictBut(h, w)
    BY <1>14, NoConflictIsLast
  <2> QED BY <1>8, <1>14, <2>1 DEF JustPlaced, Independent, NoConflict
<1>16. JustPlaced(y.graph, w) /\ Independent(y.graph, w) /\ ItemsAtomic(y.graph, y.workqueue)
  BY <1>6, <1>14, <1>15
<1>17. Ipr => NoDangling(y.graph)
  BY <1>6, <1>8
<1>18. LET z == calcRevisits(y, w)
       IN ExecAtomic(z) /\ (NoConflict(y.graph) => NoConflict(z.graph))
  BY <1>7, <1>16, <1>17, CalcAtomic
<1> QED BY <1>4, <1>6, <1>14, <1>18 DEF rv

(* What done() takes: the cut execution y and the item. *)
Takes(p, y, item) ==
    /\ ExecOK(p, y) /\ NoDangling(y.graph) /\ ItemOK(y.graph, item)
    /\ Youngest(y.graph, CutEvent(item)) /\ IsLast(y.graph, CutEvent(item))
    /\ ExecAtomic(y) /\ ItemAtomic(y.graph, item)

(* The cut at an event that is not the write of an RMW resolves conflicts. *)
LEMMA TakenCalm ==
  ASSUME NEW p, NEW y, NEW item, Takes(p, y, item), NEW c, c = CutEvent(item),
         \A b \in RMWReads(y.graph) : NextOf(b) # c
  PROVE  ExecCalm(y) /\ NoneAfter(y, c)
<1>1. /\ GraphOK(p, y.graph, {}) /\ ItemsOK(y.graph, y.workqueue) /\ ItemOK(y.graph, item) /\ Youngest(y.graph, c)
      /\ ExecAtomic(y)
  BY DEF Takes, ExecOK
<1>2. c[2] > 0
  BY <1>1, CutOfItem
<1>3. NoConflict(y.graph)
  BY <1>1, <1>2, NoConflictLeft DEF ExecAtomic, GraphAtomic
<1>4. NoneAfter(y, c)
  <2> SUFFICES ASSUME NEW j \in DOMAIN y.workqueue
               PROVE  Stamp(y.graph, CutEvent(y.workqueue[j])) <= Stamp(y.graph, c)
    BY DEF NoneAfter
  <2>1. ItemOK(y.graph, y.workqueue[j])
    BY <1>1 DEF ItemsOK
  <2>2. CutEvent(y.workqueue[j]) \in Events(y.graph) /\ CutEvent(y.workqueue[j])[2] > 0
    BY <1>1, <2>1, CutOfItem
  <2> QED BY <1>1, <2>2 DEF Youngest
<1> QED BY <1>1, <1>3, <1>4 DEF ExecCalm, ExecAtomic, GraphAtomic

(* A forward revisit of a read. *)
LEMMA ForwardReadAtomic ==
  ASSUME CheckerOK, NEW p, ProgramOK(p), NEW y, NEW item, Takes(p, y, item), item.kind = "RF"
  PROVE  LET rv == revisitRead(y, item.pos, item.rev)
         IN ExecAtomic(rv.exec) /\ (rv.ok => NoConflict(rv.exec.graph))
<1> DEFINE r == item.pos
           w == item.rev
           g == y.graph
<1>1. /\ ExecOK(p, y) /\ GraphOK(p, g, {}) /\ NoDangling(g) /\ ItemOK(g, item)
      /\ Youngest(g, CutEvent(item)) /\ IsLast(g, CutEvent(item)) /\ ItemAtomic(g, item)
  BY DEF Takes, ExecOK
<1>2. CutEvent(item) = r
  BY DEF CutEvent
<1>3. r \in Events(g) /\ r[2] > 0 /\ g.lab[r].typ = "R" /\ w \in StoresOf(g, r)
  BY <1>1 DEF ItemOK
<1>4. \A b \in RMWReads(g) : NextOf(b) # r
  BY <1>1, <1>3, RMWParts
<1>5. ExecCalm(y) /\ NoneAfter(y, r)
  BY <1>2, <1>4, TakenCalm
<1>6. valueMakesRMWSucceed(g, r, ValueOf(g, w)) => Free(g, r, w)
  <2> SUFFICES ASSUME valueMakesRMWSucceed(g, r, ValueOf(g, w)),
                      NEW q \in RMWReads(g), NEW b \in Events(g),
                      g.lab[q].rf = w, Loc(g, q) = Loc(g, r), NextOf(b) = r
               PROVE  q \notin FullPrefix(g, b)
    BY DEF Free
  <2>1. q \in Events(g) /\ q[2] > 0 /\ q \in Nat \X Nat /\ NextOf(q) \in Events(g) /\ Stamp(g, q) \in Nat
    BY <1>1, RMWParts
  <2>2. q # r
    BY <1>1, <1>2, <2>1 DEF IsLast, NextOf
  <2>3. Stamp(g, q) <= Stamp(g, r)
    BY <1>1, <1>2, <2>1 DEF Youngest
  <2>4. Stamp(g, q) # Stamp(g, r) /\ Stamp(g, r) \in Nat
    BY <1>1, <1>3, <2>1, <2>2, StampFacts DEF GraphOK, Stamps
  <2>5. Stamp(g, q) < Stamp(g, r)
    BY <2>1, <2>3, <2>4
  <2>6. RFAtomic(g, r, w)
    BY <1>1 DEF ItemAtomic
  <2> QED BY <2>5, <2>6 DEF RFAtomic
<1>7. IsLast(g, r)
  BY <1>1, <1>2
<1> HIDE DEF r, w
<1>8. LET rv == revisitRead(y, r, w) IN ExecAtomic(rv.exec) /\ (rv.ok => NoConflict(rv.exec.graph))
  BY <1>1, <1>3, <1>5, <1>6, <1>7, RevisitReadAtomic
<1> QED BY <1>8 DEF r, w

(* A forward revisit of a write. *)
LEMMA ForwardWriteAtomic ==
  ASSUME CheckerOK, NEW p, ProgramOK(p), NEW y, NEW item, Takes(p, y, item), item.kind = "CO",
         Whole(y.graph, {}), item.pos \notin Settled(y.graph)
  PROVE  LET rv == revisitWrite(y, item.pos, item.rev) IN ExecAtomic(rv.exec) /\ NoConflict(rv.exec.graph)
<1> DEFINE w == item.pos
           pred == item.rev
           g == y.graph
<1>1. /\ ExecOK(p, y) /\ GraphOK(p, g, {}) /\ NoDangling(g) /\ ItemOK(g, item)
      /\ Youngest(g, CutEvent(item)) /\ ItemAtomic(g, item) /\ ExecAtomic(y)
  BY DEF Takes, ExecOK
<1>2. CutEvent(item) = w
  BY DEF CutEvent
<1>3. w \in Events(g) /\ g.lab[w].typ = "W" /\ w \in StoresOf(g, w) /\ pred \in StoresOf(g, w) \ {w}
  BY <1>1 DEF ItemOK
<1>4. COAtomic(g, w, pred)
  BY <1>1 DEF ItemAtomic
<1>5. \A b \in RMWReads(g) : NextOf(b) # w
  <2> SUFFICES ASSUME NEW b \in RMWReads(g), NextOf(b) = w PROVE FALSE
    OBVIOUS
  <2>1. b \in Events(g) /\ IsRMWOp(g.lab[b].ins) /\ w \in Writes(g)
    BY <1>1, RMWParts
  <2>2. g.lab[w].ins = g.lab[b].ins
    BY <1>1, <2>1 DEF ExecAtomic, GraphAtomic, Paired
  <2> QED BY <1>4, <2>1, <2>2 DEF COAtomic
<1>6. ExecCalm(y)
  BY <1>2, <1>5, TakenCalm
<1>7. Youngest(g, w)
  BY <1>1, <1>2
<1> HIDE DEF w, pred
<1>8. w \notin Settled(g)
  BY DEF w
<1>9. LET rv == revisitWrite(y, w, pred) IN ExecAtomic(rv.exec) /\ NoConflict(rv.exec.graph)
  BY <1>1, <1>3, <1>4, <1>6, <1>7, <1>8, RevisitWriteAtomic
<1> QED BY <1>9 DEF w, pred

(* A backward revisit: it never breaks atomicity. *)
LEMMA BackwardAtomic ==
  ASSUME CheckerOK, NEW p, ProgramOK(p), NEW y, NEW item, Takes(p, y, item), item.kind = "BR",
         Whole(y.graph, {}), SettledOK(y.graph), ItemSettled(y.graph, item)
  PROVE  LET rv == revisitRead(Copied(y.graph, item), item.pos, item.rev)
         IN ExecAtomic(rv.exec) /\ rv.ok /\ NoConflict(rv.exec.graph)
<1> DEFINE r == item.pos
           w == item.rev
           g == y.graph
           x == Copied(g, item)
<1>1. /\ GraphOK(p, g, {}) /\ Joins(g) /\ NoDangling(g) /\ ItemOK(g, item)
      /\ Youngest(g, CutEvent(item)) /\ ItemAtomic(g, item) /\ GraphAtomic(g)
  BY DEF Takes, ExecOK, ExecAtomic
<1>2. CutEvent(item) = w
  BY DEF CutEvent
<1>3. Youngest(g, w)
  BY <1>1, <1>2
<1>4. /\ ExecOK(p, x) /\ NoDangling(x.graph) /\ r \in Events(x.graph) /\ x.graph.lab[r].typ = "R"
      /\ IsLast(x.graph, r) /\ w \in StoresOf(x.graph, r)
  BY <1>1, CopiedOK
<1>5. /\ Paired(x.graph) /\ Adjacent(x.graph) /\ NoConflict(x.graph) /\ x.workqueue = <<>>
      /\ \A q \in RMWReads(x.graph) : x.graph.lab[q].rf # w
  BY <1>1, <1>3, CopyAtomic
<1> HIDE DEF x, r, w
<1>6. ExecCalm(x) /\ NoneAfter(x, r)
  BY <1>5 DEF ExecCalm, NoneAfter, ItemsAtomic
<1>7. Free(x.graph, r, w)
  BY <1>5 DEF Free
<1>8. LET rv == revisitRead(x, r, w)
      IN /\ ExecAtomic(rv.exec)
         /\ rv.ok => NoConflict(rv.exec.graph)
         /\ (\A q \in RMWReads(x.graph) : x.graph.lab[q].rf # w) => rv.ok
  BY <1>4, <1>6, <1>7, RevisitReadAtomic
<1> QED BY <1>5, <1>8 DEF x, r, w

===============================================================================
