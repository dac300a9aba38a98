----------------------------- MODULE ViewProofs -----------------------------
(***************************************************************************)
(* Theorems about View, for any labels, drivers, bases, threads and        *)
(* indices.                                                                *)
(***************************************************************************)
EXTENDS View, TLAPS, SequenceTheorems, WellFoundedInduction

(* An event has a thread and an index. *)
LEMMA EventType ==
    ASSUME NEW e \in Events
    PROVE  /\ e[1] \in Threads /\ e[1] \in Nat /\ e[1] < NumThreads
           /\ e[2] \in Indices /\ e[2] \in Nat
           /\ e = <<e[1], e[2]>>
<1>1. e[1] \in Threads /\ e[2] \in Indices /\ e = <<e[1], e[2]>>
  BY DEF Events
<1>2. e[1] \in Nat /\ e[1] < NumThreads
  BY <1>1, ViewAssumption DEF Threads
<1>3. e[2] \in Nat
  BY <1>1, ViewAssumption
<1> QED BY <1>1, <1>2, <1>3

(* What the contents of a base are: indices of the first n threads. *)
LEMMA VectorType ==
    ASSUME NEW s
    PROVE  s \in Vectors <=> \E n \in 0 .. NumThreads : s \in [1 .. n -> Indices]
BY DEF Vectors

(* Their length, and the values they have. *)
LEMMA VectorLen ==
    ASSUME NEW s \in Vectors
    PROVE  /\ s \in Seq(Nat)
           /\ Len(s) \in Nat /\ Len(s) <= NumThreads
           /\ s \in [1 .. Len(s) -> Indices]
           /\ \A t \in Threads : BaseGetMax(s, t) \in Indices
<1>1. PICK n \in 0 .. NumThreads : s \in [1 .. n -> Indices]
  BY VectorType
<1>2. s \in Seq(Nat) /\ Len(s) = n
  <2>1. n \in Nat
    BY ViewAssumption
  <2>2. s \in [1 .. n -> Nat]
    BY <1>1, ViewAssumption
  <2>3. s \in Seq(Nat)
    BY <2>1, <2>2, SeqDef
  <2> QED BY <2>1, <2>2, <2>3, LenProperties
<1>3. ASSUME NEW t \in Threads PROVE BaseGetMax(s, t) \in Indices
  BY <1>1, <1>2, ViewAssumption DEF BaseGetMax, Threads
<1> QED BY <1>1, <1>2, <1>3, ViewAssumption

(* The least number of entries after which there are only zeroes. *)
LEMMA TrimLength ==
    ASSUME NEW s \in Vectors
    PROVE  \E k \in 0 .. Len(s) : ZeroesAfter(s, k) /\ \A j \in 0 .. k - 1 : ~ZeroesAfter(s, j)
<1> DEFINE T == {k \in 0 .. Len(s) : ZeroesAfter(s, k)}
<1>1. Len(s) \in Nat
  BY VectorLen
<1>2. T \subseteq Nat /\ Len(s) \in T
  BY <1>1 DEF ZeroesAfter
<1>3. \E k \in T : \A j \in T : ~(<<j, k>> \in OpToRel(<, Nat))
  BY <1>2, NatLessThanWellFounded, WFMin, Zenon
<1>4. PICK k \in T : \A j \in T : ~(j < k)
  BY <1>2, <1>3 DEF OpToRel
<1>5. ASSUME NEW j \in 0 .. k - 1 PROVE ~ZeroesAfter(s, j)
  BY <1>1, <1>4
<1> QED BY <1>4, <1>5

(* Dropping zeros at the end changes no index. *)
LEMMA TrimLemma ==
    ASSUME NEW s \in Vectors
    PROVE  /\ Trim(s) \in Vectors
           /\ Trimmed(Trim(s))
           /\ \A t \in Threads : BaseGetMax(Trim(s), t) = BaseGetMax(s, t)
<1> DEFINE P(k) == ZeroesAfter(s, k) /\ \A j \in 0 .. k - 1 : ~ZeroesAfter(s, j)
           n == CHOOSE k \in 0 .. Len(s) : P(k)
<1>1. n \in 0 .. Len(s) /\ P(n)
  <2>1. \E k \in 0 .. Len(s) : P(k)
    BY TrimLength
  <2> HIDE DEF P
  <2> QED BY <2>1
<1>2. Trim(s) = [i \in 1 .. n |-> s[i]]
  BY DEF Trim
<1> HIDE DEF n
<1>3. Trim(s) \in [1 .. n -> Indices] /\ Len(Trim(s)) = n /\ n \in Nat /\ n <= Len(s)
  BY <1>1, <1>2, VectorLen, ViewAssumption
<1>4. Trim(s) \in Vectors
  <2>1. n \in 0 .. NumThreads
    BY <1>3, VectorLen, ViewAssumption
  <2> QED BY <1>3, <2>1, VectorType
<1>5. Trimmed(Trim(s))
  <2> SUFFICES ASSUME n > 0 PROVE s[n] # 0
    BY <1>2, <1>3 DEF Trimmed
  <2>1. ~ZeroesAfter(s, n - 1)
    BY <1>1, <1>3
  <2>2. PICK i \in n .. Len(s) : s[i] # 0
    BY <2>1, <1>3 DEF ZeroesAfter
  <2>3. ~(i \in n + 1 .. Len(s))
    BY <1>1, <2>2 DEF ZeroesAfter
  <2> QED BY <2>2, <2>3, <1>3, VectorLen
<1>6. ASSUME NEW t \in Threads PROVE BaseGetMax(Trim(s), t) = BaseGetMax(s, t)
  <2>1. CASE t < n
    BY <2>1, <1>2, <1>3, VectorLen DEF BaseGetMax, Threads
  <2>2. CASE t >= n /\ t < Len(s)
    <3>1. t + 1 \in n + 1 .. Len(s)
      BY <2>2, <1>3, VectorLen DEF Threads
    <3>2. s[t + 1] = 0
      BY <3>1, <1>1 DEF ZeroesAfter
    <3> QED BY <2>2, <3>2, <1>3 DEF BaseGetMax, Threads
  <2>3. CASE t >= Len(s)
    BY <2>3, <1>3, VectorLen DEF BaseGetMax, Threads
  <2> QED BY <2>1, <2>2, <2>3, <1>3, VectorLen DEF Threads
<1> QED BY <1>4, <1>5, <1>6

(* A base that is made long enough for an event gets its index. *)
LEMMA ResizedLemma ==
    ASSUME NEW s \in Vectors, NEW e \in Events
    PROVE  /\ Resized(s, e) \in Vectors
           /\ Len(Resized(s, e)) = Larger(Len(s), e[1] + 1)
           /\ \A t \in Threads : BaseGetMax(Resized(s, e), t) = IF t = e[1] THEN e[2] ELSE BaseGetMax(s, t)
           /\ Trimmed(s) /\ e[2] # 0 => Trimmed(Resized(s, e))
           /\ Trimmed(s) /\ e[1] + 1 < Len(s) => Trimmed(Resized(s, e))
<1> DEFINE n == Larger(Len(s), e[1] + 1)
           r == Resized(s, e)
<1>1. e[1] \in Threads /\ e[2] \in Indices /\ e[1] \in Nat /\ e[1] < NumThreads
  BY ViewAssumption DEF Events, Threads
<1>2. Len(s) \in Nat /\ Len(s) <= NumThreads /\ \A t \in Threads : BaseGetMax(s, t) \in Indices
  BY VectorLen
<1>3. n \in 1 .. NumThreads /\ n >= Len(s) /\ n >= e[1] + 1 /\ (n = Len(s) \/ n = e[1] + 1)
  BY <1>1, <1>2, ViewAssumption DEF Larger
<1>4. r = [i \in 1 .. n |-> IF i = e[1] + 1 THEN e[2] ELSE BaseGetMax(s, i - 1)]
  BY DEF Resized
<1> HIDE DEF n, r
<1>5. \A i \in 1 .. n : i - 1 \in Threads
  BY <1>3, ViewAssumption DEF Threads
<1>6. r \in [1 .. n -> Indices] /\ Len(r) = n
  BY <1>1, <1>2, <1>3, <1>4, <1>5
<1>7. r \in Vectors
  BY <1>3, <1>6, VectorType, ViewAssumption
<1>8. ASSUME NEW t \in Threads PROVE BaseGetMax(r, t) = IF t = e[1] THEN e[2] ELSE BaseGetMax(s, t)
  <2>1. CASE t < n
    BY <2>1, <1>1, <1>3, <1>4, <1>6, ViewAssumption DEF BaseGetMax, Threads
  <2>2. CASE t >= n
    BY <2>2, <1>1, <1>2, <1>3, <1>6, ViewAssumption DEF BaseGetMax, Threads
  <2> QED BY <2>1, <2>2, <1>3, ViewAssumption DEF Threads
<1>9. ASSUME Trimmed(s), e[2] # 0 \/ e[1] + 1 < Len(s) PROVE Trimmed(r)
  <2>1. r[n] = IF n = e[1] + 1 THEN e[2] ELSE s[n]
    BY <1>1, <1>2, <1>3, <1>4 DEF BaseGetMax
  <2>2. r[n] # 0
    BY <1>9, <2>1, <1>1, <1>2, <1>3 DEF Trimmed
  <2> QED BY <2>2, <1>6 DEF Trimmed
<1> QED BY <1>6, <1>7, <1>8, <1>9 DEF n, r

(* setMax() of a base sets one index and leaves no zero at the end. *)
LEMMA SetMaxLemma ==
    ASSUME NEW s \in Vectors, NEW e \in Events
    PROVE  /\ BaseSetMax(s, e) \in Vectors
           /\ \A t \in Threads : BaseGetMax(BaseSetMax(s, e), t) = IF t = e[1] THEN e[2] ELSE BaseGetMax(s, t)
           /\ Trimmed(s) => Trimmed(BaseSetMax(s, e))
<1>1. e[1] \in Threads /\ e[1] \in Nat /\ e[2] \in Nat
  BY EventType
<1> Len(s) \in Nat
  BY VectorLen
<1>2. CASE e[2] = 0 /\ e[1] >= Len(s)
  BY <1>1, <1>2 DEF BaseSetMax, BaseGetMax
<1>3. CASE e[2] = 0 /\ e[1] + 1 = Len(s)
  <2>1. BaseSetMax(s, e) = Trim(Resized(s, e))
    BY <1>1, <1>3 DEF BaseSetMax
  <2> QED BY <2>1, ResizedLemma, TrimLemma
<1>4. CASE ~(e[2] = 0 /\ e[1] >= Len(s)) /\ ~(e[2] = 0 /\ e[1] + 1 = Len(s))
  <2>1. BaseSetMax(s, e) = Resized(s, e)
    BY <1>4 DEF BaseSetMax
  <2>2. e[2] # 0 \/ e[1] + 1 < Len(s)
    BY <1>1, <1>4
  <2> QED BY <2>1, <2>2, ResizedLemma
<1> QED BY <1>2, <1>3, <1>4

(* updateIdx() of a base raises one index. *)
LEMMA UpdateIdxLemma ==
    ASSUME NEW s \in Vectors, NEW e \in Events
    PROVE  /\ BaseUpdateIdx(s, e) \in Vectors
           /\ \A t \in Threads : BaseGetMax(BaseUpdateIdx(s, e), t)
                                   = IF t = e[1] THEN Larger(BaseGetMax(s, t), e[2]) ELSE BaseGetMax(s, t)
           /\ Trimmed(s) => Trimmed(BaseUpdateIdx(s, e))
<1>1. e[1] \in Threads /\ e[2] \in Nat /\ BaseGetMax(s, e[1]) \in Nat
  BY VectorLen, ViewAssumption DEF Events
<1>2. CASE BaseGetMax(s, e[1]) < e[2]
  BY <1>1, <1>2, SetMaxLemma DEF BaseUpdateIdx, Larger
<1>3. CASE BaseGetMax(s, e[1]) >= e[2]
  BY <1>1, <1>3 DEF BaseUpdateIdx, Larger
<1> QED BY <1>1, <1>2, <1>3

(* update() of a base takes the larger index of every thread. *)
LEMMA UpdateLemma ==
    ASSUME NEW s \in Vectors, NEW r \in Vectors
    PROVE  /\ BaseUpdate(s, r) \in Vectors
           /\ \A t \in Threads : BaseGetMax(BaseUpdate(s, r), t) = Larger(BaseGetMax(s, t), BaseGetMax(r, t))
           /\ Trimmed(s) /\ Trimmed(r) => Trimmed(BaseUpdate(s, r))
<1> DEFINE n == Larger(Len(s), Len(r))
           u == BaseUpdate(s, r)
<1>1. /\ Len(s) \in Nat /\ Len(s) <= NumThreads /\ Len(r) \in Nat /\ Len(r) <= NumThreads
      /\ \A t \in Threads : BaseGetMax(s, t) \in Indices /\ BaseGetMax(r, t) \in Indices
      /\ s \in [1 .. Len(s) -> Indices] /\ r \in [1 .. Len(r) -> Indices]
  BY VectorLen
<1>2. n \in 0 .. NumThreads /\ n >= Len(s) /\ n >= Len(r) /\ (n = Len(s) \/ n = Len(r))
  BY <1>1, ViewAssumption DEF Larger
<1>3. u = [i \in 1 .. n |-> Larger(BaseGetMax(s, i - 1), BaseGetMax(r, i - 1))]
  BY DEF BaseUpdate
<1> HIDE DEF n, u
<1>4. \A i \in 1 .. n : i - 1 \in Threads
  BY <1>2, ViewAssumption DEF Threads
<1>5. u \in [1 .. n -> Indices] /\ Len(u) = n
  <2>1. ASSUME NEW i \in 1 .. n
        PROVE  Larger(BaseGetMax(s, i - 1), BaseGetMax(r, i - 1)) \in Indices
    BY <1>1, <1>4 DEF Larger
  <2>2. u \in [1 .. n -> Indices]
    BY <2>1, <1>3, Zenon
  <2> QED BY <2>2, <1>2, <1>3
<1>6. u \in Vectors
  BY <1>2, <1>5, VectorType
<1>7. ASSUME NEW t \in Threads PROVE BaseGetMax(u, t) = Larger(BaseGetMax(s, t), BaseGetMax(r, t))
  <2>1. CASE t < n
    BY <2>1, <1>2, <1>3, <1>5, ViewAssumption DEF BaseGetMax, Threads
  <2>2. CASE t >= n
    <3>0. t \in Nat /\ n \in Nat
      BY <1>2, ViewAssumption DEF Threads
    <3>1. ~(t < n) /\ ~(t < Len(s)) /\ ~(t < Len(r))
      BY <2>2, <3>0, <1>2, VectorLen
    <3>2. BaseGetMax(u, t) = 0 /\ BaseGetMax(s, t) = 0 /\ BaseGetMax(r, t) = 0
      BY <3>1, <1>5 DEF BaseGetMax
    <3> QED BY <3>2 DEF Larger
  <2> QED BY <2>1, <2>2, <1>2, ViewAssumption DEF Threads
<1>8. ASSUME Trimmed(s), Trimmed(r) PROVE Trimmed(u)
  <2> SUFFICES ASSUME n > 0 PROVE u[n] # 0
    BY <1>5 DEF Trimmed
  <2>1. u[n] = Larger(BaseGetMax(s, n - 1), BaseGetMax(r, n - 1))
    BY <1>2, <1>3
  <2>2. n - 1 \in Threads
    BY <1>2, <1>4
  <2>3. BaseGetMax(s, n - 1) \in Nat /\ BaseGetMax(r, n - 1) \in Nat
    BY <1>1, <2>2, ViewAssumption
  <2>4. BaseGetMax(s, n - 1) # 0 \/ BaseGetMax(r, n - 1) # 0
    <3>1. CASE n = Len(s)
      BY <3>1, <1>2, <1>8 DEF BaseGetMax, Trimmed
    <3>2. CASE n = Len(r)
      BY <3>2, <1>2, <1>8 DEF BaseGetMax, Trimmed
    <3> QED BY <3>1, <3>2, <1>2
  <2> QED BY <2>1, <2>3, <2>4 DEF Larger
<1> QED BY <1>6, <1>7, <1>8 DEF u

(***************************************************************************)
(* What a view says of a thread is the larger of what its base and its     *)
(* diff say; the empty diff says nothing.                                  *)
(***************************************************************************)
LEMMA LargerLemma ==
    ASSUME NEW i \in Indices, NEW j \in Indices
    PROVE  /\ i \in Nat /\ j \in Nat
           /\ Larger(i, j) \in Indices /\ Larger(i, j) \in Nat
           /\ Larger(i, j) >= i /\ Larger(i, j) >= j
           /\ Larger(i, j) = i \/ Larger(i, j) = j
           /\ i <= j => Larger(i, j) = j
           /\ j <= i => Larger(i, j) = i
<1>1. i \in Nat /\ j \in Nat
  BY ViewAssumption
<1> QED BY <1>1 DEF Larger

(* A view knows of a thread the larger of what its base and its diff say. *)
LEMMA DiffLemma ==
    ASSUME NEW s \in Vectors, NEW d \in Events, NEW t \in Threads
    PROVE  /\ MaxWithDiff(s, d, t) = IF t = d[1] THEN Larger(BaseGetMax(s, t), d[2]) ELSE BaseGetMax(s, t)
           /\ MaxWithDiff(s, d, t) \in Indices
           /\ MaxWithDiff(s, InitEvent, t) = BaseGetMax(s, t)
<1>1. BaseGetMax(s, t) \in Indices /\ d[2] \in Indices /\ 0 \in Indices
  BY VectorLen, EventType, ViewAssumption
<1>2. CASE d = InitEvent
  <2>1. d[1] = 0 /\ d[2] = 0
    BY <1>2 DEF InitEvent
  <2>2. Larger(BaseGetMax(s, t), 0) = BaseGetMax(s, t)
    BY <1>1, LargerLemma
  <2> QED BY <1>1, <1>2, <2>1, <2>2 DEF MaxWithDiff
<1>3. CASE d # InitEvent
  BY <1>1, <1>3, LargerLemma DEF MaxWithDiff
<1> QED BY <1>2, <1>3

(* The initializer is an event, and a base may be empty. *)
LEMMA InitEventLemma == InitEvent \in Events /\ <<>> \in Vectors
<1>1. InitEvent \in Events
  BY ViewAssumption DEF InitEvent, Events, Threads
<1>2. <<>> \in [1 .. 0 -> Indices] /\ 0 \in 0 .. NumThreads
  BY ViewAssumption
<1> QED BY <1>1, <1>2, VectorType

ViewRecords == [base : Bases \cup {Null}, diff : Events]

(* What the types of a view say of its base and its diff. *)
LEMMA ViewLemma ==
    ASSUME TypeOK, NEW x \in ViewRecords
    PROVE  /\ x.base \in Bases \cup {Null} /\ x.diff \in Events
           /\ Content(x.base) \in Vectors
           /\ x.base # Null => x.base \in Bases /\ Content(x.base) = vec[x.base]
           /\ BasesTrimmed => Trimmed(Content(x.base))
           /\ \A t \in Threads : getMax(x, t) \in Indices
<1>1. x.base \in Bases \cup {Null} /\ x.diff \in Events
  BY DEF ViewRecords
<1>2. Content(x.base) \in Vectors
  BY <1>1, InitEventLemma DEF Content, TypeOK
<1>3. BasesTrimmed => Trimmed(Content(x.base))
  BY <1>1 DEF BasesTrimmed, Content, Trimmed
<1>4. \A t \in Threads : getMax(x, t) \in Indices
  BY <1>1, <1>2, DiffLemma DEF getMax
<1> QED BY <1>1, <1>2, <1>3, <1>4 DEF Content

(* The base that a view makes for itself says what the view says. *)
LEMMA HydrateLemma ==
    ASSUME TypeOK, NEW x \in ViewRecords
    PROVE  /\ hydrate(x) \in Vectors
           /\ BasesTrimmed => Trimmed(hydrate(x))
           /\ \A t \in Threads : BaseGetMax(hydrate(x), t) = getMax(x, t)
<1>1. Content(x.base) \in Vectors /\ x.diff \in Events /\ (BasesTrimmed => Trimmed(Content(x.base)))
  BY ViewLemma
<1>2. CASE x.diff = InitEvent
  BY <1>1, <1>2, DiffLemma DEF hydrate, getMax
<1>3. CASE x.diff # InitEvent
  BY <1>1, <1>3, DiffLemma, UpdateIdxLemma DEF hydrate, getMax
<1> QED BY <1>2, <1>3

(* A view that is said to contain another one does. *)
LEMMA ContainsLemma ==
    ASSUME TypeOK, NEW x \in ViewRecords, NEW y \in ViewRecords, contains(x, y), NEW t \in Threads
    PROVE  getMax(y, t) <= getMax(x, t)
<1> DEFINE s == Content(x.base)
           r == Content(y.base)
<1>1. s \in Vectors /\ r \in Vectors /\ x.diff \in Events /\ y.diff \in Events
  BY ViewLemma
<1>2. /\ getMax(x, t) \in Nat /\ getMax(y, t) \in Nat
      /\ BaseGetMax(s, t) \in Nat /\ BaseGetMax(r, t) \in Nat
  BY ViewLemma, VectorLen, ViewAssumption
<1>3. BaseGetMax(s, t) <= getMax(x, t)
  <2>1. getMax(x, t) = IF t = x.diff[1] THEN Larger(BaseGetMax(s, t), x.diff[2]) ELSE BaseGetMax(s, t)
    BY <1>1, DiffLemma DEF getMax
  <2>2. BaseGetMax(s, t) \in Indices /\ x.diff[2] \in Indices
    BY <1>1, VectorLen, EventType
  <2> QED BY <2>1, <2>2, <1>2, LargerLemma
<1>4. BaseGetMax(r, t) <= BaseGetMax(s, t)
  <2>1. CASE y.base = Null \/ r = <<>>
    <3>1. r = <<>>
      BY <2>1 DEF Content
    <3>2. BaseGetMax(r, t) = 0
      BY <3>1, ViewAssumption DEF BaseGetMax, Threads
    <3> QED BY <3>2, <1>2
  <2>2. CASE x.base = y.base
    BY <2>2, <1>2
  <2>3. CASE BaseContains(s, r)
    <3>1. t \in Nat /\ Len(s) \in Nat /\ Len(r) \in Nat
      BY <1>1, VectorLen, ViewAssumption DEF Threads
    <3>2. CASE t < Len(r)
      BY <2>3, <3>1, <3>2 DEF BaseContains, BaseGetMax
    <3>3. CASE ~(t < Len(r))
      BY <3>1, <3>3, <1>2 DEF BaseGetMax
    <3> QED BY <3>2, <3>3
  <2> QED BY <2>1, <2>2, <2>3 DEF contains
<1>5. t = y.diff[1] => y.diff[2] <= getMax(x, t)
  <2>1. CASE y.diff = InitEvent
    BY <2>1, <1>2 DEF InitEvent
  <2>2. CASE y.diff # InitEvent
    BY <2>2 DEF contains
  <2> QED BY <2>1, <2>2
<1>6. BaseGetMax(r, t) <= getMax(x, t)
  BY <1>2, <1>3, <1>4
<1>7. getMax(y, t) = BaseGetMax(r, t) \/ (t = y.diff[1] /\ getMax(y, t) = y.diff[2])
  <2>1. getMax(y, t) = IF t = y.diff[1] THEN Larger(BaseGetMax(r, t), y.diff[2]) ELSE BaseGetMax(r, t)
    BY <1>1, DiffLemma DEF getMax
  <2> QED BY <2>1 DEF Larger
<1> QED BY <1>5, <1>6, <1>7

(***************************************************************************)
(* A step of one view: it gets the clock c.  Its new base is nobody's or   *)
(* one of the same driver.  If others have it, what it holds does not      *)
(* change.                                                                 *)
(***************************************************************************)
NearBase(v, b) == b = Null \/ b \in Unused \/ \E w \in Views : w[2] = v[2] /\ view[w].base = b
Becomes(v, c) == \E b \in Bases \cup {Null}, s \in Vectors, d \in Events :
    /\ Become(v, b, s, d)
    /\ NearBase(v, b)
    /\ b = Null => s = <<>>
    /\ \A w \in Views \ {v} : b # Null /\ view[w].base = b => s = vec[b]
    /\ BasesTrimmed => Trimmed(s)
    /\ c = [t \in Threads |-> MaxWithDiff(s, d, t)]

(* How to show that a step changes one view and leaves the others alone. *)
LEMMA BecomesIntro ==
    ASSUME NEW v, NEW c, NEW b \in Bases \cup {Null}, NEW s \in Vectors, NEW d \in Events,
           Become(v, b, s, d), NearBase(v, b),
           b = Null => s = <<>>,
           \A w \in Views \ {v} : b # Null /\ view[w].base = b => s = vec[b],
           BasesTrimmed => Trimmed(s),
           c = [t \in Threads |-> MaxWithDiff(s, d, t)]
    PROVE  Becomes(v, c)
BY Zenon DEF Becomes

(* The base is one that there is already. *)
LEMMA SharedIntro ==
    ASSUME TypeOK, NEW v, NEW c, NEW b \in Bases \cup {Null}, NEW d \in Events,
           Become(v, b, Content(b), d), NearBase(v, b),
           c = [t \in Threads |-> MaxWithDiff(Content(b), d, t)]
    PROVE  Becomes(v, c)
<1>1. /\ Content(b) \in Vectors
      /\ BasesTrimmed => Trimmed(Content(b))
  BY InitEventLemma DEF Content, TypeOK, BasesTrimmed, Trimmed
<1>2. (b = Null => Content(b) = <<>>) /\ (b # Null => Content(b) = vec[b])
  BY DEF Content
<1> QED BY <1>1, <1>2, BecomesIntro

(* All others say what they said before, and bases keep their owners. *)
LEMMA BecomesLemma ==
    ASSUME TypeOK, NEW v \in Views, NEW c, Becomes(v, c)
    PROVE  /\ TypeOK'
           /\ BasesTrimmed => BasesTrimmed'
           /\ Clock' = [Clock EXCEPT ![v] = c]
           /\ OwnedByOneThread => OwnedByOneThread'
<1>1. PICK b \in Bases \cup {Null}, s \in Vectors, d \in Events :
        /\ Become(v, b, s, d)
        /\ NearBase(v, b)
        /\ b = Null => s = <<>>
        /\ \A w \in Views \ {v} : b # Null /\ view[w].base = b => s = vec[b]
        /\ BasesTrimmed => Trimmed(s)
        /\ c = [t \in Threads |-> MaxWithDiff(s, d, t)]
  BY DEF Becomes
<1>2. view' \in [Views -> ViewRecords]
  BY <1>1 DEF Become, TypeOK, ViewRecords
<1>3. vec' \in [Bases -> Vectors]
  BY <1>1, InitEventLemma DEF Become, TypeOK
<1>4. TypeOK'
  BY <1>2, <1>3 DEF TypeOK, ViewRecords
<1>5. ASSUME BasesTrimmed PROVE BasesTrimmed'
  <2> SUFFICES ASSUME NEW a \in Bases PROVE Trimmed(vec'[a])
    BY DEF BasesTrimmed, Trimmed
  <2>1. vec'[a] = s \/ vec'[a] = vec[a] \/ vec'[a] = <<>>
    BY <1>1 DEF Become
  <2>2. Trimmed(s) /\ Trimmed(vec[a]) /\ Trimmed(<<>>)
    BY <1>1, <1>5 DEF BasesTrimmed, Trimmed
  <2> QED BY <2>1, <2>2
<1>6. Clock'[v] = c
  <2>1. view'[v] = [base |-> b, diff |-> d]
    BY <1>1 DEF Become, TypeOK
  <2>2. Content(b)' = s
    BY <1>1, ViewAssumption DEF Become, Content
  <2> QED BY <1>1, <2>1, <2>2 DEF Clock, getMax, Content
<1>7. ASSUME NEW w \in Views, w # v PROVE Clock'[w] = Clock[w]
  <2>1. view'[w] = view[w] /\ view[w].base \in Bases \cup {Null}
    BY <1>1, <1>7 DEF Become, TypeOK
  <2>2. view[w].base # Null => vec'[view[w].base] = vec[view[w].base]
    BY <1>1, <1>7, <2>1 DEF Become
  <2>3. Content(view[w].base)' = Content(view[w].base)
    BY <2>1, <2>2 DEF Content
  <2> QED BY <2>1, <2>3 DEF Clock, getMax, Content
<1>8. Clock' = [Clock EXCEPT ![v] = c]
  BY <1>6, <1>7 DEF Clock
<1>9. ASSUME OwnedByOneThread PROVE OwnedByOneThread'
  <2> SUFFICES ASSUME NEW u \in Views, NEW w \in Views, view'[u].base # Null, view'[w].base = view'[u].base
               PROVE  w[2] = u[2]
    BY DEF OwnedByOneThread
  <2>1. ASSUME NEW z \in Views, z # v PROVE view'[z] = view[z]
    BY <1>1, <2>1 DEF Become, TypeOK
  <2>2. view'[v].base = b
    BY <1>1 DEF Become, TypeOK
  <2>3. ASSUME NEW z \in Views, z # v, view[z].base = b, b # Null PROVE z[2] = v[2]
    BY <1>1, <1>9, <2>3 DEF NearBase, Unused, OwnedByOneThread
  <2>4. CASE u = v /\ w = v
    BY <2>4
  <2>5. CASE u = v /\ w # v
    BY <2>1, <2>2, <2>3, <2>5
  <2>6. CASE u # v /\ w = v
    BY <2>1, <2>2, <2>3, <2>6
  <2>7. CASE u # v /\ w # v
    BY <1>9, <2>1, <2>7 DEF OwnedByOneThread
  <2> QED BY <2>4, <2>5, <2>6, <2>7
<1> QED BY <1>4, <1>5, <1>8, <1>9

(* A new view knows of nothing. *)
LEMMA ClearLemma ==
    ASSUME TypeOK, NEW v \in Views, Clear(v)
    PROVE  Becomes(v, [t \in Threads |-> 0])
<1>1. ASSUME NEW t \in Threads PROVE MaxWithDiff(<<>>, InitEvent, t) = 0
  BY DiffLemma, InitEventLemma, ViewAssumption DEF BaseGetMax, Threads
<1>2. Content(Null) = <<>> /\ NearBase(v, Null)
  BY DEF Content, NearBase
<1> QED BY <1>1, <1>2, InitEventLemma, SharedIntro DEF Clear

(* What is said of the view of a program, by the type invariant. *)
LEMMA ViewOf ==
    ASSUME TypeOK, NEW v \in Views
    PROVE  /\ view[v] \in ViewRecords
           /\ Clock[v] = [t \in Threads |-> getMax(view[v], t)]
BY DEF TypeOK, ViewRecords, Clock

(* A copy says what the original says. *)
LEMMA CopyLemma ==
    ASSUME TypeOK, NEW v \in Views, NEW w \in Views, w[2] = v[2], Copy(v, w)
    PROVE  Becomes(v, Clock[w])
<1> DEFINE y == view[w]
<1>1. y \in ViewRecords /\ Clock[w] = [t \in Threads |-> MaxWithDiff(Content(y.base), y.diff, t)]
  BY ViewOf DEF getMax
<1>2. y.base \in Bases \cup {Null} /\ y.diff \in Events
  BY <1>1, ViewLemma
<1>3. NearBase(v, y.base)
  BY DEF NearBase
<1> QED BY <1>1, <1>2, <1>3, SharedIntro DEF Copy

(* updateIdx() raises one index of the view, in its diff or in a base. *)
LEMMA UpdateIdxStep ==
    ASSUME TypeOK, NEW v \in Views, NEW e \in Events, UpdateIdx(v, e)
    PROVE  UNCHANGED vars \/ Becomes(v, [Clock[v] EXCEPT ![e[1]] = Larger(@, e[2])])
<1> DEFINE x == view[v]
           c == [Clock[v] EXCEPT ![e[1]] = Larger(@, e[2])]
<1>1. x \in ViewRecords /\ Clock[v] = [t \in Threads |-> getMax(x, t)]
  BY ViewOf
<1>2. /\ x.base \in Bases \cup {Null} /\ x.diff \in Events /\ Content(x.base) \in Vectors
      /\ x.base # Null => x.base \in Bases /\ Content(x.base) = vec[x.base]
      /\ BasesTrimmed => Trimmed(Content(x.base))
      /\ \A t \in Threads : getMax(x, t) \in Indices
  BY <1>1, ViewLemma
<1>3. e[1] \in Threads /\ e[2] \in Indices
  BY EventType
<1>4. \A t \in Threads : c[t] = IF t = e[1] THEN Larger(getMax(x, t), e[2]) ELSE getMax(x, t)
  BY <1>1
<1>5. c = [t \in Threads |-> c[t]]
  BY <1>1
<1>near. NearBase(v, x.base) /\ \A b \in Unused : NearBase(v, b)
  BY DEF NearBase
<1> HIDE DEF c
<1>6. CASE SoleOwner(v) /\ Become(v, x.base, BaseUpdateIdx(vec[x.base], e), x.diff)
  <2> DEFINE s == BaseUpdateIdx(vec[x.base], e)
  <2>1. x.base # Null /\ \A w \in Views \ {v} : view[w].base # x.base
    BY <1>6 DEF SoleOwner
  <2>2. s \in Vectors /\ (BasesTrimmed => Trimmed(s))
    BY <2>1, <1>2, UpdateIdxLemma
  <2>3. ASSUME NEW t \in Threads PROVE c[t] = MaxWithDiff(s, x.diff, t)
    <3> DEFINE i == BaseGetMax(Content(x.base), t)
    <3>1. i \in Indices /\ x.diff[2] \in Indices
      BY <1>2, VectorLen, EventType
    <3>2. BaseGetMax(s, t) = IF t = e[1] THEN Larger(i, e[2]) ELSE i
      BY <2>1, <1>2, UpdateIdxLemma
    <3>3. MaxWithDiff(s, x.diff, t) = IF t = x.diff[1] THEN Larger(BaseGetMax(s, t), x.diff[2]) ELSE BaseGetMax(s, t)
      BY <2>2, <1>2, DiffLemma
    <3>4. getMax(x, t) = IF t = x.diff[1] THEN Larger(i, x.diff[2]) ELSE i
      BY <1>2, DiffLemma DEF getMax
    <3> HIDE DEF i, s
    <3>5. Larger(Larger(i, e[2]), x.diff[2]) = Larger(Larger(i, x.diff[2]), e[2])
      <4>1. i \in Nat /\ e[2] \in Nat /\ x.diff[2] \in Nat
        BY <3>1, <1>3, ViewAssumption
      <4> QED BY <4>1 DEF Larger
    <3> QED BY <3>2, <3>3, <3>4, <3>5, <1>4
  <2>4. c = [t \in Threads |-> MaxWithDiff(s, x.diff, t)]
    BY <2>3, <1>5, Zenon
  <2> HIDE DEF s
  <2>5. Become(v, x.base, s, x.diff)
    BY <1>6 DEF s
  <2>6. Becomes(v, c)
    BY <2>1, <2>2, <2>4, <2>5, <1>2, <1>near, BecomesIntro
  <2> QED BY <2>6 DEF c
<1>7. CASE /\ ~containsEvent(x, e)
           /\ x.diff = InitEvent \/ x.diff[1] = e[1]
           /\ Become(v, x.base, Content(x.base), e)
  <2>1. ASSUME NEW t \in Threads PROVE c[t] = MaxWithDiff(Content(x.base), e, t)
    <3> DEFINE i == BaseGetMax(Content(x.base), t)
    <3>1. i \in Indices /\ x.diff[2] \in Indices
      BY <1>2, VectorLen, EventType
    <3>2. getMax(x, t) = IF t = x.diff[1] THEN Larger(i, x.diff[2]) ELSE i
      BY <1>2, DiffLemma DEF getMax
    <3>3. x.diff = InitEvent => getMax(x, t) = i
      BY <1>2, DiffLemma DEF getMax
    <3>4. MaxWithDiff(Content(x.base), e, t) = IF t = e[1] THEN Larger(i, e[2]) ELSE i
      BY <1>2, DiffLemma
    <3> HIDE DEF i
    <3>5. t = e[1] => ~(e[2] <= getMax(x, t))
      BY <1>7 DEF containsEvent
    <3>6. i \in Nat /\ e[2] \in Nat /\ x.diff[2] \in Nat
      BY <3>1, <1>3, ViewAssumption
    <3>7. CASE x.diff = InitEvent
      BY <3>3, <3>4, <3>7, <1>4
    <3>8. CASE x.diff[1] = e[1]
      BY <3>2, <3>4, <3>5, <3>6, <3>8, <1>4 DEF Larger
    <3> QED BY <3>7, <3>8, <1>7
  <2>2. c = [t \in Threads |-> MaxWithDiff(Content(x.base), e, t)]
    BY <2>1, <1>5, Zenon
  <2>3. Becomes(v, c)
    BY <1>7, <2>2, <1>2, <1>near, SharedIntro
  <2> QED BY <2>3 DEF c
<1>8. CASE \E b \in Unused : Become(v, b, BaseUpdateIdx(hydrate(x), e), InitEvent)
  <2> DEFINE s == BaseUpdateIdx(hydrate(x), e)
  <2>1. PICK b \in Unused : Become(v, b, s, InitEvent)
    BY <1>8
  <2>2. b \in Bases /\ b # Null /\ \A w \in Views : view[w].base # b
    BY ViewAssumption DEF Unused
  <2>3. s \in Vectors /\ (BasesTrimmed => Trimmed(s))
    BY <1>1, HydrateLemma, UpdateIdxLemma
  <2>4. ASSUME NEW t \in Threads PROVE c[t] = MaxWithDiff(s, InitEvent, t)
    <3>1. MaxWithDiff(s, InitEvent, t) = BaseGetMax(s, t)
      BY <2>3, InitEventLemma, DiffLemma
    <3>2. BaseGetMax(s, t) = IF t = e[1] THEN Larger(getMax(x, t), e[2]) ELSE getMax(x, t)
      BY <1>1, HydrateLemma, UpdateIdxLemma
    <3> QED BY <3>1, <3>2, <1>4
  <2>5. c = [t \in Threads |-> MaxWithDiff(s, InitEvent, t)]
    BY <2>4, <1>5, Zenon
  <2> HIDE DEF s
  <2>6. Becomes(v, c)
    BY <2>1, <2>2, <2>3, <2>5, <1>near, InitEventLemma, BecomesIntro
  <2> QED BY <2>6 DEF c
<1> QED BY <1>6, <1>7, <1>8 DEF UpdateIdx, c

(* setMax() sets one index of the view. *)
LEMMA SetMaxStep ==
    ASSUME TypeOK, NEW v \in Views, NEW e \in Events, SetMax(v, e)
    PROVE  Becomes(v, [Clock[v] EXCEPT ![e[1]] = e[2]])
<1> DEFINE x == view[v]
           c == [Clock[v] EXCEPT ![e[1]] = e[2]]
<1>1. x \in ViewRecords /\ Clock[v] = [t \in Threads |-> getMax(x, t)]
  BY ViewOf
<1>2. /\ x.base \in Bases \cup {Null} /\ x.diff \in Events /\ Content(x.base) \in Vectors
      /\ x.base # Null => x.base \in Bases /\ Content(x.base) = vec[x.base]
      /\ BasesTrimmed => Trimmed(Content(x.base))
      /\ \A t \in Threads : getMax(x, t) \in Indices
  BY <1>1, ViewLemma
<1>3. e[1] \in Threads /\ e[2] \in Indices
  BY EventType
<1>4. \A t \in Threads : c[t] = IF t = e[1] THEN e[2] ELSE getMax(x, t)
  BY <1>1
<1>5. c = [t \in Threads |-> c[t]]
  BY <1>1
<1>near. NearBase(v, x.base) /\ \A b \in Unused : NearBase(v, b)
  BY DEF NearBase
<1> HIDE DEF c
<1>6. CASE SoleOwner(v) /\ ~HidesLower(v, e) /\ Become(v, x.base, BaseSetMax(vec[x.base], e), x.diff)
  <2> DEFINE s == BaseSetMax(vec[x.base], e)
  <2>1. x.base # Null /\ \A w \in Views \ {v} : view[w].base # x.base
    BY <1>6 DEF SoleOwner
  <2>2. s \in Vectors /\ (BasesTrimmed => Trimmed(s))
    BY <2>1, <1>2, SetMaxLemma
  <2>3. ASSUME NEW t \in Threads PROVE c[t] = MaxWithDiff(s, x.diff, t)
    <3> DEFINE i == BaseGetMax(Content(x.base), t)
    <3>1. i \in Indices /\ x.diff[2] \in Indices
      BY <1>2, VectorLen, EventType
    <3>2. BaseGetMax(s, t) = IF t = e[1] THEN e[2] ELSE i
      BY <2>1, <1>2, SetMaxLemma
    <3>3. /\ MaxWithDiff(s, x.diff, t)
               = IF t = x.diff[1] THEN Larger(BaseGetMax(s, t), x.diff[2]) ELSE BaseGetMax(s, t)
          /\ x.diff = InitEvent => MaxWithDiff(s, x.diff, t) = BaseGetMax(s, t)
      BY <2>2, <1>2, DiffLemma
    <3>4. /\ getMax(x, t) = IF t = x.diff[1] THEN Larger(i, x.diff[2]) ELSE i
          /\ x.diff = InitEvent => getMax(x, t) = i
      BY <1>2, DiffLemma DEF getMax
    <3>5. x.diff = InitEvent \/ ~(e[2] < getMax(x, e[1]))
      BY <1>6 DEF HidesLower
    <3> HIDE DEF i, s
    <3>6. i \in Nat /\ e[2] \in Nat /\ x.diff[2] \in Nat
      BY <3>1, <1>3, ViewAssumption
    <3>7. CASE x.diff = InitEvent
      BY <3>2, <3>3, <3>4, <3>7, <1>4
    <3>8. CASE t = e[1] /\ ~(e[2] < getMax(x, t))
      BY <3>2, <3>3, <3>4, <3>6, <3>8, <1>4 DEF Larger
    <3>9. CASE t # e[1]
      BY <3>2, <3>3, <3>4, <3>9, <1>4
    <3> QED BY <3>5, <3>7, <3>8, <3>9
  <2>4. c = [t \in Threads |-> MaxWithDiff(s, x.diff, t)]
    BY <2>3, <1>5, Zenon
  <2> HIDE DEF s
  <2>5. Become(v, x.base, s, x.diff)
    BY <1>6 DEF s
  <2>6. Becomes(v, c)
    BY <2>1, <2>2, <2>4, <2>5, <1>2, <1>near, BecomesIntro
  <2> QED BY <2>6 DEF c
<1>7. CASE /\ x.base = Null \/ ~BaseContainsEvent(Content(x.base), e)
           /\ x.diff = InitEvent \/ x.diff[1] = e[1]
           /\ Become(v, x.base, Content(x.base), IF e[2] = 0 THEN InitEvent ELSE e)
  <2> DEFINE d == IF e[2] = 0 THEN InitEvent ELSE e
  <2>0. d \in Events
    BY InitEventLemma
  <2>1. ASSUME NEW t \in Threads PROVE c[t] = MaxWithDiff(Content(x.base), d, t)
    <3> DEFINE i == BaseGetMax(Content(x.base), t)
    <3>1. i \in Indices /\ x.diff[2] \in Indices
      BY <1>2, VectorLen, EventType
    <3>2. /\ getMax(x, t) = IF t = x.diff[1] THEN Larger(i, x.diff[2]) ELSE i
          /\ x.diff = InitEvent => getMax(x, t) = i
      BY <1>2, DiffLemma DEF getMax
    <3>3. /\ MaxWithDiff(Content(x.base), e, t) = IF t = e[1] THEN Larger(i, e[2]) ELSE i
          /\ MaxWithDiff(Content(x.base), InitEvent, t) = i
      BY <1>2, DiffLemma
    <3>4. x.base = Null => i = 0
      BY ViewAssumption DEF Content, BaseGetMax, Threads
    <3>5. t = e[1] => x.base = Null \/ ~(e[2] <= i)
      BY <1>7 DEF BaseContainsEvent
    <3> HIDE DEF i
    <3>6. i \in Nat /\ e[2] \in Nat /\ x.diff[2] \in Nat
      BY <3>1, <1>3, ViewAssumption
    <3>7. CASE t # e[1]
      <4>1. getMax(x, t) = i
        BY <3>2, <3>7, <1>7
      <4> QED BY <4>1, <3>3, <3>7, <1>4
    <3>8. CASE t = e[1]
      <4>1. Larger(i, e[2]) = e[2] /\ (e[2] = 0 => i = 0)
        BY <3>4, <3>5, <3>6, <3>8 DEF Larger
      <4> QED BY <4>1, <3>3, <3>8, <1>4
    <3> QED BY <3>7, <3>8
  <2>2. c = [t \in Threads |-> MaxWithDiff(Content(x.base), d, t)]
    BY <2>1, <1>5, Zenon
  <2>3. Become(v, x.base, Content(x.base), d)
    BY <1>7
  <2> HIDE DEF d
  <2>4. Becomes(v, c)
    BY <2>0, <2>2, <2>3, <1>2, <1>near, SharedIntro
  <2> QED BY <2>4 DEF c
<1>8. CASE \E b \in Unused : Become(v, b, BaseSetMax(hydrate(x), e), InitEvent)
  <2> DEFINE s == BaseSetMax(hydrate(x), e)
  <2>1. PICK b \in Unused : Become(v, b, s, InitEvent)
    BY <1>8
  <2>2. b \in Bases /\ b # Null /\ \A w \in Views : view[w].base # b
    BY ViewAssumption DEF Unused
  <2>3. s \in Vectors /\ (BasesTrimmed => Trimmed(s))
    BY <1>1, HydrateLemma, SetMaxLemma
  <2>4. ASSUME NEW t \in Threads PROVE c[t] = MaxWithDiff(s, InitEvent, t)
    <3>1. MaxWithDiff(s, InitEvent, t) = BaseGetMax(s, t)
      BY <2>3, InitEventLemma, DiffLemma
    <3>2. BaseGetMax(s, t) = IF t = e[1] THEN e[2] ELSE getMax(x, t)
      BY <1>1, HydrateLemma, SetMaxLemma
    <3> QED BY <3>1, <3>2, <1>4
  <2>5. c = [t \in Threads |-> MaxWithDiff(s, InitEvent, t)]
    BY <2>4, <1>5, Zenon
  <2> HIDE DEF s
  <2>6. Becomes(v, c)
    BY <2>1, <2>2, <2>3, <2>5, <1>near, InitEventLemma, BecomesIntro
  <2> QED BY <2>6 DEF c
<1> QED BY <1>6, <1>7, <1>8 DEF SetMax, c

(* Joining another view into a base takes the larger indices. *)
LEMMA MergedLemma ==
    ASSUME TypeOK, NEW s \in Vectors, NEW b, NEW y \in ViewRecords, y.base = b => s = Content(b)
    PROVE  /\ Merged(s, b, y) \in Vectors
           /\ BasesTrimmed /\ Trimmed(s) => Trimmed(Merged(s, b, y))
           /\ \A t \in Threads : BaseGetMax(Merged(s, b, y), t) = Larger(BaseGetMax(s, t), getMax(y, t))
<1> DEFINE r == IF y.base # Null /\ y.base # b THEN BaseUpdate(s, vec[y.base]) ELSE s
<1>1. /\ y.diff \in Events /\ Content(y.base) \in Vectors
      /\ y.base # Null => Content(y.base) = vec[y.base]
      /\ BasesTrimmed => Trimmed(Content(y.base))
  BY ViewLemma
<1>2. /\ r \in Vectors
      /\ BasesTrimmed /\ Trimmed(s) => Trimmed(r)
      /\ \A t \in Threads : BaseGetMax(r, t) = Larger(BaseGetMax(s, t), BaseGetMax(Content(y.base), t))
  <2>1. CASE y.base # Null /\ y.base # b
    BY <2>1, <1>1, UpdateLemma
  <2>2. CASE y.base = Null \/ y.base = b
    <3>1. ASSUME NEW t \in Threads
          PROVE  Larger(BaseGetMax(s, t), BaseGetMax(Content(y.base), t)) = BaseGetMax(s, t)
      <4>1. BaseGetMax(s, t) \in Nat
        BY VectorLen, ViewAssumption
      <4>2. CASE y.base = Null
        <5>1. BaseGetMax(Content(y.base), t) = 0
          BY <4>2, ViewAssumption DEF Content, BaseGetMax, Threads
        <5> QED BY <4>1, <5>1 DEF Larger
      <4>3. CASE y.base = b
        BY <4>1, <4>3 DEF Larger
      <4> QED BY <2>2, <4>2, <4>3
    <3> QED BY <2>2, <3>1
  <2> QED BY <2>1, <2>2
<1>3. Merged(s, b, y) = IF y.diff # InitEvent THEN BaseUpdateIdx(r, y.diff) ELSE r
  BY DEF Merged
<1> HIDE DEF r
<1>4. CASE y.diff = InitEvent
  BY <1>1, <1>2, <1>3, <1>4, DiffLemma DEF getMax
<1>5. CASE y.diff # InitEvent
  <2>1. ASSUME NEW t \in Threads
        PROVE  BaseGetMax(Merged(s, b, y), t) = Larger(BaseGetMax(s, t), getMax(y, t))
    <3> DEFINE i == BaseGetMax(s, t)
               j == BaseGetMax(Content(y.base), t)
               k == y.diff[2]
    <3>1. i \in Nat /\ j \in Nat /\ k \in Nat
      BY <1>1, VectorLen, EventType, ViewAssumption
    <3>2. BaseGetMax(Merged(s, b, y), t) = IF t = y.diff[1] THEN Larger(Larger(i, j), k) ELSE Larger(i, j)
      BY <1>1, <1>2, <1>3, <1>5, UpdateIdxLemma
    <3>3. getMax(y, t) = IF t = y.diff[1] THEN Larger(j, k) ELSE j
      BY <1>1, DiffLemma DEF getMax
    <3> HIDE DEF i, j, k
    <3>4. Larger(Larger(i, j), k) = Larger(i, Larger(j, k))
      BY <3>1 DEF Larger
    <3> QED BY <3>2, <3>3, <3>4 DEF i
  <2> QED BY <1>1, <1>2, <1>3, <1>5, <2>1, UpdateIdxLemma
<1> QED BY <1>4, <1>5

(* The diff that stands for the diffs of two views with the same base. *)
LEMMA JoinLemma ==
    ASSUME TypeOK, NEW x \in ViewRecords, NEW y \in ViewRecords,
           x.base = y.base \/ y.base = Null,
           ~(x.base = Null /\ x.diff = InitEvent),
           NEW d \in JoinedDiffs(x, y)
    PROVE  /\ d \in Events
           /\ \A t \in Threads : MaxWithDiff(Content(x.base), d, t) = Larger(getMax(x, t), getMax(y, t))
<1>1. /\ x.diff \in Events /\ y.diff \in Events
      /\ Content(x.base) \in Vectors /\ Content(y.base) \in Vectors
  BY ViewLemma
<1>2. /\ x.diff[1] \in Threads /\ x.diff[2] \in Indices
      /\ y.diff[1] \in Threads /\ y.diff[2] \in Indices
      /\ x.diff = <<x.diff[1], x.diff[2]>>
  BY <1>1, EventType
<1>3. d \in Events
  <2>1. d \in {x.diff, y.diff, InitEvent, <<x.diff[1], Larger(x.diff[2], y.diff[2])>>}
    BY DEF JoinedDiffs
  <2>2. <<x.diff[1], Larger(x.diff[2], y.diff[2])>> \in Events
    BY <1>2, LargerLemma DEF Events
  <2> QED BY <2>1, <2>2, <1>1, InitEventLemma
<1>4. ASSUME NEW t \in Threads
      PROVE  MaxWithDiff(Content(x.base), d, t) = Larger(getMax(x, t), getMax(y, t))
  <2> DEFINE i == BaseGetMax(Content(x.base), t)
             j == BaseGetMax(Content(y.base), t)
  <2>1. i \in Nat /\ j \in Nat /\ x.diff[2] \in Nat /\ y.diff[2] \in Nat
    BY <1>1, <1>2, VectorLen, ViewAssumption
  <2>2. j <= i
    <3>1. CASE x.base = y.base
      BY <3>1, <2>1
    <3>2. CASE y.base = Null
      <4>1. j = 0
        BY <3>2, ViewAssumption DEF Content, BaseGetMax, Threads
      <4> HIDE DEF i, j
      <4> QED BY <4>1, <2>1
    <3> QED BY <3>1, <3>2
  <2>3. /\ getMax(x, t) = IF t = x.diff[1] THEN Larger(i, x.diff[2]) ELSE i
        /\ x.diff = InitEvent => getMax(x, t) = i
    BY <1>1, DiffLemma DEF getMax
  <2>4. /\ getMax(y, t) = IF t = y.diff[1] THEN Larger(j, y.diff[2]) ELSE j
        /\ y.diff = InitEvent => getMax(y, t) = j
    BY <1>1, DiffLemma DEF getMax
  <2>5. /\ MaxWithDiff(Content(x.base), d, t) = IF t = d[1] THEN Larger(i, d[2]) ELSE i
        /\ d = InitEvent => MaxWithDiff(Content(x.base), d, t) = i
    BY <1>1, <1>3, DiffLemma
  <2>6. CASE x.diff = InitEvent
    <3>1. d = IF x.base # Null /\ ~BaseContainsEvent(Content(x.base), y.diff) THEN y.diff ELSE x.diff
      BY <2>6 DEF JoinedDiffs
    <3>2. x.base # Null
      BY <2>6
    <3>3. CASE BaseContainsEvent(Content(x.base), y.diff)
      <4>1. d = InitEvent
        BY <2>6, <3>1, <3>3
      <4>2. t = y.diff[1] => y.diff[2] <= i
        BY <3>3 DEF BaseContainsEvent
      <4> HIDE DEF i, j
      <4> QED BY <2>1, <2>2, <2>3, <2>4, <2>5, <2>6, <4>1, <4>2 DEF Larger
    <3>4. CASE ~BaseContainsEvent(Content(x.base), y.diff)
      <4>1. d = y.diff
        BY <3>1, <3>2, <3>4
      <4> HIDE DEF i, j
      <4> QED BY <2>1, <2>2, <2>3, <2>4, <2>5, <2>6, <4>1 DEF Larger
    <3> QED BY <3>3, <3>4
  <2>7. CASE x.diff # InitEvent /\ y.diff = InitEvent
    <3>1. d = IF x.base # Null /\ BaseContainsEvent(Content(x.base), x.diff) THEN InitEvent ELSE x.diff
      BY <2>7 DEF JoinedDiffs
    <3>2. CASE BaseContainsEvent(Content(x.base), x.diff) /\ d = InitEvent
      <4>1. t = x.diff[1] => x.diff[2] <= i
        BY <3>2 DEF BaseContainsEvent
      <4> HIDE DEF i, j
      <4> QED BY <2>1, <2>2, <2>3, <2>4, <2>5, <2>7, <3>2, <4>1 DEF Larger
    <3>3. CASE d = x.diff
      <4> HIDE DEF i, j
      <4> QED BY <2>1, <2>2, <2>3, <2>4, <2>5, <2>7, <3>3 DEF Larger
    <3> QED BY <3>1, <3>2, <3>3
  <2>8. CASE x.diff # InitEvent /\ y.diff # InitEvent
    <3>1. x.diff[1] = y.diff[1] /\ d = <<x.diff[1], Larger(x.diff[2], y.diff[2])>>
      BY <2>8 DEF JoinedDiffs
    <3>2. d[1] = x.diff[1] /\ d[2] = Larger(x.diff[2], y.diff[2])
      BY <3>1
    <3> HIDE DEF i, j
    <3> QED BY <2>1, <2>2, <2>3, <2>4, <2>5, <3>1, <3>2 DEF Larger
  <2> QED BY <2>6, <2>7, <2>8
<1> QED BY <1>3, <1>4

(* update() joins the other view's clock. *)
LEMMA UpdateStep ==
    ASSUME TypeOK, NEW v \in Views, NEW w \in Views, w[2] = v[2], Update(v, w)
    PROVE  Becomes(v, [t \in Threads |-> Larger(Clock[v][t], Clock[w][t])])
<1> DEFINE x == view[v]
           y == view[w]
           z == IF Compatible(x, y) /\ x.base = Null THEN [x EXCEPT !.base = y.base] ELSE x
           joined == IF Compatible(x, y) THEN JoinedDiffs(z, y) ELSE {}
           c == [t \in Threads |-> Larger(Clock[v][t], Clock[w][t])]
<1>1. x \in ViewRecords /\ y \in ViewRecords
  BY ViewOf
<1>2. c = [t \in Threads |-> Larger(getMax(x, t), getMax(y, t))]
  <2>1. \A t \in Threads : Clock[v][t] = getMax(x, t) /\ Clock[w][t] = getMax(y, t)
    BY DEF Clock
  <2> QED BY <2>1
<1>3. /\ x.base \in Bases \cup {Null} /\ x.diff \in Events /\ Content(x.base) \in Vectors
      /\ x.base # Null => x.base \in Bases /\ Content(x.base) = vec[x.base]
      /\ BasesTrimmed => Trimmed(Content(x.base))
  BY <1>1, ViewLemma
<1>4. z \in ViewRecords /\ z.diff = x.diff /\ (z.base = x.base \/ (x.base = Null /\ z.base = y.base))
  BY <1>1 DEF ViewRecords
<1>5. /\ z.base \in Bases \cup {Null} /\ z.diff \in Events /\ Content(z.base) \in Vectors
      /\ BasesTrimmed => Trimmed(Content(z.base))
      /\ z.base = Null => Content(z.base) = <<>>
  BY <1>4, ViewLemma DEF Content
<1>near. /\ NearBase(v, x.base) /\ NearBase(v, y.base) /\ NearBase(v, z.base)
         /\ \A b \in Unused : NearBase(v, b)
  BY DEF NearBase
<1>6. ASSUME NEW t \in Threads
      PROVE  /\ getMax(x, t) \in Nat /\ getMax(y, t) \in Nat /\ getMax(z, t) \in Nat
             /\ Larger(getMax(z, t), getMax(y, t)) = Larger(getMax(x, t), getMax(y, t))
  <2>1. getMax(x, t) \in Nat /\ getMax(y, t) \in Nat /\ getMax(z, t) \in Nat
    BY <1>1, <1>4, ViewLemma, ViewAssumption
  <2>2. CASE z.base = x.base
    <3>1. getMax(z, t) = getMax(x, t)
      BY <2>2, <1>4 DEF getMax
    <3> QED BY <2>1, <3>1
  <2>3. CASE x.base = Null /\ z.base = y.base
    <3> DEFINE i == BaseGetMax(Content(y.base), t)
    <3>1. Content(y.base) \in Vectors /\ y.diff \in Events
      BY <1>1, ViewLemma
    <3>2. i \in Nat /\ x.diff[2] \in Nat /\ y.diff[2] \in Nat
      BY <3>1, <1>3, VectorLen, EventType, ViewAssumption
    <3>3. getMax(z, t) = IF t = x.diff[1] THEN Larger(i, x.diff[2]) ELSE i
      BY <2>3, <1>4, <3>1, <1>3, DiffLemma DEF getMax
    <3>4. getMax(y, t) = IF t = y.diff[1] THEN Larger(i, y.diff[2]) ELSE i
      BY <3>1, DiffLemma DEF getMax
    <3>5. BaseGetMax(Content(x.base), t) = 0
      BY <2>3, ViewAssumption DEF Content, BaseGetMax, Threads
    <3>6. getMax(x, t) = IF t = x.diff[1] THEN Larger(0, x.diff[2]) ELSE 0
      BY <1>3, <3>5, DiffLemma DEF getMax
    <3> HIDE DEF i, x, y, z
    <3>7. Larger(getMax(z, t), getMax(y, t)) = Larger(getMax(x, t), getMax(y, t))
      BY <3>2, <3>3, <3>4, <3>6 DEF Larger
    <3> QED BY <2>1, <3>7
  <2> QED BY <2>2, <2>3, <1>4
<1>7. CASE SoleOwner(v) /\ Become(v, x.base, Merged(vec[x.base], x.base, y), x.diff)
  <2> DEFINE s == Merged(vec[x.base], x.base, y)
  <2>1. x.base # Null /\ \A u \in Views \ {v} : view[u].base # x.base
    BY <1>7 DEF SoleOwner
  <2>2. vec[x.base] = Content(x.base)
    BY <2>1, <1>3
  <2>3. /\ s \in Vectors /\ (BasesTrimmed => Trimmed(s))
        /\ \A t \in Threads : BaseGetMax(s, t) = Larger(BaseGetMax(Content(x.base), t), getMax(y, t))
    BY <2>2, <1>1, <1>3, MergedLemma
  <2>4. ASSUME NEW t \in Threads PROVE Larger(getMax(x, t), getMax(y, t)) = MaxWithDiff(s, x.diff, t)
    <3> DEFINE i == BaseGetMax(Content(x.base), t)
               j == getMax(y, t)
    <3>1. i \in Nat /\ x.diff[2] \in Nat /\ j \in Nat
      BY <1>3, <1>6, VectorLen, EventType, ViewAssumption
    <3>2. MaxWithDiff(s, x.diff, t) = IF t = x.diff[1] THEN Larger(Larger(i, j), x.diff[2]) ELSE Larger(i, j)
      BY <2>3, <1>3, DiffLemma
    <3>3. getMax(x, t) = IF t = x.diff[1] THEN Larger(i, x.diff[2]) ELSE i
      BY <1>3, DiffLemma DEF getMax
    <3> HIDE DEF i, j, x, s
    <3>4. Larger(Larger(i, j), x.diff[2]) = Larger(Larger(i, x.diff[2]), j)
      BY <3>1 DEF Larger
    <3> QED BY <3>2, <3>3, <3>4 DEF j
  <2>5. c = [t \in Threads |-> MaxWithDiff(s, x.diff, t)]
    BY <2>4, <1>2
  <2> HIDE DEF s, c
  <2>6. Become(v, x.base, s, x.diff)
    BY <1>7 DEF s
  <2>7. Becomes(v, c)
    BY <2>1, <2>3, <2>5, <2>6, <1>3, <1>near, BecomesIntro
  <2> QED BY <2>7 DEF c
<1>8. CASE x.base = Null /\ x.diff = InitEvent /\ Become(v, y.base, Content(y.base), y.diff)
  <2>1. ASSUME NEW t \in Threads
        PROVE  Larger(getMax(x, t), getMax(y, t)) = MaxWithDiff(Content(y.base), y.diff, t)
    <3>1. getMax(x, t) = 0
      BY <1>8, <1>3, DiffLemma, ViewAssumption DEF getMax, Content, BaseGetMax, Threads
    <3>2. Larger(0, getMax(y, t)) = getMax(y, t)
      BY <1>6 DEF Larger
    <3> QED BY <3>1, <3>2 DEF getMax
  <2>2. c = [t \in Threads |-> MaxWithDiff(Content(y.base), y.diff, t)]
    BY <2>1, <1>2
  <2>3. y.base \in Bases \cup {Null} /\ y.diff \in Events
    BY <1>1, ViewLemma
  <2> HIDE DEF c, y
  <2>4. Becomes(v, c)
    BY <1>8, <2>2, <2>3, <1>near, SharedIntro
  <2> QED BY <2>4 DEF c
<1>9. CASE ~(x.base = Null /\ x.diff = InitEvent) /\ \E d \in joined : Become(v, z.base, Content(z.base), d)
  <2>1. PICK d \in joined : Become(v, z.base, Content(z.base), d)
    BY <1>9
  <2>2. Compatible(x, y) /\ d \in JoinedDiffs(z, y)
    BY <2>1
  <2>3. z.base = y.base \/ y.base = Null
    BY <2>2 DEF Compatible
  <2>4. ~(z.base = Null /\ z.diff = InitEvent)
    BY <1>9, <1>4, <2>2 DEF Compatible
  <2> HIDE DEF z, c, joined
  <2>5. /\ d \in Events
        /\ \A t \in Threads : MaxWithDiff(Content(z.base), d, t) = Larger(getMax(z, t), getMax(y, t))
    BY <1>1, <1>4, <2>2, <2>3, <2>4, JoinLemma
  <2>6. c = [t \in Threads |-> MaxWithDiff(Content(z.base), d, t)]
    BY <2>5, <1>2, <1>6
  <2>7. Becomes(v, c)
    BY <2>1, <2>5, <2>6, <1>5, <1>near, SharedIntro
  <2> QED BY <2>7 DEF c
<1>10. CASE contains(z, y) /\ Become(v, z.base, Content(z.base), z.diff)
  <2> HIDE DEF z, c, x, y
  <2>1. ASSUME NEW t \in Threads
        PROVE  Larger(getMax(x, t), getMax(y, t)) = MaxWithDiff(Content(z.base), z.diff, t)
    <3>1. getMax(y, t) <= getMax(z, t)
      BY <1>1, <1>4, <1>10, ContainsLemma
    <3>2. Larger(getMax(z, t), getMax(y, t)) = getMax(z, t)
      BY <1>6, <3>1 DEF Larger
    <3> QED BY <3>2, <1>6 DEF getMax
  <2>2. c = [t \in Threads |-> MaxWithDiff(Content(z.base), z.diff, t)]
    BY <2>1, <1>2
  <2>3. Becomes(v, c)
    BY <1>10, <2>2, <1>5, <1>near, SharedIntro
  <2> QED BY <2>3 DEF c
<1>11. CASE \E b \in Unused : Become(v, b, Merged(hydrate(z), b, y), InitEvent)
  <2>1. PICK b \in Unused : Become(v, b, Merged(hydrate(z), b, y), InitEvent)
    BY <1>11
  <2>2. b \in Bases /\ b # Null /\ \A u \in Views : view[u].base # b
    BY ViewAssumption DEF Unused
  <2>3. y.base # b
    BY <2>2
  <2> HIDE DEF z, c, x, y
  <2> DEFINE s == Merged(hydrate(z), b, y)
  <2>4. hydrate(z) \in Vectors /\ (BasesTrimmed => Trimmed(hydrate(z)))
    BY <1>4, HydrateLemma
  <2>5. /\ s \in Vectors /\ (BasesTrimmed => Trimmed(s))
        /\ \A t \in Threads : BaseGetMax(s, t) = Larger(BaseGetMax(hydrate(z), t), getMax(y, t))
    BY <2>3, <2>4, <1>1, MergedLemma
  <2> HIDE DEF s
  <2>6. ASSUME NEW t \in Threads
        PROVE  Larger(getMax(x, t), getMax(y, t)) = MaxWithDiff(s, InitEvent, t)
    <3>1. MaxWithDiff(s, InitEvent, t) = BaseGetMax(s, t)
      BY <2>5, InitEventLemma, DiffLemma
    <3>2. BaseGetMax(hydrate(z), t) = getMax(z, t)
      BY <1>4, HydrateLemma
    <3> QED BY <3>1, <3>2, <2>5, <1>6
  <2>7. c = [t \in Threads |-> MaxWithDiff(s, InitEvent, t)]
    BY <2>6, <1>2
  <2>8. Becomes(v, c)
    BY <2>1, <2>2, <2>5, <2>7, <1>near, InitEventLemma, BecomesIntro DEF s
  <2> QED BY <2>8 DEF c
<1> QED BY <1>7, <1>8, <1>9, <1>10, <1>11 DEF Update, c

(* The view that was moved is left with a clock of its own. *)
LEMMA MoveLemma ==
    ASSUME TypeOK, NEW v \in Views, NEW w \in Views \ {v}, w[2] = v[2], Move(v, w)
    PROVE  /\ TypeOK'
           /\ BasesTrimmed => BasesTrimmed'
           /\ Clock' = [Clock EXCEPT ![v] = Clock[w], ![w] = Clock'[w]]
           /\ Clock'[w] \in [Threads -> Indices]
           /\ OwnedByOneThread => OwnedByOneThread'
<1>1. view' \in [Views -> ViewRecords]
  BY DEF Move, TypeOK, ViewRecords
<1>2. vec' \in [Bases -> Vectors]
  BY InitEventLemma DEF Move, TypeOK
<1>3. TypeOK'
  BY <1>1, <1>2 DEF TypeOK, ViewRecords
<1>4. ASSUME BasesTrimmed PROVE BasesTrimmed'
  <2> SUFFICES ASSUME NEW a \in Bases PROVE Trimmed(vec'[a])
    BY DEF BasesTrimmed, Trimmed
  <2>1. vec'[a] = vec[a] \/ vec'[a] = <<>>
    BY DEF Move
  <2>2. Trimmed(vec[a]) /\ Trimmed(<<>>)
    BY <1>4 DEF BasesTrimmed, Trimmed
  <2> QED BY <2>1, <2>2
<1>5. view'[v] = view[w] /\ view[w].base \in Bases \cup {Null}
  BY DEF Move, TypeOK
<1>6. Clock'[v] = Clock[w]
  <2>1. view[w].base # Null => vec'[view[w].base] = vec[view[w].base]
    BY <1>5 DEF Move
  <2>2. Content(view[v].base)' = Content(view[w].base)
    BY <1>5, <2>1 DEF Content
  <2> QED BY <1>5, <2>2 DEF Clock, getMax, Content
<1>7. ASSUME NEW u \in Views \ {v, w} PROVE Clock'[u] = Clock[u]
  <2>1. view'[u] = view[u] /\ view[u].base \in Bases \cup {Null}
    BY DEF Move, TypeOK
  <2>2. view[u].base # Null => vec'[view[u].base] = vec[view[u].base]
    BY <2>1 DEF Move
  <2>3. Content(view[u].base)' = Content(view[u].base)
    BY <2>1, <2>2 DEF Content
  <2> QED BY <2>1, <2>3 DEF Clock, getMax, Content
<1>8. Clock' = [Clock EXCEPT ![v] = Clock[w], ![w] = Clock'[w]]
  BY <1>6, <1>7 DEF Clock
<1>9. Clock'[w] \in [Threads -> Indices]
  <2>1. view'[w].base = Null /\ view'[w].diff \in Events
    BY DEF Move, TypeOK
  <2>2. Content(view[w].base)' = <<>>
    BY <2>1 DEF Content
  <2>3. \A t \in Threads : MaxWithDiff(<<>>, view'[w].diff, t) \in Indices
    BY <2>1, InitEventLemma, DiffLemma
  <2>4. Clock'[w] = [t \in Threads |-> MaxWithDiff(<<>>, view'[w].diff, t)]
    BY <2>2 DEF Clock, getMax, Content
  <2> QED BY <2>3, <2>4
<1>10. ASSUME OwnedByOneThread PROVE OwnedByOneThread'
  <2>1. ASSUME NEW u \in Views, view'[u].base # Null
        PROVE  \E o \in Views : o[2] = u[2] /\ view'[u].base = view[o].base
    <3>1. view'[w].base = Null /\ (u # v /\ u # w => view'[u] = view[u])
      BY DEF Move, TypeOK
    <3> QED BY <3>1, <2>1, <1>5
  <2> QED BY <1>10, <2>1 DEF OwnedByOneThread
<1> QED BY <1>3, <1>4, <1>8, <1>9, <1>10

(* A clone has the clocks of the graph, and shares no base with it unless   *)
(* it has DepViews.                                                         *)
LEMMA CloneLemma ==
    ASSUME TypeOK, NEW d \in Drivers, NEW c \in Drivers \ {d}, Clone(d, c)
    PROVE  /\ TypeOK'
           /\ BasesTrimmed => BasesTrimmed'
           /\ Clock' = [v \in Views |-> IF v[2] = c THEN Clock[<<v[1], d>>] ELSE Clock[v]]
           /\ DepLabels = {} /\ OwnedByOneThread => OwnedByOneThread'
<1>1. PICK viewMap \in ViewMaps(d, c) :
        /\ view' = [v \in Views |-> IF v[2] = c THEN fixView(v[1], view[<<v[1], d>>], viewMap) ELSE view[v]]
        /\ vec' = [b \in Bases |-> IF \E a \in PlainBases(d) : viewMap[a] = b
                                   THEN vec[CHOOSE a \in PlainBases(d) : viewMap[a] = b]
                                   ELSE IF b \in Available(c) THEN <<>> ELSE vec[b]]
  BY DEF Clone
<1>2. /\ viewMap \in [PlainBases(d) -> Available(c)]
      /\ \A a, b \in PlainBases(d) : viewMap[a] = viewMap[b] => a = b
  BY DEF ViewMaps, Injection, IsInjective
<1>3. Available(c) \subseteq Bases /\ PlainBases(d) \subseteq Bases
  <2>1. \A l \in Labels : <<l, d>> \in Views
    BY DEF Views
  <2> QED BY <2>1 DEF Available, PlainBases, TypeOK
<1>4. ASSUME NEW v \in Views
      PROVE  /\ v[1] \in Labels /\ v = <<v[1], v[2]>> /\ <<v[1], d>> \in Views
             /\ view[<<v[1], d>>] \in ViewRecords
             /\ v[2] = c => view'[v] = fixView(v[1], view[<<v[1], d>>], viewMap)
             /\ v[2] # c => view'[v] = view[v] /\ ~(view[v].base \in Available(c))
  <2>1. v[1] \in Labels /\ v = <<v[1], v[2]>> /\ <<v[1], d>> \in Views
    BY DEF Views
  <2>2. view[<<v[1], d>>] \in ViewRecords
    BY <2>1, ViewOf
  <2>3. v[2] # c => ~(view[v].base \in Available(c))
    BY DEF Available
  <2> QED BY <1>1, <2>1, <2>2, <2>3
<1>5. ASSUME NEW v \in Views, v[2] = c, view[<<v[1], d>>].base # Null, v[1] \notin DepLabels
      PROVE  LET a == view[<<v[1], d>>].base IN
             /\ a \in PlainBases(d)
             /\ view'[v] = [view[<<v[1], d>>] EXCEPT !.base = viewMap[a]]
             /\ view'[v].base = viewMap[a] /\ view'[v].diff = view[<<v[1], d>>].diff
             /\ viewMap[a] \in Available(c) /\ vec'[viewMap[a]] = vec[a]
  <2> DEFINE a == view[<<v[1], d>>].base
  <2>1. a \in PlainBases(d)
    BY <1>4, <1>5 DEF PlainBases
  <2>2. view'[v] = [view[<<v[1], d>>] EXCEPT !.base = viewMap[a]]
    BY <1>4, <1>5 DEF fixView
  <2>3. view'[v].base = viewMap[a] /\ view'[v].diff = view[<<v[1], d>>].diff
    BY <2>2, <1>4 DEF ViewRecords
  <2> HIDE DEF a
  <2>4. viewMap[a] \in Available(c) /\ viewMap[a] \in Bases
    BY <1>2, <1>3, <2>1
  <2>5. (CHOOSE o \in PlainBases(d) : viewMap[o] = viewMap[a]) = a
    BY <1>2, <2>1
  <2>6. vec'[viewMap[a]] = vec[a]
    BY <1>1, <2>1, <2>4, <2>5
  <2> QED BY <2>1, <2>2, <2>3, <2>4, <2>6 DEF a
<1>6. ASSUME NEW b \in Bases, ~(b \in Available(c)) PROVE vec'[b] = vec[b]
  BY <1>1, <1>2, <1>6
<1>7. ASSUME NEW v \in Views, v[2] = c, view[<<v[1], d>>].base = Null \/ v[1] \in DepLabels
      PROVE  view'[v] = view[<<v[1], d>>] /\ ~(view'[v].base \in Available(c))
  <2>1. view'[v] = view[<<v[1], d>>]
    BY <1>4, <1>7 DEF fixView
  <2>2. ~(view[<<v[1], d>>].base \in Available(c))
    BY <1>4 DEF Available
  <2> QED BY <2>1, <2>2
<1>8. view' \in [Views -> ViewRecords]
  <2>1. ASSUME NEW v \in Views PROVE view'[v] \in ViewRecords
    <3>1. CASE v[2] # c
      BY <3>1, <1>4, ViewOf
    <3>2. CASE v[2] = c /\ (view[<<v[1], d>>].base = Null \/ v[1] \in DepLabels)
      BY <3>2, <1>4, <1>7
    <3>3. CASE v[2] = c /\ view[<<v[1], d>>].base # Null /\ v[1] \notin DepLabels
      BY <3>3, <1>3, <1>4, <1>5 DEF ViewRecords
    <3> QED BY <3>1, <3>2, <3>3
  <2> QED BY <2>1, <1>1
<1>9. ASSUME NEW b \in Bases PROVE vec'[b] = <<>> \/ \E a \in Bases : vec'[b] = vec[a]
  BY <1>1, <1>3
<1>10. TypeOK'
  <2>1. \A b \in Bases : vec'[b] \in Vectors
    BY <1>9, InitEventLemma DEF TypeOK
  <2>2. vec' = [b \in Bases |-> vec'[b]]
    BY <1>1
  <2>3. vec' \in [Bases -> Vectors]
    BY <2>1, <2>2, Zenon
  <2> QED BY <1>8, <2>3 DEF TypeOK, ViewRecords
<1>11. ASSUME BasesTrimmed PROVE BasesTrimmed'
  <2> SUFFICES ASSUME NEW b \in Bases PROVE Trimmed(vec'[b])
    BY DEF BasesTrimmed, Trimmed
  <2>1. Trimmed(<<>>) /\ \A a \in Bases : Trimmed(vec[a])
    BY <1>11 DEF BasesTrimmed, Trimmed
  <2> QED BY <2>1, <1>9
<1>12. ASSUME NEW v \in Views, v[2] = c PROVE Clock'[v] = Clock[<<v[1], d>>]
  <2> DEFINE x == view[<<v[1], d>>]
  <2>1. Content(view[v].base)' = Content(x.base) /\ view'[v].diff = x.diff
    <3>1. CASE x.base = Null \/ v[1] \in DepLabels
      BY <3>1, <1>4, <1>6, <1>7, <1>12 DEF Content, ViewRecords
    <3>2. CASE x.base # Null /\ v[1] \notin DepLabels
      <4>1. view'[v].base \in Bases /\ vec'[view'[v].base] = vec[x.base] /\ view'[v].diff = x.diff
        BY <3>2, <1>3, <1>5, <1>12
      <4> QED BY <3>2, <4>1, ViewAssumption DEF Content
    <3> QED BY <3>1, <3>2
  <2>2. Clock[<<v[1], d>>] = [t \in Threads |-> MaxWithDiff(Content(x.base), x.diff, t)]
    BY <1>4, ViewOf DEF getMax
  <2>3. Clock'[v] = [t \in Threads |-> MaxWithDiff(Content(view[v].base)', view'[v].diff, t)]
    BY DEF Clock, getMax, Content
  <2> QED BY <2>1, <2>2, <2>3
<1>13. ASSUME NEW v \in Views, v[2] # c PROVE Clock'[v] = Clock[v]
  <2>1. view'[v] = view[v] /\ view[v].base \in Bases \cup {Null}
    BY <1>4, <1>13 DEF TypeOK
  <2>2. view[v].base # Null => vec'[view[v].base] = vec[view[v].base]
    BY <2>1, <1>4, <1>6, <1>13
  <2>3. Content(view[v].base)' = Content(view[v].base)
    BY <2>1, <2>2 DEF Content
  <2> QED BY <2>1, <2>3 DEF Clock, getMax, Content
<1>14. Clock' = [v \in Views |-> IF v[2] = c THEN Clock[<<v[1], d>>] ELSE Clock[v]]
  BY <1>12, <1>13 DEF Clock
<1>15. ASSUME DepLabels = {}, OwnedByOneThread PROVE OwnedByOneThread'
  <2>1. ASSUME NEW v \in Views, v[2] = c, view'[v].base # Null PROVE view'[v].base \in Available(c)
    <3>1. view[<<v[1], d>>].base # Null
      BY <1>7, <2>1
    <3> QED BY <3>1, <1>5, <1>15, <2>1
  <2> SUFFICES ASSUME NEW v \in Views, NEW w \in Views, view'[v].base # Null, view'[w].base = view'[v].base
               PROVE  w[2] = v[2]
    BY DEF OwnedByOneThread
  <2>2. CASE v[2] = c /\ w[2] = c
    BY <2>2
  <2>3. CASE v[2] # c /\ w[2] # c
    BY <2>3, <1>4, <1>15 DEF OwnedByOneThread
  <2>4. CASE v[2] = c /\ w[2] # c
    <3>1. view'[v].base \in Available(c)
      BY <2>1, <2>4
    <3>2. ~(view'[w].base \in Available(c))
      BY <2>4, <1>4
    <3> QED BY <3>1, <3>2
  <2>5. CASE v[2] # c /\ w[2] = c
    <3>1. view'[w].base \in Available(c)
      BY <2>1, <2>5
    <3>2. ~(view'[v].base \in Available(c))
      BY <2>5, <1>4
    <3> QED BY <3>1, <3>2
  <2> QED BY <2>2, <2>3, <2>4, <2>5
<1> QED BY <1>10, <1>11, <1>14, <1>15

(***************************************************************************)
(* Every step of a view is a step of its contract.                         *)
(***************************************************************************)
LEMMA InitLemma == Init => TypeOK /\ BasesTrimmed /\ Contract!Init
<1> SUFFICES ASSUME Init PROVE TypeOK /\ BasesTrimmed /\ Contract!Init
  OBVIOUS
<1>1. TypeOK
  BY InitEventLemma DEF Init, TypeOK
<1>2. BasesTrimmed
  BY DEF Init, BasesTrimmed, Trimmed
<1>3. ASSUME NEW v \in Views, NEW t \in Threads PROVE getMax(view[v], t) = 0
  <2>1. view[v].base = Null /\ view[v].diff = InitEvent
    BY DEF Init
  <2>2. BaseGetMax(<<>>, t) = 0
    BY ViewAssumption DEF BaseGetMax, Threads
  <2> QED BY <2>1, <2>2 DEF getMax, MaxWithDiff, Content
<1>4. Contract!Init
  BY <1>3 DEF Contract!Init, Contract!Views, Views, Clock
<1> QED BY <1>1, <1>2, <1>4

(* Every step keeps the types and bases trimmed, and is one of the contract. *)
LEMMA NextLemma ==
    ASSUME TypeOK, [Next]_vars
    PROVE  /\ TypeOK'
           /\ BasesTrimmed => BasesTrimmed'
           /\ [Contract!Next]_Clock
           /\ DepLabels = {} /\ OwnedByOneThread => OwnedByOneThread'
<1>1. CASE UNCHANGED vars
  <2>1. TypeOK' /\ (BasesTrimmed => BasesTrimmed') /\ (OwnedByOneThread => OwnedByOneThread')
    BY <1>1 DEF vars, TypeOK, BasesTrimmed, OwnedByOneThread
  <2>2. Clock' = Clock
    BY <1>1 DEF vars, Clock, getMax, Content
  <2> QED BY <2>1, <2>2
<1> DEFINE Kept == /\ TypeOK'
                   /\ BasesTrimmed => BasesTrimmed'
                   /\ DepLabels = {} /\ OwnedByOneThread => OwnedByOneThread'
<1>2. ASSUME NEW v \in Views, NEW c, Becomes(v, c)
      PROVE  Kept /\ Contract!Set(v, c)
  <2>1. /\ Kept /\ Clock' = [Clock EXCEPT ![v] = c]
    BY <1>2, BecomesLemma
  <2>2. Clock'[v] = c /\ \A w \in Views \ {v} : Clock'[w] = Clock[w]
    BY <2>1 DEF Clock
  <2> QED BY <2>1, <2>2 DEF Contract!Set, Contract!Others, Contract!Views, Views
<1> HIDE DEF Kept
<1>3. ASSUME NEW v \in Views, Clear(v) PROVE Kept /\ Contract!Clear(v)
  BY <1>2, <1>3, ClearLemma DEF Contract!Clear
<1>4. ASSUME NEW v \in Views, NEW w \in Kin(v) \ {v}, Copy(v, w) PROVE Kept /\ Contract!Copy(v, w)
  BY <1>2, <1>4, CopyLemma DEF Contract!Copy, Kin
<1>5. ASSUME NEW v \in Views, NEW w \in Kin(v) \ {v}, Move(v, w) PROVE Kept /\ Contract!Move(v, w)
  <2>1. /\ Kept /\ Clock'[w] \in [Threads -> Indices]
        /\ Clock' = [Clock EXCEPT ![v] = Clock[w], ![w] = Clock'[w]]
    BY <1>5, MoveLemma DEF Kept, Kin
  <2>2. Clock'[v] = Clock[w] /\ \A u \in Views \ {v, w} : Clock'[u] = Clock[u]
    BY <2>1 DEF Clock, Kin
  <2> QED BY <2>1, <2>2 DEF Contract!Move, Contract!Others, Contract!Views, Views
<1>6. ASSUME NEW v \in Views, NEW w \in Kin(v), Update(v, w) PROVE Kept /\ Contract!Update(v, w)
  <2>1. Becomes(v, [t \in Threads |-> Larger(Clock[v][t], Clock[w][t])])
    BY <1>6, UpdateStep DEF Kin
  <2>2. Kept /\ Contract!Set(v, [t \in Threads |-> Larger(Clock[v][t], Clock[w][t])])
    BY <1>2, <2>1
  <2> QED BY <2>2 DEF Contract!Update, Contract!Larger, Larger
<1>7. ASSUME NEW v \in Views, NEW e \in Events, UpdateIdx(v, e)
      PROVE  UNCHANGED vars \/ (Kept /\ Contract!UpdateIdx(v, e))
  <2>1. UNCHANGED vars \/ Becomes(v, [Clock[v] EXCEPT ![e[1]] = Larger(@, e[2])])
    BY <1>7, UpdateIdxStep
  <2>2. UNCHANGED vars \/ (Kept /\ Contract!Set(v, [Clock[v] EXCEPT ![e[1]] = Larger(@, e[2])]))
    BY <1>2, <2>1
  <2> QED BY <2>2 DEF Contract!UpdateIdx, Contract!Larger, Larger
<1>8. ASSUME NEW v \in Views, NEW e \in Events, SetMax(v, e) PROVE Kept /\ Contract!SetMax(v, e)
  BY <1>2, <1>8, SetMaxStep DEF Contract!SetMax
<1>9. ASSUME NEW d \in Drivers, NEW c \in Drivers \ {d}, Clone(d, c) PROVE Kept /\ Contract!Clone(d, c)
  BY <1>9, CloneLemma DEF Kept, Contract!Clone, Contract!Views, Views
<1>10. ASSUME NEW v \in Views, NEW w \in Kin(v) PROVE v \in Contract!Views /\ w \in Contract!Kin(v)
  BY DEF Kin, Contract!Kin, Contract!Views, Views
<1>11. CASE Next
  <2>1. CASE \E v \in Views : Clear(v)
    <3>1. PICK v \in Views : Clear(v)
      BY <2>1
    <3> QED BY <3>1, <1>3 DEF Contract!Next, Contract!Views, Views, Kept
  <2>2. CASE \E v \in Views : \E w \in Kin(v) \ {v} : Copy(v, w)
    <3>1. PICK v \in Views : \E w \in Kin(v) \ {v} : Copy(v, w)
      BY <2>2
    <3>2. PICK w \in Kin(v) \ {v} : Copy(v, w)
      BY <3>1
    <3> QED BY <3>2, <1>4, <1>10 DEF Contract!Next, Kept
  <2>3. CASE \E v \in Views : \E w \in Kin(v) \ {v} : Move(v, w)
    <3>1. PICK v \in Views : \E w \in Kin(v) \ {v} : Move(v, w)
      BY <2>3
    <3>2. PICK w \in Kin(v) \ {v} : Move(v, w)
      BY <3>1
    <3> QED BY <3>2, <1>5, <1>10 DEF Contract!Next, Kept
  <2>4. CASE \E v \in Views : \E w \in Kin(v) : Update(v, w)
    <3>1. PICK v \in Views : \E w \in Kin(v) : Update(v, w)
      BY <2>4
    <3>2. PICK w \in Kin(v) : Update(v, w)
      BY <3>1
    <3> QED BY <3>2, <1>6, <1>10 DEF Contract!Next, Kept
  <2>5. CASE \E v \in Views : \E e \in Events : UpdateIdx(v, e) \/ SetMax(v, e)
    <3>1. PICK v \in Views : \E e \in Events : UpdateIdx(v, e) \/ SetMax(v, e)
      BY <2>5
    <3>2. PICK e \in Events : UpdateIdx(v, e) \/ SetMax(v, e)
      BY <3>1
    <3> QED BY <3>2, <1>1, <1>7, <1>8 DEF Contract!Next, Contract!Views, Views, Events, Kept
  <2>6. CASE \E d \in Drivers : \E c \in Drivers \ {d} : Clone(d, c)
    <3>1. PICK d \in Drivers : \E c \in Drivers \ {d} : Clone(d, c)
      BY <2>6
    <3>2. PICK c \in Drivers \ {d} : Clone(d, c)
      BY <3>1
    <3> QED BY <3>2, <1>9 DEF Contract!Next, Kept
  <2> QED BY <1>11, <2>1, <2>2, <2>3, <2>4, <2>5, <2>6 DEF Next
<1> QED BY <1>1, <1>11

(* The bases and the diffs of views keep their types, whatever is called    *)
(* on which view.                                                          *)
THEOREM TypeCorrect == Spec => []TypeOK
<1>1. Init => TypeOK
  BY InitLemma
<1>2. TypeOK /\ [Next]_vars => TypeOK'
  BY NextLemma
<1> QED BY <1>1, <1>2, PTL DEF Spec

(* No base ends with a zero: ViewBase::setMax() trims what it clears, and   *)
(* ViewBase::update() of trimmed bases is trimmed.                          *)
THEOREM BasesStayTrimmed == Spec => []BasesTrimmed
<1>1. Init => TypeOK /\ BasesTrimmed
  BY InitLemma
<1>2. TypeOK /\ BasesTrimmed /\ [Next]_vars => TypeOK' /\ BasesTrimmed'
  BY NextLemma
<1> QED BY <1>1, <1>2, PTL DEF Spec

(* As long as no DepView is cloned, no two drivers have views with the same *)
(* base, and the reference counts need no protection.                       *)
THEOREM BasesHaveOneOwner == DepLabels = {} => (Spec => []OwnedByOneThread)
<1> SUFFICES ASSUME DepLabels = {} PROVE Spec => []OwnedByOneThread
  OBVIOUS
<1>1. Init => TypeOK /\ OwnedByOneThread
  BY InitLemma DEF Init, OwnedByOneThread
<1>2. TypeOK /\ OwnedByOneThread /\ [Next]_vars => TypeOK' /\ OwnedByOneThread'
  BY NextLemma
<1> QED BY <1>1, <1>2, PTL DEF Spec

(* View::contains() is right whenever it says yes. *)
THEOREM ContainsIsSound == Spec => []ContainsSound
<1>1. TypeOK => ContainsSound
  BY ViewOf, ContainsLemma DEF ContainsSound
<1> QED BY <1>1, TypeCorrect, PTL

(* Views that share a base behave as clocks that share nothing.             *)
THEOREM ViewsImplementContract == Spec => ImplementsContract
<1>1. Init => Contract!Init
  BY InitLemma
<1>2. TypeOK /\ [Next]_vars => [Contract!Next]_Clock
  BY NextLemma
<1> QED BY <1>1, <1>2, TypeCorrect, PTL DEF Spec, ImplementsContract, Contract!Spec
=============================================================================
