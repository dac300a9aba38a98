----------------------------- MODULE AtomicProofs -----------------------------
(***************************************************************************)
(* The driver keeps RMWs atomic (RMWsAreAtomic) and its internal checks    *)
(* hold (NoInternalError).  A handler that completes an RMW moots the      *)
(* execution if another RMW reads the same store, and pushes only items    *)
(* that resolve the conflict; a store is placed where it parts no RMW from *)
(* the store that it reads; and the conflict is gone when a revisit runs   *)
(* the program again.                                                      *)
(***************************************************************************)
EXTENDS AtomicGraphs

(*********************** The handlers and what is atomic *******************)

(* What preserves the graph and leaves the items keeps an execution without *)
(* conflicts.                                                               *)
LEMMA PreservedCalm ==
  ASSUME NEW x, NEW y, ExecCalm(x), Preserves(x.graph, y.graph), y.workqueue = x.workqueue,
         ItemsOK(x.graph, x.workqueue), ItemsOK(y.graph, y.workqueue)
  PROVE  ExecCalm(y)
<1> DEFINE g == x.graph
           h == y.graph
           q == x.workqueue
<1>1. ItemsOK(g, q) /\ ItemsOK(h, q) /\ ItemsAtomic(g, q)
  BY DEF ExecCalm
<1>2. Paired(g) /\ Adjacent(g) /\ NoConflict(g)
  BY DEF ExecCalm
<1> HIDE DEF g, h, q
<1>3. Preserves(g, h)
  BY DEF g, h
<1>4. Paired(h) /\ Adjacent(h) /\ NoConflict(h) /\ ItemsAtomic(h, q)
  BY <1>1, <1>2, <1>3 DEF Preserves
<1> QED BY <1>4 DEF ExecCalm, h, q

(* So does pushing an item. *)
LEMMA AppendCalm ==
  ASSUME NEW x, NEW y, ExecCalm(x), y.graph = x.graph, IsSeq(x.workqueue),
         NEW item, y.workqueue = Append(x.workqueue, item), ItemAtomic(x.graph, item)
  PROVE  ExecCalm(y)
<1> DEFINE s == x.workqueue
           R == ToSet(s) \cup {item}
<1>1. s \in Seq(R) /\ item \in R
  BY DEF IsSeq
<1> HIDE DEF s, R
<1>2. /\ Len(s) \in Nat /\ DOMAIN s = 1 .. Len(s) /\ DOMAIN Append(s, item) = 1 .. Len(s) + 1
      /\ \A j \in 1 .. Len(s) + 1 : Append(s, item)[j] = IF j <= Len(s) THEN s[j] ELSE item
  BY <1>1
<1>3. ASSUME NEW j \in DOMAIN y.workqueue PROVE ItemAtomic(x.graph, y.workqueue[j])
  <2>1. y.workqueue[j] = item \/ (j \in DOMAIN s /\ y.workqueue[j] = s[j])
    BY <1>2, <1>3 DEF s
  <2> QED BY <2>1 DEF ExecCalm, ItemsAtomic, s
<1> QED BY <1>3 DEF ExecCalm, ItemsAtomic

(* Reports do so. *)
LEMMA ErrorCalm ==
  ASSUME NEW p, NEW d, ContextOK(p, d), NEW e, AtHand(d.x.graph, e), NEW err, err # NoError, ExecCalm(d.x)
  PROVE  ExecCalm(reportError(d, err).x)
<1> DEFINE g == d.x.graph
           item == ReplayItem("ERROR", Newest(g), err)
           c == reportError(d, err)
<1>1. GraphOK(p, g, {}) /\ ExecOK(p, d.x) /\ IsSeq(d.x.workqueue)
  BY DEF ContextOK, ExecOK, ItemsOK
<1>2. item.kind = "ERROR"
  BY DEF ReplayItem, Item
<1>3. c = [Push(d, item) EXCEPT !.moot = TRUE]
  BY DEF reportError
<1>4. c.x.graph = g
  BY ReportErrorOK
<1> HIDE DEF item
<1>5. c.x.workqueue = Append(d.x.workqueue, item)
  <2>1. Push(d, item) = [d EXCEPT !.x = [d.x EXCEPT !.workqueue = Append(d.x.workqueue, item)]]
    BY DEF Push
  <2>2. c.x = [d.x EXCEPT !.workqueue = Append(d.x.workqueue, item)]
    BY <1>3, <2>1 DEF ContextOK
  <2> QED BY <1>1, <2>2 DEF ExecOK
<1> HIDE DEF c
<1>6. ItemAtomic(g, item)
  BY <1>2 DEF ItemAtomic
<1> QED BY <1>1, <1>4, <1>5, <1>6, AppendCalm DEF c

(* A warning marks the write, too. *)
LEMMA WarningCalm ==
  ASSUME NEW p, NEW d, ContextOK(p, d), NEW e, AtHand(d.x.graph, e), d.x.graph.lab[e].typ = "W", ExecCalm(d.x)
  PROVE  ExecCalm(reportWarningOnce(d, e).x)
<1> DEFINE g == d.x.graph
           item == ReplayItem("WARN", e, "WWRace")
           h == [g EXCEPT !.lab[e].wwRacy = TRUE]
           c == reportWarningOnce(d, e)
           rep == IF UpgradeWarning(g, e) THEN reportError(d, "WWRace")
                  ELSE IF ~d.warned THEN Push(d, item) ELSE d
<1>1. /\ GraphOK(p, g, {}) /\ ExecOK(p, d.x) /\ DOMAIN d.x = {"graph", "workqueue"} /\ IsSeq(d.x.workqueue)
      /\ ItemsOK(g, d.x.workqueue)
  BY DEF ContextOK, ExecOK, ItemsOK
<1>2. "WWRace" # NoError
  BY DEF NoError
<1>3. ItemOK(g, item) /\ CutEvent(item) = e /\ Youngest(g, e) /\ item.kind = "WARN"
  BY <1>1, <1>2, ReplayItemOK
<1> HIDE DEF item
<1>4. /\ ExecCalm(rep.x) /\ rep.x.graph = g /\ DOMAIN rep.x = {"graph", "workqueue"}
      /\ ItemsOK(g, rep.x.workqueue) /\ DOMAIN rep = {"x", "st", "moot", "warned", "internal"}
  <2>1. CASE UpgradeWarning(g, e)
    <3>1. rep = reportError(d, "WWRace")
      BY <2>1
    <3>2. ExecCalm(rep.x)
      BY <1>2, <3>1, ErrorCalm
    <3>3. rep.x.graph = g /\ ContextOK(p, rep)
      BY <1>2, <3>1, ReportErrorOK
    <3> QED BY <3>2, <3>3 DEF ContextOK, ExecOK
  <2>2. CASE ~UpgradeWarning(g, e) /\ ~d.warned
    <3> DEFINE q == Append(d.x.workqueue, item)
    <3>1. rep = [d EXCEPT !.x = [d.x EXCEPT !.workqueue = q]]
      BY <2>2 DEF Push
    <3>2. ItemsOK(g, q)
      BY <1>1, <1>3, PushItem
    <3> HIDE DEF rep, q
    <3>3. DOMAIN rep = {"x", "st", "moot", "warned", "internal"} /\ rep.x = [d.x EXCEPT !.workqueue = q]
      BY <3>1 DEF ContextOK
    <3>4. DOMAIN rep.x = {"graph", "workqueue"} /\ rep.x.graph = g /\ rep.x.workqueue = q
      BY <1>1, <3>3
    <3>5. ItemAtomic(g, item)
      BY <1>3 DEF ItemAtomic
    <3>6. ExecCalm(rep.x)
      BY <1>1, <3>4, <3>5, AppendCalm DEF q
    <3> QED BY <3>2, <3>3, <3>4, <3>6
  <2>3. CASE ~UpgradeWarning(g, e) /\ d.warned
    <3>1. rep = d
      BY <2>3
    <3> QED BY <1>1, <3>1 DEF ContextOK
  <2> QED BY <2>1, <2>2, <2>3 DEF ContextOK
<1>5. c = [rep EXCEPT !.warned = TRUE, !.x.graph.lab[e].wwRacy = TRUE]
  BY DEF reportWarningOnce, item
<1> HIDE DEF rep
<1>6. c.x = [rep.x EXCEPT !.graph = h]
  BY <1>4, <1>5
<1>7. e \in Events(g) /\ SameReads(g, h)
  BY <1>1, SetRacy DEF GraphOK, AtHand, IsNewest
<1> HIDE DEF c, h
<1>8. c.x.graph = h /\ c.x.workqueue = rep.x.workqueue
  BY <1>4, <1>6
<1>9. GraphOK(p, h, {}) /\ ItemsOK(h, c.x.workqueue)
  <2>1. Reported(p, d, c)
    BY WarningOK DEF c
  <2> QED BY <1>8, <2>1 DEF Reported, ContextOK, ExecOK
<1>10. Preserves(g, h)
  <2>1. {} \subseteq Reads(g)
    OBVIOUS
  <2> QED BY <1>1, <1>7, <1>9, <2>1, SameReadsPreserves
<1>11. Preserves(rep.x.graph, c.x.graph) /\ ItemsOK(rep.x.graph, rep.x.workqueue) /\ ItemsOK(c.x.graph, c.x.workqueue)
  BY <1>4, <1>8, <1>9, <1>10
<1> QED BY <1>4, <1>8, <1>11, PreservedCalm DEF c

(* So do the checks of an access. *)
LEMMA RacesCalm ==
  ASSUME CheckerOK, NEW p, NEW d, ContextOK(p, d), NEW e, AtHand(d.x.graph, e), ExecCalm(d.x)
  PROVE  ExecCalm(checkForRaces(d, e).x)
<1> DEFINE err == CheckErrors(d.x.graph, d.st, e)
<1>1. CASE ~RaceDetection
  BY <1>1 DEF checkForRaces
<1>2. CASE RaceDetection /\ err # NoError
  <2>1. checkForRaces(d, e) = reportError(d, err)
    BY <1>2 DEF checkForRaces, RaceOrWarning
  <2> HIDE DEF err
  <2> QED BY <1>2, <2>1, ErrorCalm
<1>3. CASE RaceDetection /\ err = NoError
  <2>1. checkForRaces(d, e) = checkForWarnings(d, e)
    BY <1>3 DEF checkForRaces, RaceOrWarning
  <2>2. CASE CheckWarnings(d.x.graph, d.st, e, d.warned) # {}
    <3>1. d.x.graph.lab[e].typ = "W" /\ checkForWarnings(d, e) = reportWarningOnce(d, e)
      BY <2>2 DEF CheckerOK, checkForWarnings
    <3> QED BY <2>1, <3>1, WarningCalm
  <2>3. CASE CheckWarnings(d.x.graph, d.st, e, d.warned) = {}
    BY <2>1, <2>3 DEF checkForWarnings
  <2> QED BY <2>2, <2>3
<1> QED BY <1>1, <1>2, <1>3

(* And those that come before them. *)
LEMMA CheckedCalm ==
  ASSUME CheckerOK, NEW p, NEW d, ContextOK(p, d), NEW e, AtHand(d.x.graph, e), NEW err, ExecCalm(d.x)
  PROVE  ExecCalm(Checked(d, e, err).x)
<1>1. CASE err # NoError
  <2>1. Checked(d, e, err) = reportError(d, err)
    BY <1>1 DEF Checked
  <2> QED BY <1>1, <2>1, ErrorCalm
<1>2. CASE err = NoError
  <2>1. Checked(d, e, err) = checkForRaces(d, e)
    BY <1>2 DEF Checked
  <2> QED BY <2>1, RacesCalm
<1> QED BY <1>1, <1>2

(* Adding a label that completes no RMW does so. *)
LEMMA AddedCalm ==
  ASSUME CheckerOK, NEW p, NEW d, ContextOK(p, d), ExecSettled(d.x),
         NEW l, LabelOK(p, d.x.graph, l), Extends(p, d.x.graph, l), l.pos \notin Events(d.x.graph), l.typ # "B",
         l.revisitable, ExecCalm(d.x), ContextOK(p, SetGraph(d, addLabelToGraph(d.x.graph, l))),
         \A r : ~Completes(d.x.graph, l, r), l.typ = "W" => ~IsRMWOp(l.ins)
  PROVE  ExecCalm(SetGraph(d, addLabelToGraph(d.x.graph, l)).x)
<1> DEFINE g == d.x.graph
           h == addLabelToGraph(g, l)
           c == SetGraph(d, h)
<1>1. GraphOK(p, g, {}) /\ DOMAIN d.x = {"graph", "workqueue"} /\ ItemsOK(g, d.x.workqueue)
  BY DEF ContextOK, ExecOK
<1>2. GraphOK(p, h, {}) /\ Appended(g, h, l)
  BY <1>1, LabelAppends
<1>3. Settles(d.x, c.x)
  BY AddedSettles
<1> HIDE DEF h
<1>4. c.x.graph = h /\ c.x.workqueue = d.x.workqueue
  BY <1>1 DEF SetGraph, ContextOK
<1>5. ItemsOK(h, c.x.workqueue)
  BY <1>4 DEF ContextOK, ExecOK, h
<1> HIDE DEF c
<1>6. Stays(g, h)
  BY <1>3, <1>4 DEF Settles
<1> HIDE DEF g
<1>7. Preserves(g, h)
  <2>1. {} \subseteq Reads(g)
    OBVIOUS
  <2>2. \A r : ~Completes(g, l, r)
    BY DEF g
  <2> QED BY <1>1, <1>2, <1>6, <2>1, <2>2, AppendPreserves
<1>8. Preserves(d.x.graph, c.x.graph) /\ ItemsOK(d.x.graph, d.x.workqueue) /\ ItemsOK(c.x.graph, c.x.workqueue)
  BY <1>1, <1>4, <1>5, <1>7 DEF g
<1>9. ExecCalm(c.x)
  BY <1>4, <1>8, PreservedCalm
<1> QED BY <1>9 DEF c, h, g

(* The RMWs that read one of the stores are not in the prefix of r if r     *)
(* becomes an RMW when it reads the store.                                  *)
AllFree(g, r, stores) ==
    \A w \in ToSet(stores) : valueMakesRMWSucceed(g, r, ValueOf(g, w)) => Free(g, r, w)

(* What comes before r in its thread is in the prefix of r with its prefix. *)
PrefixGrows(g, r) == \A b \in Events(g) : NextOf(b) = r => FullPrefix(g, b) \subseteq g.lab[r].prefix

(* The stores that the checker offers end with the last one in coherence. *)
LEMMA OfferedStores ==
  ASSUME CheckerOK, NEW p, NEW g, NEW X, GraphOK(p, g, X), NEW r \in Events(g), g.lab[r].typ = "R"
  PROVE  GetCoherentStores(g, r) \in Seq(StoresOf(g, r)) /\ co_max(g, Loc(g, r)) \in ToSet(GetCoherentStores(g, r))
<1> DEFINE s == g.co[Loc(g, r)]
           R == StoresOf(g, r)
           all == GetCoherentStores(g, r)
<1>1. PICK hb : \A x, e : GetCoherentStores(x, e) = CoherentStores(x, e, hb, FALSE)
  BY DEF CheckerOK
<1>2. /\ s \in Seq(ToSet(s)) /\ Len(s) \in Nat /\ DOMAIN s = 1 .. Len(s)
      /\ \A i \in DOMAIN s : s[i] \in ToSet(s)
  BY CoOf
<1> DEFINE n == splitLocMOBefore(g, Loc(g, r), r, hb)
           max == co_max(g, Loc(g, r))
<1>3. n \in 0 .. Len(s)
  BY <1>2, SplitIn
<1>4. all = IF max[1] = r[1] /\ max[2] < r[2] THEN <<max>> ELSE StoresFrom(s, n, Len(s))
  BY <1>1 DEF CoherentStores
<1>5. max \in R /\ max = IF s = <<>> THEN InitEvent ELSE s[Len(s)]
  BY CoMaxIsStore DEF co_max, Last
<1>6. InitEvent \in R /\ ToSet(s) \subseteq R
  BY DEF StoresOf
<1> HIDE DEF n, max, s, R
<1>7. StoresFrom(s, n, Len(s)) \in Seq(R) /\ max \in ToSet(StoresFrom(s, n, Len(s)))
  <2> DEFINE a == IF n = 0 THEN InitEvent ELSE s[n]
             b == SubSeq(s, n + 1, Len(s))
             q == <<a>> \o b
  <2>0. n \in Nat /\ Len(s) \in Nat /\ n <= Len(s)
    BY <1>2, <1>3
  <2>1. a \in R /\ s \in Seq(R)
    BY <1>2, <1>3, <1>6
  <2>2. b \in Seq(R) /\ Len(b) = Len(s) - n /\ \A i \in 1 .. Len(s) - n : b[i] = s[n + i]
    BY <1>3, <2>1, SubSeqIs
  <2>3. StoresFrom(s, n, Len(s)) = q
    BY DEF StoresFrom
  <2>4. <<a>> \in Seq(R) /\ Len(<<a>>) = 1 /\ <<a>>[1] = a
    BY <2>1
  <2> DEFINE u == <<a>>
  <2> HIDE DEF u, b
  <2>5. q \in Seq(R) /\ Len(q) = 1 + Len(b) /\ q[1] = a /\ \A i \in 1 .. Len(b) : q[1 + i] = b[i]
    <3>1. u \in Seq(R) /\ Len(u) = 1 /\ u[1] = a
      BY <2>4 DEF u
    <3>2. q = u \o b
      BY DEF u
    <3> HIDE DEF q, a
    <3>3. u \in Seq(R) /\ b \in Seq(R) /\ q = u \o b
      BY <2>2, <3>1, <3>2
    <3>4. /\ q \in Seq(R) /\ Len(q) = Len(u) + Len(b) /\ \A i \in 1 .. Len(u) : q[i] = u[i]
          /\ \A i \in 1 .. Len(b) : q[Len(u) + i] = b[i]
      BY <3>3, ConcatIs
    <3> QED BY <3>1, <3>4
  <2> HIDE DEF q
  <2>6. q[Len(q)] = max
    <3>1. CASE n = Len(s)
      <4>1. Len(q) = 1
        BY <1>2, <2>2, <2>5, <3>1
      <4>2. n = 0 => s = <<>>
        BY <1>2, <3>1
      <4>3. n # 0 => s # <<>>
        BY <1>2, <3>1
      <4> QED BY <1>5, <2>5, <3>1, <4>1, <4>2, <4>3
    <3>2. CASE n # Len(s)
      <4>1. Len(s) - n \in 1 .. Len(s) - n /\ s # <<>> /\ Len(s) - n = Len(b) /\ Len(b) \in 1 .. Len(b)
        <5>1. Len(s) - n \in Nat /\ Len(s) - n >= 1 /\ Len(s) # 0
          BY <2>0, <3>2
        <5>2. s # <<>>
          BY <5>1
        <5> QED BY <2>2, <5>1, <5>2
      <4>2. q[1 + Len(b)] = b[Len(b)] /\ b[Len(s) - n] = s[n + (Len(s) - n)]
        BY <2>2, <2>5, <4>1
      <4>3. n + (Len(s) - n) = Len(s)
        BY <1>2, <1>3
      <4> QED BY <1>5, <2>5, <4>1, <4>2, <4>3
    <3> QED BY <3>1, <3>2
  <2>7. Len(q) \in DOMAIN q
    BY <2>2, <2>5
  <2> QED BY <2>3, <2>5, <2>6, <2>7 DEF ToSet
<1>8. <<max>> \in Seq(R) /\ max \in ToSet(<<max>>)
  BY <1>5 DEF ToSet
<1> HIDE DEF all
<1>9. all \in Seq(R) /\ max \in ToSet(all)
  BY <1>4, <1>7, <1>8
<1> QED BY <1>9 DEF all, R, max

(* The stores that a load is offered are those that no RMW in its prefix    *)
(* reads.                                                                   *)
LEMMA StoresAreFree ==
  ASSUME CheckerOK, NEW p, NEW g, NEW X, GraphOK(p, g, X), NEW r \in Events(g), g.lab[r].typ = "R",
         PrefixGrows(g, r)
  PROVE  AllFree(g, r, StoresToRead(g, r))
<1> DEFINE R == StoresOf(g, r)
           all == GetCoherentStores(g, r)
           T == {w \in ToSet(all) : ~(valueMakesRMWSucceed(g, r, ValueOf(g, w)) /\
                    \E q \in readers(g, w, Loc(g, r)) :
                        IsRMWRead(g, q) /\ (~g.lab[q].revisitable \/ q \in getPrefixView(g, r)))}
           some == getRfsApproximation(g, r)
           U == {w \in ToSet(some) : \/ ~Annotated(g.lab[r])
                                     \/ w \in {Last(some), co_max(g, Loc(g, r))}
                                     \/ ValueOf(g, w) = g.lab[r].ins.annot}
<1>1. all \in Seq(R)
  BY OfferedStores
<1>2. some = Kept(all, T)
  BY DEF getRfsApproximation
<1>3. StoresToRead(g, r) = Kept(some, U)
  BY DEF StoresToRead, filterValuesFromAnnotSAVER
<1> HIDE DEF R, all, some, U
<1>4. some \in Seq(R \cap T) /\ ToSet(some) \subseteq T
  <2> HIDE DEF T
  <2> QED BY <1>1, <1>2, KeptProperties
<1>5. ToSet(StoresToRead(g, r)) \subseteq ToSet(some)
  <2> HIDE DEF T
  <2> QED BY <1>3, <1>4, KeptProperties
<1>6. ASSUME NEW w \in ToSet(StoresToRead(g, r)), valueMakesRMWSucceed(g, r, ValueOf(g, w)),
             NEW q \in RMWReads(g), g.lab[q].rf = w, Loc(g, q) = Loc(g, r)
      PROVE  q \notin g.lab[r].prefix
  <2>1. w \in T
    BY <1>4, <1>5, <1>6
  <2>2. q \in readers(g, w, Loc(g, r)) /\ IsRMWRead(g, q)
    BY <1>6 DEF RMWReads, readers
  <2> QED BY <1>6, <2>1, <2>2 DEF getPrefixView
<1> HIDE DEF T
<1> QED BY <1>6 DEF AllFree, Free, PrefixGrows

(* The last store in coherence is among them: VERIFY(!stores.empty()). An   *)
(* RMW that reads it would have its write after it.                         *)
LEMMA StoreToRead ==
  ASSUME CheckerOK, NEW p, NEW g, GraphOK(p, g, {}), NEW r \in Events(g), g.lab[r].typ = "R",
         Paired(g), Adjacent(g), Placed(g, {r})
  PROVE  StoresToRead(g, r) # <<>>
<1> DEFINE R == StoresOf(g, r)
           l == Loc(g, r)
           max == co_max(g, l)
           all == GetCoherentStores(g, r)
           T == {w \in ToSet(all) : ~(valueMakesRMWSucceed(g, r, ValueOf(g, w)) /\
                    \E q \in readers(g, w, l) :
                        IsRMWRead(g, q) /\ (~g.lab[q].revisitable \/ q \in getPrefixView(g, r)))}
           some == getRfsApproximation(g, r)
           U == {w \in ToSet(some) : \/ ~Annotated(g.lab[r])
                                     \/ w \in {Last(some), max}
                                     \/ ValueOf(g, w) = g.lab[r].ins.annot}
<1>1. all \in Seq(R) /\ max \in ToSet(all)
  BY OfferedStores
<1>2. some = Kept(all, T)
  BY DEF getRfsApproximation
<1>3. StoresToRead(g, r) = Kept(some, U)
  BY DEF StoresToRead, filterValuesFromAnnotSAVER
<1>4. ASSUME NEW q \in readers(g, max, l), IsRMWRead(g, q) PROVE FALSE
  <2>1. q \in RMWReads(g) /\ g.lab[q].rf = max /\ Loc(g, q) = l
    BY <1>4 DEF readers, RMWReads
  <2>2. /\ q \in Events(g) /\ NextOf(q) \in Events(g) /\ NextOf(q) \in Writes(g) /\ g.lab[NextOf(q)].typ = "W"
        /\ l \in Locs
    BY <2>1, RMWParts
  <2>3. g.lab[NextOf(q)].ins = g.lab[q].ins
    BY <2>1, <2>2 DEF Paired
  <2>4. Loc(g, NextOf(q)) = l
    BY <2>1, <2>3 DEF Loc
  <2>5. NextOf(q) \in ToSet(g.co[l])
    BY <2>2, <2>4 DEF Placed
  <2>6. co_lt(g, l, max, NextOf(q))
    BY <2>1, <2>5 DEF Adjacent, AdjacentTo
  <2> QED BY <2>2, <2>6, NothingAfterMax
<1>5. max \in T
  BY <1>1, <1>4
<1> HIDE DEF R, l, max, all, some, U, T
<1>6. some \in Seq(R \cap T) /\ max \in ToSet(some)
  BY <1>1, <1>2, <1>5, KeptProperties
<1>7. max \in U
  BY <1>6 DEF U
<1>8. max \in ToSet(StoresToRead(g, r))
  BY <1>3, <1>6, <1>7, KeptProperties
<1> QED BY <1>8 DEF ToSet

(* A load whose label is added and that passes its checks leaves an         *)
(* execution without conflicts.                                             *)
LEMMA LoadCheckedCalm ==
  ASSUME CheckerOK, NEW p, NEW d, ContextOK(p, d), ~d.moot, NoDangling(d.x.graph), ExecSettled(d.x),
         NEW l, LabelOK(p, d.x.graph, l), Extends(p, d.x.graph, l), l.pos \notin Events(d.x.graph), l.typ = "R",
         l.revisitable, ExecCalm(d.x)
  PROVE  ExecCalm(AddedLoad(d, l).x) /\ PrefixGrows(AddedLoad(d, l).x.graph, l.pos)
<1> DEFINE r == l.pos
           g == d.x.graph
           h == addLabelToGraph(g, l)
           d1 == SetGraph(d, h)
           err == LoadError(d1.x.graph, d1.st, r)
           c == Checked(d1, r, err)
           before == <<r[1], r[2] - 1>>
<1>1. GraphOK(p, g, {})
  BY DEF ContextOK, ExecOK
<1>2. GraphOK(p, h, {}) /\ Appended(g, h, l)
  BY <1>1, LabelAppends
<1>3. IsLast(h, r) /\ r[2] > 0
  BY <1>1, <1>2, AppendedLast
<1>4. ContextOK(p, d1) /\ d1.x.graph = h
  BY <1>2, AddedContext
<1>5. ExecCalm(d1.x)
  <2>1. \A q : ~Completes(d.x.graph, l, q)
    BY DEF Completes
  <2> QED BY <1>4, <2>1, AddedCalm
<1>6. before \in Events(g) /\ NextOf(before) = r /\ before \in Nat \X Nat
  <2>1. r = <<r[1], r[2]>> /\ r[1] \in Nat /\ r[2] \in Nat \ {0} /\ before \in Events(g)
    BY DEF Extends
  <2> QED BY <2>1 DEF NextOf
<1> HIDE DEF before
<1>7. h.lab[r].prefix = UpTo(r) \cup g.lab[before].prefix
  BY <1>1, <1>6, PrefixOfAccess
<1> HIDE DEF h, d1, err
<1>8. AtHand(d1.x.graph, r)
  BY <1>2, <1>3, <1>4 DEF AtHand, Appended
<1>9. ExecCalm(c.x)
  BY <1>4, <1>5, <1>8, CheckedCalm
<1>10. Reported(p, d1, c)
  BY <1>4, <1>8, CheckedOK
<1> DEFINE k == c.x.graph
<1>11. GraphOK(p, k, {}) /\ SameReads(h, k)
  BY <1>4, <1>10 DEF Reported, ContextOK, ExecOK
<1>12. c = AddedLoad(d, l)
  BY DEF AddedLoad, d1, h, err
<1> HIDE DEF c, k, g
<1>13. /\ Events(k) = Events(h) /\ Events(h) = Events(g) \cup {r} /\ \A e \in Events(k) : k.lab[e].prefix = h.lab[e].prefix
       /\ \A e \in Events(g) : h.lab[e] = g.lab[e]
  BY <1>2, <1>11 DEF SameReads, SameText, Appended
<1>14. ASSUME NEW b \in Events(k), NextOf(b) = r PROVE FullPrefix(k, b) \subseteq k.lab[r].prefix
  <2>1. b \in Nat \X Nat
    BY <1>11, EventsArePairs
  <2>2. b = before
    BY <1>6, <1>14, <2>1, NextOnce
  <2>3. k.lab[b].prefix = g.lab[before].prefix /\ k.lab[r].prefix = UpTo(r) \cup g.lab[before].prefix
    BY <1>6, <1>7, <1>13, <2>2
  <2>4. UpTo(b) \subseteq UpTo(r)
    BY <1>14, <2>1 DEF UpTo, NextOf
  <2> QED BY <2>3, <2>4 DEF FullPrefix
<1>15. PrefixGrows(k, r)
  BY <1>14 DEF PrefixGrows
<1> QED BY <1>9, <1>12, <1>15 DEF k

(* The other stores of a load are those that it could have read. *)
LEMMA OtherStores ==
  ASSUME NEW R, NEW stores \in Seq(R), NEW i \in DOMAIN stores, NEW r, NEW q,
         q = Alternatives("RF", r, Reverse(SubSeq(stores, i + 1, Len(stores)))), NEW j \in DOMAIN q
  PROVE  q[j].kind = "RF" /\ q[j].pos = r /\ q[j].rev \in ToSet(stores)
<1> DEFINE s == SubSeq(stores, i + 1, Len(stores))
           choices == Reverse(s)
<1>1. i \in 0 .. Len(stores) /\ Len(stores) \in Nat /\ DOMAIN stores = 1 .. Len(stores) /\ i >= 1
  OBVIOUS
<1>2. Len(s) = Len(stores) - i /\ \A k \in 1 .. Len(stores) - i : s[k] = stores[i + k]
  BY <1>1, SubSeqIs
<1>3. choices = [k \in 1 .. Len(s) |-> s[Len(s) - k + 1]]
  BY DEF Reverse
<1> HIDE DEF s, choices
<1>4. q = Alternatives("RF", r, choices)
  BY DEF choices, s
<1>5. q = [k \in DOMAIN choices |-> Item("RF", r, choices[k])]
  BY <1>4 DEF Alternatives
<1>6. DOMAIN choices = 1 .. Len(s) /\ Len(s) \in Nat
  BY <1>1, <1>2, <1>3
<1>7. j \in 1 .. Len(s) /\ q[j] = Item("RF", r, choices[j]) /\ choices[j] = s[Len(s) - j + 1]
  BY <1>3, <1>5, <1>6
<1>8. Len(s) - j + 1 \in 1 .. Len(stores) - i /\ i + (Len(s) - j + 1) \in DOMAIN stores
  BY <1>1, <1>2, <1>6, <1>7
<1>9. choices[j] = stores[i + (Len(s) - j + 1)]
  BY <1>2, <1>7, <1>8
<1>10. choices[j] \in ToSet(stores)
  BY <1>8, <1>9 DEF ToSet
<1> QED BY <1>7, <1>10 DEF Item

(* Rereading leaves a load free. *)
LEMMA FreeStays ==
  ASSUME NEW p, NEW g, GraphOK(p, g, {}), NEW h, NEW rf, Reread(g, h, rf), LastReads(g, rf), NEW r,
         DOMAIN rf = {r}, NEW w, Free(g, r, w)
  PROVE  Free(h, r, w)
<1>1. r \in Events(g) /\ r \in Nat \X Nat /\ IsLast(g, r)
  BY LastReadsAre DEF LastReads
<1>2. /\ SameText(g, h)
      /\ \A e \in Events(g) \ {r} : h.lab[e].rf = g.lab[e].rf /\ h.lab[e].prefix = g.lab[e].prefix
  BY DEF Reread
<1> SUFFICES ASSUME NEW q \in RMWReads(h), NEW b \in Events(h), h.lab[q].rf = w, Loc(h, q) = Loc(h, r), NextOf(b) = r,
                    q \in FullPrefix(h, b)
             PROVE  FALSE
  BY DEF Free
<1>3. q \in RMWReads(g)
  BY <1>2, TextRMWs
<1>4. q \in Events(g) /\ q \in Nat \X Nat /\ NextOf(q) \in Events(g)
  BY <1>3, RMWParts
<1>5. q # r
  BY <1>1, <1>4 DEF IsLast, NextOf
<1>6. g.lab[q].rf = w /\ Loc(g, q) = Loc(g, r)
  BY <1>1, <1>2, <1>4, <1>5 DEF SameText, Loc
<1>7. b \in Events(g) /\ b \in Nat \X Nat
  BY <1>2, EventsArePairs DEF SameText
<1>8. b # r
  BY <1>7 DEF NextOf
<1>9. FullPrefix(h, b) = FullPrefix(g, b)
  BY <1>2, <1>7, <1>8 DEF FullPrefix
<1> QED BY <1>3, <1>6, <1>7, <1>9 DEF Free

(* Reading one of the stores leaves no conflict, and the items for the      *)
(* others do not make one.                                                  *)
LEMMA ReadOneOfCalm ==
  ASSUME CheckerOK, NEW p, NEW x, ExecOK(p, x), NEW r, IsNewest(x.graph, r), r[2] > 0,
         x.graph.lab[r].typ = "R", IsLast(x.graph, r),
         NEW stores \in Seq(StoresOf(x.graph, r)), NEW i \in DOMAIN stores,
         ExecSettled(x), r \notin Settled(x.graph), ExecCalm(x), AllFree(x.graph, r, stores)
  PROVE  LET y == readOneOf(x, r, stores, i)
             g == y.graph
         IN /\ ExecCalm(y)
            /\ x.graph.lab[r].ins.op # "R" /\ valueMakesRMWSucceed(g, r, ReadValue(g, r)) => Clear(g, r)
<1> DEFINE g == x.graph
           y == readOneOf(x, r, stores, i)
<1>1. PICK h, q : Choice(p, x, r, stores, i, h, q)
  BY ReadChoice
<1> DEFINE b == BlockIfAnnotFails(h, r)
           w == stores[i]
           rf == [e \in {r} |-> w]
           all == x.workqueue \o q
           u == [graph |-> h, workqueue |-> all]
<1>2. y.graph = b /\ y.workqueue = all
  <2>1. y = [graph |-> b, workqueue |-> all]
    BY <1>1 DEF Choice
  <2> HIDE DEF y, b, all
  <2> QED BY <2>1
<1>3. GraphOK(p, g, {}) /\ ItemsOK(g, x.workqueue) /\ r \in Events(g) /\ IsSeq(x.workqueue)
  BY DEF ExecOK, IsNewest, ItemsOK
<1>4. h = updateLabelViews(setRf(g, r, w), r)
  BY <1>1 DEF Choice
<1>5. w \in StoresOf(g, r) /\ w \in ToSet(stores)
  BY DEF ToSet
<1>6. DOMAIN rf = {r} /\ rf[r] = w /\ LastReads(g, rf)
  BY <1>3, <1>5 DEF LastReads, Reads, OfType
<1>7. Reread(g, h, rf)
  BY <1>3, <1>4, <1>5, <1>6, ReadFromRereads
<1>8. Relabels(g, h, {r})
  <2> HIDE DEF w
  <2> QED BY <1>3, <1>4, ReadFromRelabels
<1>9. /\ GraphOK(p, h, {}) /\ ItemsOK(h, x.workqueue) /\ SameText(g, h) /\ h.lab[r].rf = w
      /\ ItemsOK(h, all) /\ IsSeq(q) /\ q = Alternatives("RF", r, Reverse(SubSeq(stores, i + 1, Len(stores))))
  BY <1>1 DEF Choice, StoreRead
<1>10. r \in Events(h) /\ h.lab[r].typ = "R" /\ IsLast(h, r) /\ h.lab[r].ins = g.lab[r].ins
  BY <1>1 DEF Choice
<1>11. u.graph = h /\ u.workqueue = all
  OBVIOUS
<1> HIDE DEF y, b, g, w, rf, u
<1>12. Preserves(g, h)
  <2>1. {} \subseteq Reads(g)
    OBVIOUS
  <2> QED BY <1>3, <1>6, <1>7, <1>9, <2>1, RereadPreserves
<1>13. Paired(h) /\ Adjacent(h) /\ NoConflict(h) /\ ItemsAtomic(h, x.workqueue)
  BY <1>3, <1>9, <1>12 DEF Preserves, ExecCalm, g
<1>14. ASSUME NEW v \in ToSet(stores), valueMakesRMWSucceed(h, r, ValueOf(h, v)) PROVE Free(g, r, v)
  <2>1. v \in StoresOf(g, r)
    BY <1>14 DEF ToSet, g
  <2>2. v \in Events(g)
    BY <1>3, <2>1, StoresAre DEF g
  <2>3. ValueOf(h, v) = ValueOf(g, v)
    BY <1>9, <2>2 DEF ValueOf, SameText
  <2>4. valueMakesRMWSucceed(g, r, ValueOf(g, v))
    BY <1>10, <1>14, <2>3 DEF valueMakesRMWSucceed
  <2> QED BY <1>14, <2>4 DEF AllFree, g
<1>15. ASSUME NEW j \in DOMAIN q PROVE ItemAtomic(h, q[j])
  <2>1. q[j].kind = "RF" /\ q[j].pos = r /\ q[j].rev \in ToSet(stores)
    BY <1>9, OtherStores
  <2>2. RFAtomic(h, r, q[j].rev)
    <3>1. CASE ~valueMakesRMWSucceed(h, r, ValueOf(h, q[j].rev))
      BY <3>1 DEF RFAtomic
    <3>2. CASE valueMakesRMWSucceed(h, r, ValueOf(h, q[j].rev))
      <4>1. Free(g, r, q[j].rev)
        BY <1>14, <2>1, <3>2
      <4>2. Free(h, r, q[j].rev)
        BY <1>3, <1>6, <1>7, <4>1, FreeStays
      <4> QED BY <4>2 DEF RFAtomic, Free
    <3> QED BY <3>1, <3>2
  <2> QED BY <2>1, <2>2 DEF ItemAtomic
<1>16. ItemsAtomic(h, all)
  <2>1. ItemsAtomic(h, q)
    BY <1>15 DEF ItemsAtomic
  <2> QED BY <1>3, <1>9, <1>13, <2>1, BothAtomic
<1> HIDE DEF all
<1>17. ExecCalm(u)
  BY <1>11, <1>13, <1>16 DEF ExecCalm
<1>18. valueMakesRMWSucceed(h, r, ReadValue(h, r)) => Clear(h, r)
  <2> SUFFICES ASSUME valueMakesRMWSucceed(h, r, ReadValue(h, r)) PROVE Clear(h, r)
    OBVIOUS
  <2>1. valueMakesRMWSucceed(h, r, ValueOf(h, w))
    BY <1>9 DEF ReadValue
  <2>2. Free(g, r, w)
    BY <1>5, <1>14, <2>1
  <2> QED BY <1>3, <1>6, <1>7, <2>2, FreeIsClear
<1>19. b = h \/ (h.lab[r].ins.op = "R" /\ \E l : BlockedBy(p, h, b, l))
  BY <1>9, <1>10, BlockedAfterRead DEF b
<1>20. CASE b = h
  BY <1>2, <1>11, <1>17, <1>18, <1>20 DEF ExecCalm, y, g
<1>21. CASE h.lab[r].ins.op = "R" /\ \E l : BlockedBy(p, h, b, l)
  <2>1. PICK l : BlockedBy(p, h, b, l)
    BY <1>21
  <2>2. GraphOK(p, b, {}) /\ Appended(h, b, l) /\ l.typ = "B"
    BY <2>1 DEF BlockedBy
  <2>3. Stays(h, b)
    <3>1. b = add(h, l) /\ DOMAIN l = LabelFields /\ l.revisitable /\ l.pos \notin Events(h)
      BY <2>1, <2>2 DEF BlockedBy, Appended
    <3>2. b.lab[l.pos].revisitable
      BY <1>9, <3>1, AddedLabels DEF GraphOK
    <3> QED BY <2>2, <3>2, AppendStays
  <2>4. Preserves(h, b)
    <3>1. {} \subseteq Reads(h) /\ (\A e : ~Completes(h, l, e)) /\ l.typ # "W"
      BY <2>2 DEF Completes
    <3> QED BY <1>9, <2>2, <2>3, <3>1, AppendPreserves
  <2>5. ItemsOK(b, all)
    <3>1. Keeps(h, b, Events(h))
      BY <2>2 DEF Appended
    <3> QED BY <1>9, <3>1, KeptAll
  <2>6. Preserves(u.graph, y.graph) /\ ItemsOK(u.graph, u.workqueue) /\ ItemsOK(y.graph, y.workqueue) /\ y.workqueue = u.workqueue
    BY <1>2, <1>9, <1>11, <2>4, <2>5
  <2>7. ExecCalm(y)
    BY <1>17, <2>6, PreservedCalm
  <2> QED BY <1>10, <1>21, <2>7 DEF y, g
<1> QED BY <1>19, <1>20, <1>21

(* A handler leaves an execution whose RMWs are atomic, or one that ends    *)
(* with an error; if the program goes on no RMWs compete.                   *)
Calms(c) ==
    /\ c.internal = NoError
    /\ (c.moot /\ ErrorLast(c.x)) \/ ExecAtomic(c.x)
    /\ c.moot \/ NoConflict(c.x.graph)

(* An execution without conflicts is one whose RMWs are atomic. *)
LEMMA CalmIsAtomic ==
  ASSUME NEW x, ExecCalm(x)
  PROVE  ExecAtomic(x) /\ NoConflict(x.graph)
BY NoConflictIsLast DEF ExecCalm, ExecAtomic, GraphAtomic

(* What handleLoad() leaves to be done: nothing, unless the load is that of *)
(* an RMW that succeeds.                                                    *)
LoadedCalm(c, l) ==
    LET g == c.x.graph
        r == l.pos
    IN /\ c.internal = NoError /\ ExecCalm(c.x)
       /\ ~c.moot /\ l.ins.op # "R" /\ valueMakesRMWSucceed(g, r, ReadValue(g, r)) => Clear(g, r)

(* handleLoad() finds a store to read, and makes no conflict. *)
LEMMA LoadCalm ==
  ASSUME CheckerOK, NEW p, NEW d, ContextOK(p, d), ~d.moot, d.internal = NoError, NoDangling(d.x.graph),
         NEW l, LabelOK(p, d.x.graph, l), Extends(p, d.x.graph, l), l.pos \notin Events(d.x.graph), l.typ = "R",
         ExecSettled(d.x), l.revisitable, Whole(d.x.graph, {}), ExecCalm(d.x)
  PROVE  LoadedCalm(handleLoad(d, l), l)
<1> DEFINE r == l.pos
           d2 == AddedLoad(d, l)
           c == handleLoad(d, l)
<1>1. /\ ContextOK(p, d2) /\ IsNewest(d2.x.graph, r) /\ r[2] > 0 /\ IsLast(d2.x.graph, r)
      /\ d2.x.graph.lab[r].typ = "R" /\ d2.x.graph.lab[r].ins = l.ins /\ d2.internal = NoError
  BY LoadCheckedOK DEF LoadAtHand
<1>2. Settles(d.x, d2.x) /\ r \notin Settled(d2.x.graph)
  BY LoadCheckedSettles
<1>3. c = LoadChecked(d2, r)
  BY DEF handleLoad, LoadAdded, AddedLoad
<1>4. Whole(d2.x.graph, {r}) /\ r \in Events(d2.x.graph)
  BY <1>1, LoadCheckedWhole DEF IsNewest
<1>5. ExecCalm(d2.x) /\ PrefixGrows(d2.x.graph, r)
  BY LoadCheckedCalm
<1> HIDE DEF d2, c
<1>6. CASE d2.moot
  <2>1. c = d2
    BY <1>3, <1>6 DEF LoadChecked
  <2> QED BY <1>1, <1>5, <1>6, <2>1 DEF LoadedCalm, c
<1>7. CASE ~d2.moot
  <2> DEFINE stores == StoresToRead(d2.x.graph, r)
             st == onATLoad(d2.st, r, Loc(d2.x.graph, r), HbView(d2.x.graph, r))
             d3 == [d2 EXCEPT !.st = st]
             i == findConsistentRf(d2.x.graph, r, stores)
             y == readOneOf(d2.x, r, stores, i)
  <2>1. c = ReadConsistent(d3, r, stores)
    BY <1>3, <1>7 DEF LoadChecked
  <2>2. GraphOK(p, d2.x.graph, {}) /\ ExecOK(p, d2.x)
    BY <1>1 DEF ContextOK, ExecOK
  <2>3. stores # <<>>
    <3>1. Paired(d2.x.graph) /\ Adjacent(d2.x.graph) /\ Placed(d2.x.graph, {r})
      BY <1>4, <1>5 DEF ExecCalm, Whole
    <3> QED BY <1>1, <1>4, <2>2, <3>1, StoreToRead
  <2>4. stores \in Seq(StoresOf(d2.x.graph, r))
    BY <1>1, <1>4, <2>2, CoherentStoresOK
  <2>5. AllFree(d2.x.graph, r, stores)
    BY <1>1, <1>4, <1>5, <2>2, StoresAreFree
  <2> HIDE DEF stores, st
  <2>6. DOMAIN d3 = {"x", "st", "moot", "warned", "internal"} /\ d3.x = d2.x /\ d3.moot = d2.moot /\ d3.internal = NoError
    BY <1>1 DEF ContextOK
  <2> HIDE DEF d3
  <2>7. c = [d3 EXCEPT !.x = y]
    BY <2>1, <2>3, <2>6 DEF ReadConsistent
  <2>8. i \in DOMAIN stores
    BY <2>3, <2>4, FindConsistentRfIn
  <2> HIDE DEF i
  <2>9. /\ ExecCalm(y)
        /\ l.ins.op # "R" /\ valueMakesRMWSucceed(y.graph, r, ReadValue(y.graph, r)) => Clear(y.graph, r)
    <3>1. /\ ExecOK(p, d2.x) /\ ExecSettled(d2.x) /\ IsNewest(d2.x.graph, r) /\ r[2] > 0
          /\ d2.x.graph.lab[r].typ = "R" /\ IsLast(d2.x.graph, r) /\ r \notin Settled(d2.x.graph)
          /\ ExecCalm(d2.x) /\ AllFree(d2.x.graph, r, stores)
      BY <1>1, <1>2, <1>5, <2>2, <2>5 DEF Settles
    <3> HIDE DEF r
    <3>2. /\ ExecCalm(y)
          /\ d2.x.graph.lab[r].ins.op # "R" /\ valueMakesRMWSucceed(y.graph, r, ReadValue(y.graph, r)) => Clear(y.graph, r)
      BY <2>4, <2>8, <3>1, ReadOneOfCalm
    <3> HIDE DEF y
    <3> QED BY <1>1, <3>2 DEF r
  <2> HIDE DEF y
  <2>10. c.x = y /\ c.moot = d2.moot /\ c.internal = NoError
    BY <2>6, <2>7
  <2> QED BY <2>9, <2>10 DEF LoadedCalm, c
<1> QED BY <1>6, <1>7

(* A plain load needs nothing more. *)
LEMMA PlainLoadCalm ==
  ASSUME CheckerOK, NEW p, NEW d, ContextOK(p, d), ~d.moot, d.internal = NoError, NoDangling(d.x.graph),
         NEW l, LabelOK(p, d.x.graph, l), Extends(p, d.x.graph, l), l.pos \notin Events(d.x.graph), l.typ = "R",
         ExecSettled(d.x), l.revisitable, Whole(d.x.graph, {}), ExecCalm(d.x)
  PROVE  Calms(handleLoad(d, l))
<1> DEFINE c == handleLoad(d, l)
<1>1. LoadedCalm(c, l)
  BY LoadCalm
<1> HIDE DEF c
<1>2. c.internal = NoError /\ ExecCalm(c.x)
  BY <1>1 DEF LoadedCalm
<1> QED BY <1>2, CalmIsAtomic DEF Calms, c

(* Nor does a non-atomic one. *)
LEMMA NALoadCalm ==
  ASSUME CheckerOK, NEW p, NEW d, ContextOK(p, d), ~d.moot, d.internal = NoError, NoDangling(d.x.graph),
         NEW l, LabelOK(p, d.x.graph, l), Extends(p, d.x.graph, l), l.pos \notin Events(d.x.graph), l.typ = "R",
         l.ins.mo = "na", ExecSettled(d.x), l.revisitable, ExecCalm(d.x)
  PROVE  Calms(handleNALoad(d, l))
<1> DEFINE r == l.pos
           d2 == AddedLoad(d, l)
           c == handleNALoad(d, l)
           g == d2.x.graph
<1>1. /\ ContextOK(p, d2) /\ IsNewest(g, r) /\ IsLast(g, r) /\ g.lab[r].typ = "R" /\ d2.internal = NoError
  BY LoadCheckedOK DEF LoadAtHand
<1>2. ExecCalm(d2.x)
  BY LoadCheckedCalm
<1>3. c = NALoadChecked(d2, r)
  BY DEF handleNALoad, NALoadAdded, AddedLoad
<1> HIDE DEF d2, c
<1>4. CASE d2.moot
  <2>1. c = d2
    BY <1>3, <1>4 DEF NALoadChecked
  <2> QED BY <1>1, <1>2, <2>1, CalmIsAtomic DEF c, Calms
<1>5. CASE ~d2.moot
  <2> DEFINE w == co_max(g, Loc(g, r))
             h == setRf(g, r, w)
             st == onNALoad(d2.st, r, Loc(g, r), HbView(g, r))
  <2>1. c = [d2 EXCEPT !.st = st, !.x.graph = h]
    BY <1>3, <1>5 DEF NALoadChecked
  <2>2. /\ GraphOK(p, g, {}) /\ DOMAIN d2.x = {"graph", "workqueue"} /\ r \in Events(g)
        /\ ItemsOK(g, d2.x.workqueue)
    BY <1>1 DEF ContextOK, ExecOK, IsNewest
  <2> HIDE DEF w, st
  <2>3. SetsRf(g, h, r, w)
    BY <2>2, SetRfSets
  <2> HIDE DEF h
  <2>4. c.x.graph = h /\ c.x.workqueue = d2.x.workqueue /\ c.internal = NoError
    <3>1. c = [d2 EXCEPT !.st = st, !.x = [d2.x EXCEPT !.graph = h]]
      BY <1>1, <2>1 DEF ContextOK
    <3>2. c.x = [d2.x EXCEPT !.graph = h] /\ c.internal = NoError
      BY <1>1, <3>1 DEF ContextOK
    <3> QED BY <2>2, <3>2
  <2>5. GraphOK(p, h, {}) /\ ItemsOK(h, c.x.workqueue)
    <3>1. Handles(p, c)
      BY NALoadHandlerOK DEF c
    <3> QED BY <2>4, <3>1 DEF Handles, ContextOK, ExecOK
  <2>6. Preserves(g, h)
    <3>1. {} \subseteq Reads(g) /\ r \in Reads(g)
      BY <1>1, <2>2 DEF Reads, OfType
    <3> HIDE DEF g
    <3> QED BY <1>1, <2>2, <2>3, <2>5, <3>1, SetsRfPreserves
  <2>7. ExecCalm(c.x)
    BY <1>2, <2>2, <2>4, <2>5, <2>6, PreservedCalm
  <2> QED BY <2>4, <2>7, CalmIsAtomic DEF Calms, c
<1> QED BY <1>4, <1>5

(* An event that is neither a load nor a store makes no conflict. *)
LEMMA OtherCalm ==
  ASSUME CheckerOK, NEW p, NEW d, ContextOK(p, d), ExecSettled(d.x),
         NEW l, LabelOK(p, d.x.graph, l), Extends(p, d.x.graph, l), l.pos \notin Events(d.x.graph),
         l.typ \notin {"B", "TF", "R", "W"}, l.revisitable, ExecCalm(d.x)
  PROVE  ExecCalm(SetGraph(d, addLabelToGraph(d.x.graph, l)).x)
<1> DEFINE h == addLabelToGraph(d.x.graph, l)
<1>1. GraphOK(p, d.x.graph, {})
  BY DEF ContextOK, ExecOK
<1>2. GraphOK(p, h, {}) /\ Appended(d.x.graph, h, l)
  BY <1>1, LabelAppends
<1>3. ContextOK(p, SetGraph(d, h))
  BY <1>2, AddedContext
<1>4. \A q : ~Completes(d.x.graph, l, q)
  BY DEF Completes
<1> QED BY <1>3, <1>4, AddedCalm

(* An event that is no store is added, whatever its views. *)
LEMMA AppendedCalm ==
  ASSUME NEW p, NEW g, NEW h, GraphOK(p, g, {}), GraphOK(p, h, {}), NEW l, Appended(g, h, l), Stays(g, h), l.typ # "W",
         NEW x, x.graph = g, NEW y, y.graph = h, y.workqueue = x.workqueue, ItemsOK(g, x.workqueue), ExecCalm(x)
  PROVE  ExecCalm(y) /\ ItemsOK(h, y.workqueue)
<1>1. Preserves(g, h)
  <2>1. {} \subseteq Reads(g) /\ \A e : ~Completes(g, l, e)
    BY DEF Completes
  <2> QED BY <2>1, AppendPreserves
<1>2. ItemsOK(h, y.workqueue)
  <2>1. Keeps(g, h, Events(g))
    BY DEF Appended
  <2> QED BY <2>1, KeptAll
<1> QED BY <1>1, <1>2, PreservedCalm

(* What SetGraph() leaves alone. *)
LEMMA SetGraphIs ==
  ASSUME NEW p, NEW d, ContextOK(p, d), NEW h
  PROVE  LET c == SetGraph(d, h)
         IN /\ c.x.graph = h /\ c.x.workqueue = d.x.workqueue /\ c.internal = d.internal
            /\ DOMAIN c = {"x", "st", "moot", "warned", "internal"}
BY DEF SetGraph, ContextOK, ExecOK

(* Allocations and frees make no conflict. *)
LEMMA ProbeCalm ==
  ASSUME NEW p, NEW d, ContextOK(p, d), NoDangling(d.x.graph),
         NEW l, LabelOK(p, d.x.graph, l), Extends(p, d.x.graph, l), l.pos \notin Events(d.x.graph),
         l.typ \in {"M", "D", "RET"}, ExecSettled(d.x), l.revisitable, ExecCalm(d.x)
  PROVE  ExecCalm(addProbe(d, l).x) /\ addProbe(d, l).internal = d.internal
<1> DEFINE g == d.x.graph
           b == <<l.pos[1], l.pos[2] - 1>>
           h == add(g, Probe(g.lab[b], l))
           c == addProbe(d, l)
<1>1. GraphOK(p, g, {}) /\ ItemsOK(g, d.x.workqueue)
  BY DEF ContextOK, ExecOK
<1>2. b \in Events(g) /\ IsLast(g, b) /\ b[1] = l.pos[1]
  BY DEF Extends
<1>3. LastLabel(g, l.pos[1]) = g.lab[b]
  <2>1. b[2] = LastIndex(g, b[1])
    BY <1>1, <1>2, LastIndexIsLast
  <2>2. <<l.pos[1], LastIndex(g, l.pos[1])>> = b
    BY <1>2, <2>1
  <2> HIDE DEF b
  <2> QED BY <2>2 DEF LastLabel
<1>4. c = SetGraph(d, h)
  BY <1>3 DEF addProbe
<1>5. Appended(g, h, l) /\ GraphOK(p, h, {})
  BY <1>1, ProbeAppends
<1>6. Settles(d.x, c.x)
  BY ProbeSettles
<1> HIDE DEF h, c
<1>7. c.x.graph = h /\ c.x.workqueue = d.x.workqueue /\ c.internal = d.internal
  BY <1>4, SetGraphIs
<1>8. Stays(g, h) /\ l.typ # "W"
  BY <1>6, <1>7 DEF Settles
<1>9. ExecCalm(c.x)
  <2> HIDE DEF g
  <2>1. d.x.graph = g
    BY DEF g
  <2> QED BY <1>1, <1>5, <1>7, <1>8, <2>1, AppendedCalm
<1> QED BY <1>7, <1>9 DEF c

(* handleMalloc() makes no conflict. *)
LEMMA MallocCalm ==
  ASSUME NEW p, NEW d, ContextOK(p, d), NoDangling(d.x.graph), d.internal = NoError,
         NEW l, LabelOK(p, d.x.graph, l), Extends(p, d.x.graph, l), l.pos \notin Events(d.x.graph),
         l.typ = "M", ExecSettled(d.x), l.revisitable, ExecCalm(d.x)
  PROVE  Calms(handleMalloc(d, l))
<1> DEFINE d1 == addProbe(d, l)
           st == onAlloc(d1.st, l.pos, l.ins.loc)
           c == [d1 EXCEPT !.st = st]
<1>1. ContextOK(p, d1) /\ ExecCalm(d1.x) /\ d1.internal = NoError
  BY ProbeOK, ProbeCalm
<1>2. handleMalloc(d, l) = c
  BY DEF handleMalloc
<1> HIDE DEF d1, st
<1>3. c.x = d1.x /\ c.internal = d1.internal
  BY <1>1 DEF ContextOK
<1> HIDE DEF c
<1> QED BY <1>1, <1>2, <1>3, CalmIsAtomic DEF Calms

(* handleFree() makes no conflict. *)
LEMMA FreeCalm ==
  ASSUME CheckerOK, NEW p, NEW d, ContextOK(p, d), NoDangling(d.x.graph), d.internal = NoError,
         NEW l, LabelOK(p, d.x.graph, l), Extends(p, d.x.graph, l), l.pos \notin Events(d.x.graph),
         l.typ \in {"D", "RET"}, ExecSettled(d.x), l.revisitable, ExecCalm(d.x)
  PROVE  Calms(handleFree(d, l))
<1> DEFINE d1 == addProbe(d, l)
           d2 == checkForRaces(d1, l.pos)
           st == onFree(d2.st, l.pos, l.ins.loc, l.typ = "RET")
           d3 == [d2 EXCEPT !.st = st]
           c == handleFree(d, l)
<1>1. ContextOK(p, d1) /\ AtHand(d1.x.graph, l.pos) /\ ExecCalm(d1.x) /\ d1.internal = NoError
  BY ProbeOK, ProbeCalm
<1>2. c = IF d2.moot THEN d2 ELSE d3
  BY DEF handleFree, FreeChecked
<1> HIDE DEF d1, st, c
<1>3. Reported(p, d1, d2) /\ ExecCalm(d2.x)
  BY <1>1, RacesOK, RacesCalm
<1> HIDE DEF d2
<1>4. d3.x = d2.x /\ d3.internal = d2.internal /\ d2.internal = NoError
  BY <1>1, <1>3 DEF Reported, ContextOK
<1> HIDE DEF d3
<1> QED BY <1>2, <1>3, <1>4, CalmIsAtomic DEF c, Calms

(* So do fences, protections and method boundaries. *)
LEMMA DummyCalm ==
  ASSUME CheckerOK, NEW p, NEW d, ContextOK(p, d), d.internal = NoError,
         NEW l, LabelOK(p, d.x.graph, l), Extends(p, d.x.graph, l), l.pos \notin Events(d.x.graph),
         l.typ \in {"F", "HP", "MB", "ME"}, ExecSettled(d.x), l.revisitable, ExecCalm(d.x)
  PROVE  Calms(handleDummy(d, l))
<1> DEFINE h == addLabelToGraph(d.x.graph, l)
           d1 == SetGraph(d, h)
           st == IF l.typ = "HP" THEN onProtect(d1.st, l.ins.loc, l.ins.val) ELSE d1.st
           c == [d1 EXCEPT !.st = st]
<1>1. handleDummy(d, l) = c
  BY DEF handleDummy
<1>2. ExecCalm(d1.x)
  BY OtherCalm
<1> HIDE DEF st, h
<1>3. DOMAIN d1 = {"x", "st", "moot", "warned", "internal"} /\ d1.internal = NoError
  BY SetGraphIs
<1> HIDE DEF d1
<1>4. c.x = d1.x /\ c.internal = NoError
  BY <1>3
<1> HIDE DEF c
<1> QED BY <1>1, <1>2, <1>4, CalmIsAtomic DEF Calms

(* Blocking a thread makes no conflict. *)
LEMMA BlockCalm ==
  ASSUME NEW d, ContextOK(prog, d), ProgramOK(prog), NEW t \in ThreadIds(d.x.graph), isSchedulable(d.x.graph, t),
         NEW ip \in Nat, NEW ins, NEW val, ExecSettled(d.x), ExecCalm(d.x)
  PROVE  ExecCalm(SetGraph(d, blockThread(d.x.graph, t, ip, ins, val)).x)
<1> DEFINE g == d.x.graph
           l == NewLabel(<<t, LastIndex(g, t) + 1>>, "B", ip, ins, val)
           h == blockThread(g, t, ip, ins, val)
           c == SetGraph(d, h)
<1>1. GraphOK(prog, g, {}) /\ ItemsOK(g, d.x.workqueue)
  BY DEF ContextOK, ExecOK
<1>2. Appended(g, h, l) /\ GraphOK(prog, h, {}) /\ l.typ = "B"
  BY <1>1, BlockLabelOK
<1>3. Settles(d.x, c.x)
  BY BlockSettles
<1> HIDE DEF h, l
<1>4. c.x.graph = h /\ c.x.workqueue = d.x.workqueue
  BY SetGraphIs
<1> HIDE DEF c
<1>5. Stays(g, h) /\ l.typ # "W"
  BY <1>2, <1>3, <1>4 DEF Settles
<1>6. ExecCalm(c.x)
  <2> HIDE DEF g
  <2>1. d.x.graph = g
    BY DEF g
  <2> QED BY <1>1, <1>2, <1>4, <1>5, <2>1, AppendedCalm
<1> QED BY <1>6 DEF c, h, g

(* handleAssume() makes no conflict. *)
LEMMA AssumeCalm ==
  ASSUME NEW d, ContextOK(prog, d), ProgramOK(prog), d.internal = NoError,
         NEW t \in ThreadIds(d.x.graph), isSchedulable(d.x.graph, t), NextIns(d.x.graph, t).op = "ASSUME",
         ExecSettled(d.x), ExecCalm(d.x)
  PROVE  Calms(handleAssume(d, t))
<1> DEFINE g == d.x.graph
           ip == NextIp(g, t)
           ins == NextIns(g, t)
           d1 == SetGraph(d, blockThread(g, t, ip, ins, 0))
           moot == \E e \in getPreviousVisibleAccessLabel(g, t) :
                              /\ g.lab[e].typ = "R"
                              /\ isStable(g, e)
                              /\ ~(Ipr /\ ReadBlocks(g, e))
           c == handleAssume(d, t)
<1>1. GraphOK(prog, g, {})
  BY DEF ContextOK, ExecOK
<1>2. ip \in Nat
  BY <1>1, NextIpIs
<1>3. c = [d1 EXCEPT !.moot = moot]
  BY DEF handleAssume
<1> HIDE DEF ip, ins, moot, c
<1>4. ExecCalm(d1.x)
  BY <1>2, BlockCalm
<1>5. DOMAIN d1 = {"x", "st", "moot", "warned", "internal"} /\ d1.internal = NoError
  BY SetGraphIs
<1> HIDE DEF d1
<1>6. c.x = d1.x /\ c.internal = NoError
  BY <1>3, <1>5
<1> QED BY <1>4, <1>6, CalmIsAtomic DEF c, Calms

(* A thread that is created is a new one: no begin was left behind. *)
LEMMA ChildIsNew ==
  ASSUME NEW g, GraphOK(prog, g, {}), ProgramOK(prog), NEW t \in ThreadIds(g), isSchedulable(g, t)
  PROVE  ChildId(g, NextPos(g, t)) = Cardinality(ThreadIds(g))
<1>1. NextPos(g, t) = <<t, LastIndex(g, t) + 1>>
  BY NextIndexIs DEF NextPos
<1>2. NextPos(g, t) \notin Events(g)
  BY <1>1, ThreadEnd
<1>3. \A u \in ThreadIds(g) \ {0} : g.lab[<<u, 0>>].createId \in Events(g)
  BY DEF GraphOK, Threads, CreateId
<1>4. {u \in ThreadIds(g) \ {0} : g.lab[<<u, 0>>].createId = NextPos(g, t)} = {}
  BY <1>2, <1>3
<1> QED BY <1>4 DEF ChildId

(* handleThreadCreate() makes no conflict and never fails. *)
LEMMA ThreadCreateCalm ==
  ASSUME CheckerOK, NEW d, ContextOK(prog, d), ProgramOK(prog), d.internal = NoError,
         NEW t \in ThreadIds(d.x.graph), isSchedulable(d.x.graph, t), NextIns(d.x.graph, t).op = "CREATE",
         ExecSettled(d.x), ExecCalm(d.x)
  PROVE  Calms(handleThreadCreate(d, t))
<1> DEFINE g == d.x.graph
           ins == NextIns(g, t)
           cid == ChildId(g, NextPos(g, t))
           l == NextLabel(g, t, "TC", cid)
           h == addLabelToGraph(g, l)
           d1 == SetGraph(d, h)
           m == ThreadStartLabel(cid, l.ins.val, l.pos)
           k == addLabelToGraph(h, m)
           c == handleThreadCreate(d, t)
<1>1. GraphOK(prog, g, {}) /\ ExecOK(prog, d.x)
  BY DEF ContextOK, ExecOK
<1>2. c = ThreadCreated(d, l, cid)
  BY DEF handleThreadCreate
<1>3. cid = Cardinality(ThreadIds(g))
  BY <1>1, ChildIsNew
<1> HIDE DEF cid
<1>4. LabelOK(prog, g, l) /\ Extends(prog, g, l) /\ l.pos \notin Events(g) /\ l.typ = "TC"
  BY <1>1, NextLabelOK DEF EventTypes
<1>5. l.revisitable /\ m.revisitable
  BY NewLabelsRevisitable
<1>6. l.ins = ins /\ l.pos = <<t, LastIndex(g, t) + 1>>
  BY <1>1, NextLabelOK DEF EventTypes
<1> HIDE DEF l
<1>7. c = SetGraph(d, k)
  BY <1>2, <1>3 DEF ThreadCreated
<1>8. GraphOK(prog, h, {}) /\ Appended(g, h, l)
  BY <1>1, <1>4, LabelAppends
<1>9. LabelOK(prog, h, m) /\ Starts(prog, h, m) /\ m.pos \notin Events(h) /\ m.typ = "TS"
  BY <1>1, <1>3, <1>4, <1>6, <1>8, ChildStarts
<1>10. ExecCalm(d1.x)
  BY <1>4, <1>5, OtherCalm
<1> HIDE DEF m, h
<1>11. d1.x.graph = h /\ ContextOK(prog, d1)
  BY <1>4, <1>8, AddedContext
<1>12. d1.x.workqueue = d.x.workqueue
  BY SetGraphIs
<1>13. GraphOK(prog, k, {}) /\ Appended(h, k, m) /\ Stays(h, k)
  <2>1. GraphOK(prog, k, {}) /\ Appended(h, k, m)
    BY <1>8, <1>9, LabelAppends
  <2>2. k.lab[m.pos].revisitable
    BY <1>5, <1>8, <1>9, AddedLabels DEF GraphOK, LabelOK
  <2> HIDE DEF k
  <2> QED BY <2>1, <2>2, AppendStays
<1> HIDE DEF k, c
<1>14. c.x.graph = k /\ c.x.workqueue = d.x.workqueue /\ c.internal = NoError
  BY <1>7, SetGraphIs
<1>15. ItemsOK(h, d1.x.workqueue)
  BY <1>11 DEF ContextOK, ExecOK
<1> HIDE DEF d1
<1>16. ExecCalm(c.x)
  <2>1. c.x.workqueue = d1.x.workqueue /\ m.typ # "W"
    BY <1>9, <1>12, <1>14
  <2> QED BY <1>8, <1>10, <1>11, <1>13, <1>14, <1>15, <2>1, AppendedCalm
<1> QED BY <1>14, <1>16, CalmIsAtomic DEF c, Calms

(* handleThreadJoin() makes no conflict. *)
LEMMA ThreadJoinCalm ==
  ASSUME CheckerOK, NEW d, ContextOK(prog, d), ProgramOK(prog), d.internal = NoError,
         NEW t \in ThreadIds(d.x.graph), isSchedulable(d.x.graph, t), NextIns(d.x.graph, t).op = "JOIN",
         ExecSettled(d.x), ExecCalm(d.x)
  PROVE  Calms(handleThreadJoin(d, t))
<1> DEFINE g == d.x.graph
           ip == NextIp(g, t)
           ins == NextIns(g, t)
           child == g.lab[Children(g, t)[ins.val]].val
           l == NextLabel(g, t, "TJ", child)
           c == handleThreadJoin(d, t)
<1>1. GraphOK(prog, g, {})
  BY DEF ContextOK, ExecOK
<1>2. c = SetGraph(d, IF Finish(g, child) = {} THEN blockThread(g, t, ip, ins, child) ELSE addLabelToGraph(g, l))
  BY DEF handleThreadJoin
<1>3. ip \in Nat
  BY <1>1, NextIpIs
<1> HIDE DEF child, c
<1>4. CASE Finish(g, child) = {}
  <2> HIDE DEF ip, ins
  <2> DEFINE h == blockThread(g, t, ip, ins, child)
  <2>1. c = SetGraph(d, h)
    BY <1>2, <1>4
  <2>2. ExecCalm(c.x)
    BY <1>3, <2>1, BlockCalm
  <2> HIDE DEF h
  <2>3. c.internal = NoError
    BY <2>1, SetGraphIs
  <2> QED BY <2>2, <2>3, CalmIsAtomic DEF c, Calms
<1>5. CASE Finish(g, child) # {}
  <2> DEFINE h == addLabelToGraph(g, l)
  <2>1. c = SetGraph(d, h)
    BY <1>2, <1>5
  <2>2. LabelOK(prog, g, l) /\ Extends(prog, g, l) /\ l.pos \notin Events(g) /\ l.typ = "TJ"
    BY <1>1, NextLabelOK DEF EventTypes
  <2>3. l.revisitable
    BY NewLabelsRevisitable
  <2> HIDE DEF l
  <2>4. ExecCalm(c.x)
    BY <2>1, <2>2, <2>3, OtherCalm
  <2> HIDE DEF h
  <2>5. c.internal = NoError
    BY <2>1, SetGraphIs
  <2> QED BY <2>4, <2>5, CalmIsAtomic DEF c, Calms
<1> QED BY <1>4, <1>5

(* handleThreadFinish() makes no conflict: only blocks are removed. *)
LEMMA ThreadFinishCalm ==
  ASSUME CheckerOK, NEW d, ContextOK(prog, d), NoDangling(d.x.graph), ProgramOK(prog), d.internal = NoError,
         NEW t \in ThreadIds(d.x.graph), isSchedulable(d.x.graph, t), NextIns(d.x.graph, t).op = "FINISH",
         ExecSettled(d.x), ExecCalm(d.x)
  PROVE  Calms(handleThreadFinish(d, t))
<1> DEFINE g == d.x.graph
           l == NextLabel(g, t, "TF", 0)
           h == addLabelToGraph(g, l)
           d1 == SetGraph(d, h)
           W == Waiters(h, t)
           B == WaitBlocks(h, t)
           K == Events(h) \ B
           k == removeLast(h, W)
           c == handleThreadFinish(d, t)
<1>1. GraphOK(prog, g, {}) /\ ExecOK(prog, d.x) /\ ItemsOK(g, d.x.workqueue)
  BY DEF ContextOK, ExecOK
<1>2. c = SetGraph(d, k)
  BY DEF handleThreadFinish, unblockThreads, Waiters
<1>3. LabelOK(prog, g, l) /\ Extends(prog, g, l) /\ l.pos \notin Events(g) /\ l.typ = "TF"
  BY <1>1, NextLabelOK DEF EventTypes
<1>4. l.revisitable
  BY NewLabelsRevisitable
<1> HIDE DEF l
<1>5. GraphOK(prog, h, {}) /\ Appended(g, h, l)
  BY <1>1, <1>3, LabelAppends
<1>6. Stays(g, h)
  <2>1. h.lab[l.pos].revisitable
    BY <1>1, <1>3, <1>4, AddedLabels DEF GraphOK, LabelOK
  <2> HIDE DEF h
  <2> QED BY <1>5, <2>1, AppendStays
<1> HIDE DEF h
<1>7. d1.x.graph = h /\ d1.x.workqueue = d.x.workqueue
  BY SetGraphIs
<1> HIDE DEF d1, c
<1>8. ExecCalm(d1.x) /\ ItemsOK(h, d1.x.workqueue)
  <2>1. d.x.graph = g /\ l.typ # "W"
    BY <1>3
  <2> HIDE DEF g
  <2> QED BY <1>1, <1>5, <1>6, <1>7, <2>1, AppendedCalm
<1>9. \A e \in B : e \in Events(h) /\ h.lab[e].typ = "B"
  BY <1>5, WaitersGo
<1>10. Shrunk(h, k, K) /\ GraphOK(prog, k, {}) /\ \A e \in K : k.lab[e] = h.lab[e]
  BY <1>5, WaitersGo
<1>11. k.co = h.co
  <2>1. DOMAIN h = {"stamp", "lab", "co", "lin"}
    BY <1>5 DEF GraphOK, Shape
  <2> QED BY <2>1 DEF removeLast
<1>12. ContextOK(prog, c)
  BY ThreadFinishOK DEF Handles, c
<1> HIDE DEF k
<1>13. c.x.graph = k /\ c.x.workqueue = d1.x.workqueue /\ c.internal = NoError
  BY <1>2, <1>7, SetGraphIs
<1>14. \A e \in Events(h) \ K : h.lab[e].typ = "B"
  BY <1>9
<1> HIDE DEF K
<1>15. Preserves(h, k)
  <2>1. {} \subseteq Reads(h)
    OBVIOUS
  <2> QED BY <1>5, <1>10, <1>11, <1>14, <2>1, BlocksGoPreserve
<1>16. ItemsOK(k, c.x.workqueue)
  BY <1>12, <1>13 DEF ContextOK, ExecOK
<1>17. ExecCalm(c.x)
  BY <1>7, <1>8, <1>13, <1>15, <1>16, PreservedCalm
<1> QED BY <1>13, <1>17, CalmIsAtomic DEF c, Calms

(************************** Stores and what is atomic **********************)

(* CoBefore(g, w) is right before w. *)
LEMMA CoBeforeIs ==
  ASSUME NEW p, NEW g, NEW X, GraphOK(p, g, X), NEW l \in Locs, NEW w \in ToSet(g.co[l])
  PROVE  /\ co_lt(g, l, CoBefore(g, w), w)
         /\ \A b : co_lt(g, l, CoBefore(g, w), b) => b = w \/ co_lt(g, l, w, b)
<1> DEFINE s == g.co[l]
           u == CoBefore(g, w)
           i == Place(s, w)
<1>1. IsCo(s) /\ Loc(g, w) = l /\ w # InitEvent
  BY CoIsCo
<1>2. i = CoIndex(g, w, l)
  BY <1>1 DEF Place, CoIndex
<1>3. u = IF i = 1 THEN InitEvent ELSE s[i - 1]
  BY <1>1, <1>2 DEF CoBefore
<1> HIDE DEF s, u
<1>4. /\ Len(s) \in Nat /\ DOMAIN s = 1 .. Len(s) /\ w \in ToSet(s)
      /\ \A j \in 1 .. Len(s) : s[j] \in ToSet(s) /\ Place(s, s[j]) = j
      /\ \A a \in ToSet(s) : a # InitEvent /\ Place(s, a) \in 1 .. Len(s) /\ s[Place(s, a)] = a
      /\ Place(s, InitEvent) = 0
  BY <1>1, PlaceIn DEF s
<1>5. i \in 1 .. Len(s) /\ s[i] = w
  BY <1>4
<1> HIDE DEF i
<1>6. u \in {InitEvent} \cup ToSet(s) /\ Place(s, u) = i - 1
  <2>1. CASE i = 1
    BY <1>3, <1>4, <2>1
  <2>2. CASE i # 1
    <3>1. i - 1 \in 1 .. Len(s)
      BY <1>4, <1>5, <2>2
    <3> QED BY <1>3, <1>4, <2>2, <3>1
  <2> QED BY <2>1, <2>2
<1>7. Precedes(s, u, w)
  <2>1. Place(s, u) < Place(s, w)
    BY <1>4, <1>5, <1>6 DEF i
  <2> QED BY <1>1, <1>4, <1>6, <2>1, PrecedesIs
<1>8. ASSUME NEW b, Precedes(s, u, b) PROVE b = w \/ Precedes(s, w, b)
  <2>1. b \in ToSet(s) /\ Place(s, u) < Place(s, b)
    BY <1>1, <1>8, PrecedesIs
  <2>2. Place(s, b) \in 1 .. Len(s) /\ s[Place(s, b)] = b
    BY <1>4, <2>1
  <2>3. Place(s, b) = i \/ i < Place(s, b)
    BY <1>4, <1>5, <1>6, <2>1, <2>2
  <2>4. CASE Place(s, b) = i
    BY <1>5, <2>2, <2>4
  <2>5. CASE i < Place(s, b)
    BY <1>1, <1>4, <2>1, <2>5, PrecedesIs DEF i
  <2> QED BY <2>3, <2>4, <2>5
<1> QED BY <1>7, <1>8 DEF co_lt, s, u

(* The places of a plain store: the end of coherence, and right before the  *)
(* stores that are not the write of an RMW.                                 *)
PlainPlacings(g, w, cos) ==
    /\ cos \in Seq(StoresOf(g, w)) /\ cos # <<>> /\ Last(cos) = co_max(g, Loc(g, w))
    /\ \A i \in DOMAIN Front(cos) :
          \E s \in ToSet(g.co[Loc(g, w)]) : ~IsRMWOp(g.lab[s].ins) /\ Front(cos)[i] = CoBefore(g, s)

(* All but the last one. *)
LEMMA FrontOf ==
  ASSUME NEW R, NEW a \in Seq(R), NEW b \in R, NEW q, q = a \o <<b>>
  PROVE  q \in Seq(R) /\ q # <<>> /\ Last(q) = b /\ Front(q) = a
<1>1. q \in Seq(R) /\ Len(q) = Len(a) + 1 /\ Len(a) \in Nat /\ q[Len(q)] = b /\ \A i \in 1 .. Len(a) : q[i] = a[i]
  OBVIOUS
<1>2. Last(q) = b /\ q # <<>>
  BY <1>1 DEF Last
<1>3. Front(q) = a
  <2>1. Front(q) = SubSeq(q, 1, Len(q) - 1) /\ Len(q) - 1 = Len(a)
    BY <1>1 DEF Front
  <2>2. SubSeq(q, 1, Len(a)) = [i \in 1 .. Len(a) |-> q[i]]
    BY <1>1
  <2>3. a = [i \in 1 .. Len(a) |-> a[i]]
    OBVIOUS
  <2> QED BY <1>1, <2>1, <2>2, <2>3
<1> QED BY <1>1, <1>2, <1>3

(* What the checker offers to a plain store. *)
LEMMA PlainPlacingsAre ==
  ASSUME CheckerOK, NEW p, NEW g, NEW X, GraphOK(p, g, X), NEW w \in Events(g), g.lab[w].typ = "W",
         ~IsRMWOp(g.lab[w].ins)
  PROVE  PlainPlacings(g, w, GetCoherentPlacings(g, w))
<1> DEFINE s == g.co[Loc(g, w)]
           R == StoresOf(g, w)
           cos == GetCoherentPlacings(g, w)
<1>1. PICK hb : \A x, e : GetCoherentPlacings(x, e) = CoherentPlacings(x, e, hb, FALSE)
  BY DEF CheckerOK
<1>2. /\ s \in Seq(ToSet(s)) /\ Len(s) \in Nat /\ DOMAIN s = 1 .. Len(s)
      /\ \A i \in DOMAIN s : s[i] \in ToSet(s)
      /\ \A e \in ToSet(s) : g.lab[e].typ = "W"
  BY CoOf
<1> DEFINE n == splitLocMOBefore(g, Loc(g, w), w, hb)
           range == SubSeq(s, n + 1, Len(s))
           T == {e \in ToSet(range) : ~IsRMWWrite(g, e)}
           plain == Kept(range, T)
           last == IF Len(s) = 0 THEN InitEvent ELSE s[Len(s)]
           a == RightBefore(g, plain)
<1>3. n \in 0 .. Len(s)
  BY <1>2, SplitIn
<1>4. cos = a \o <<last>>
  BY <1>1 DEF CoherentPlacings, IsRMWWrite
<1>5. last = co_max(g, Loc(g, w))
  <2> HIDE DEF s
  <2>1. Len(s) = 0 <=> s = <<>>
    BY <1>2
  <2> QED BY <2>1 DEF co_max, Last, s
<1>6. last \in R
  BY <1>5, CoMaxIsStore
<1>7. \A e \in ToSet(s) : CoBefore(g, e) \in R
  BY CoBeforeIn
<1> HIDE DEF n, R, last, cos
<1>8. range \in Seq(ToSet(s))
  <2> HIDE DEF s
  <2> QED BY <1>2, <1>3
<1> HIDE DEF range, T
<1>9. plain \in Seq(ToSet(s) \cap T)
  BY <1>8, KeptProperties
<1> HIDE DEF plain
<1>10. /\ DOMAIN plain = 1 .. Len(plain) /\ Len(plain) \in Nat
       /\ \A i \in DOMAIN plain : plain[i] \in ToSet(s) /\ ~IsRMWOp(g.lab[plain[i]].ins)
  <2>1. DOMAIN plain = 1 .. Len(plain) /\ Len(plain) \in Nat /\ \A i \in DOMAIN plain : plain[i] \in ToSet(s) \cap T
    BY <1>9
  <2> QED BY <1>2, <2>1 DEF T, IsRMWWrite
<1>11. a = [i \in DOMAIN plain |-> CoBefore(g, plain[i])]
  BY DEF RightBefore
<1> HIDE DEF a
<1>12. a \in Seq(R)
  BY <1>7, <1>10, <1>11
<1>13. cos \in Seq(R) /\ cos # <<>> /\ Last(cos) = last /\ Front(cos) = a
  BY <1>4, <1>6, <1>12, FrontOf
<1>14. \A i \in DOMAIN a : \E e \in ToSet(s) : ~IsRMWOp(g.lab[e].ins) /\ a[i] = CoBefore(g, e)
  BY <1>10, <1>11
<1> QED BY <1>5, <1>13, <1>14 DEF PlainPlacings, R, cos

(* The write of no RMW goes last in coherence. *)
LEMMA PlainWrite ==
  ASSUME NEW p, NEW g, NEW X, GraphOK(p, g, X), Paired(g), NEW w \in Events(g), g.lab[w].typ = "W",
         ~IsRMWOp(g.lab[w].ins)
  PROVE  \A b \in RMWReads(g) : NextOf(b) # w
<1> SUFFICES ASSUME NEW b \in RMWReads(g), NextOf(b) = w PROVE FALSE
  OBVIOUS
<1>1. b \in Events(g) /\ IsRMWOp(g.lab[b].ins)
  BY RMWParts
<1>2. w \in Writes(g)
  BY DEF Writes, OfType
<1>3. g.lab[w].ins = g.lab[b].ins
  BY <1>1, <1>2 DEF Paired
<1> QED BY <1>1, <1>3

(* A plain store that is placed last in coherence comes between no RMW and  *)
(* its store.                                                               *)
LEMMA PlacedAtMax ==
  ASSUME NEW p, NEW g, GraphOK(p, g, {}), NEW w, Placeable(g, w), ~IsRMWOp(g.lab[w].ins),
         NEW x, x.graph = g, ExecCalm(x), ItemsOK(g, x.workqueue),
         NEW pred, pred = co_max(g, Loc(g, w)), NEW m, m = addCo(g, w, pred),
         NEW y, y.graph = m, y.workqueue = x.workqueue
  PROVE  /\ ExecCalm(y) /\ GraphOK(p, m, {}) /\ Inserted(g, m, w, pred)
         /\ \A b \in RMWReads(m) : NextOf(b) # w
<1>1. /\ w \in Events(g) /\ w[2] > 0 /\ g.lab[w].typ = "W" /\ w \notin ToSet(g.co[Loc(g, w)])
      /\ \A e \in Events(g) : Stamp(g, e) <= Stamp(g, w)
  BY DEF Placeable, AtHand, IsNewest
<1>2. Paired(g) /\ Adjacent(g) /\ NoConflict(g) /\ ItemsAtomic(g, x.workqueue)
  BY DEF ExecCalm
<1>3. \A b \in RMWReads(g) : NextOf(b) # w
  BY <1>1, <1>2, PlainWrite
<1>4. pred \in StoresOf(g, w)
  BY <1>1, CoMaxIsStore
<1>5. pred # w
  <2>1. w # InitEvent
    BY <1>1 DEF InitEvent
  <2> QED BY <1>1, <1>4, <2>1 DEF StoresOf
<1>6. Inserted(g, m, w, pred)
  BY <1>1, <1>4, AddCoInserts
<1>7. GraphOK(p, m, {}) /\ CoGrows(g, m)
  BY <1>1, <1>4, AddCoOK
<1>8. Apart(g, w, pred)
  BY <1>1, <1>3, ApartLast
<1>9. InsertKeeps(g, m, w)
  BY <1>1, <1>2, <1>5, <1>6, <1>7, <1>8, InsertedKeeps
<1>10. ItemsOK(m, x.workqueue)
  <2>1. Keeps(g, m, Events(g))
    BY <1>7, CoGrowsKeeps
  <2> QED BY <2>1, KeptAll
<1>11. \A j \in DOMAIN x.workqueue : Stamp(g, CutEvent(x.workqueue[j])) <= Stamp(g, w)
  <2>1. \A j \in DOMAIN x.workqueue : CutEvent(x.workqueue[j]) \in Events(g)
    BY DEF ItemsOK, ItemOK, CutEvent
  <2> QED BY <1>1, <2>1
<1>12. ItemsAtomic(m, x.workqueue)
  BY <1>2, <1>9, <1>10, <1>11 DEF InsertKeeps
<1>13. Paired(m) /\ Adjacent(m) /\ NoConflict(m)
  BY <1>2, <1>9 DEF InsertKeeps
<1>14. RMWReads(m) = RMWReads(g)
  BY <1>6, TextRMWs DEF Inserted
<1> QED BY <1>3, <1>6, <1>7, <1>12, <1>13, <1>14 DEF ExecCalm

(* A place that is offered to a plain store is not right before the write   *)
(* of an RMW.                                                               *)
LEMMA PlacingAtomic ==
  ASSUME NEW p, NEW g, GraphOK(p, g, {}), NEW w, Placeable(g, w), ~IsRMWOp(g.lab[w].ins),
         NEW pred, NEW m, Inserted(g, m, w, pred),
         NEW s \in ToSet(g.co[Loc(g, w)]), ~IsRMWOp(g.lab[s].ins), NEW u, u = CoBefore(g, s)
  PROVE  COAtomic(m, w, u)
<1> DEFINE l == Loc(g, w)
<1>1. /\ w \in Events(g) /\ w[2] > 0 /\ g.lab[w].typ = "W" /\ w \notin ToSet(g.co[l])
      /\ \A e \in Events(g) : Stamp(g, e) <= Stamp(g, w)
  BY DEF Placeable, AtHand, IsNewest
<1>2. l \in Locs
  BY <1>1 DEF GraphOK, Texts, Loc
<1>3. SameText(g, m) /\ CoInserted(g, m, w, pred)
  BY DEF Inserted
<1>4. /\ \A e \in Events(g) : m.lab[e].ins = g.lab[e].ins /\ Stamp(m, e) = Stamp(g, e)
      /\ Loc(m, w) = l
  BY <1>1, <1>3 DEF SameText, Loc, Stamp
<1> HIDE DEF l
<1>5. /\ ToSet(m.co[l]) = ToSet(g.co[l]) \cup {w}
      /\ \A a, b : a # w /\ b # w => (co_lt(m, l, a, b) <=> co_lt(g, l, a, b))
  BY <1>3 DEF CoInserted, l
<1>6. /\ co_lt(g, l, u, s)
      /\ \A b : co_lt(g, l, u, b) => b = s \/ co_lt(g, l, s, b)
  BY <1>2, CoBeforeIs DEF l
<1>7. /\ ToSet(g.co[l]) \subseteq Events(g) /\ s \in ToSet(g.co[l]) /\ s # w
  BY <1>1, <1>2, CoIsCo DEF l
<1>8. u # w
  <2>1. u \in {InitEvent} \cup ToSet(g.co[l])
    BY <1>2, <1>6, StoreBefore
  <2>2. w # InitEvent
    BY <1>1 DEF InitEvent
  <2> QED BY <1>1, <2>1, <2>2
<1>9. s \in OlderIn(m, w)
  <2>1. Stamp(g, s) \in Nat /\ Stamp(g, w) \in Nat /\ Stamp(g, s) # Stamp(g, w)
    BY <1>1, <1>7, StampFacts DEF GraphOK, Stamps
  <2>2. Stamp(g, s) < Stamp(g, w)
    BY <1>1, <1>7, <2>1
  <2> QED BY <1>1, <1>4, <1>5, <1>7, <2>2 DEF OlderIn
<1>10. ASSUME NEW x \in OlderIn(m, w), co_lt(m, l, u, x), IsRMWOp(m.lab[x].ins)
       PROVE  co_lt(m, l, u, s) /\ co_lt(m, l, s, x)
  <2>1. x \in ToSet(m.co[l]) /\ x # w
    <3>1. x \in ToSet(m.co[l]) /\ Stamp(m, x) < Stamp(m, w)
      BY <1>4 DEF OlderIn
    <3>2. Stamp(m, w) \in Nat
      BY <1>1, <1>4, StampFacts
    <3> QED BY <3>1, <3>2
  <2>2. x \in ToSet(g.co[l])
    BY <1>5, <2>1
  <2>3. co_lt(g, l, u, x) /\ x # s
    BY <1>4, <1>5, <1>7, <1>8, <1>10, <2>1, <2>2
  <2>4. co_lt(g, l, s, x)
    BY <1>6, <2>3
  <2> QED BY <1>5, <1>6, <1>7, <1>8, <2>1, <2>4
<1>11. ~IsRMWOp(m.lab[w].ins)
  BY <1>1, <1>4
<1> QED BY <1>4, <1>9, <1>10, <1>11 DEF COAtomic

(* The items for the other places of a plain store. *)
LEMMA PlacingsAtomic ==
  ASSUME NEW p, NEW g, GraphOK(p, g, {}), NEW w, Placeable(g, w), ~IsRMWOp(g.lab[w].ins),
         NEW pred, NEW m, Inserted(g, m, w, pred), NEW cos, PlainPlacings(g, w, cos),
         NEW more, more = Alternatives("CO", w, Front(cos))
  PROVE  ItemsAtomic(m, more)
<1> SUFFICES ASSUME NEW j \in DOMAIN more PROVE ItemAtomic(m, more[j])
  BY DEF ItemsAtomic
<1>1. j \in DOMAIN Front(cos)
  BY DEF Alternatives
<1>2. more[j].kind = "CO" /\ more[j].pos = w /\ more[j].rev = Front(cos)[j]
  BY <1>1 DEF Alternatives, Item
<1>3. PICK s \in ToSet(g.co[Loc(g, w)]) : ~IsRMWOp(g.lab[s].ins) /\ Front(cos)[j] = CoBefore(g, s)
  BY <1>1 DEF PlainPlacings
<1>4. COAtomic(m, w, Front(cos)[j])
  BY <1>3, PlacingAtomic
<1> QED BY <1>2, <1>4 DEF ItemAtomic

(* A plain store is put last in coherence. *)
LEMMA PlaceLastCalm ==
  ASSUME CheckerOK, NEW p, ProgramOK(p), NEW x, ExecOK(p, x), NoDangling(x.graph), NEW w, Placeable(x.graph, w),
         ~IsRMWOp(x.graph.lab[w].ins), NEW cos, PlainPlacings(x.graph, w, cos), ExecCalm(x)
  PROVE  ExecCalm(PlaceLast(x, w, cos))
<1> DEFINE g == x.graph
           R == StoresOf(g, w)
           pred == Last(cos)
           m == addCo(g, w, pred)
           more == Alternatives("CO", w, Front(cos))
           z == [graph |-> m, workqueue |-> x.workqueue \o more]
           v == [graph |-> m, workqueue |-> x.workqueue]
<1>1. PlaceLast(x, w, cos) = calcRevisits(z, w)
  BY DEF PlaceLast
<1>2. cos \in Seq(R) /\ cos # <<>> /\ pred = co_max(g, Loc(g, w))
  BY DEF PlainPlacings
<1>3. pred \in R /\ Front(cos) \in Seq(R)
  <2> HIDE DEF R
  <2>1. Len(cos) \in Nat \ {0}
    BY <1>2
  <2>2. Front(cos) = SubSeq(cos, 1, Len(cos) - 1) /\ pred = cos[Len(cos)]
    BY DEF Front, Last
  <2> QED BY <1>2, <2>1, <2>2
<1>4. ExecOK(p, z) /\ IsPlaced(x, w, z)
  <2> HIDE DEF R, pred
  <2> QED BY <1>3, PlacedOK DEF R
<1>5. GraphOK(p, g, {}) /\ ItemsOK(g, x.workqueue) /\ IsSeq(x.workqueue)
  BY DEF ExecOK, ItemsOK
<1>6. z.graph = m /\ z.workqueue = x.workqueue \o more /\ v.graph = m /\ v.workqueue = x.workqueue
  OBVIOUS
<1> HIDE DEF pred, m, z, v
<1>7. ExecCalm(v) /\ Inserted(g, m, w, pred) /\ \A b \in RMWReads(m) : NextOf(b) # w
  BY <1>2, <1>5, <1>6, PlacedAtMax DEF m
<1>8. ItemsAtomic(m, more)
  BY <1>5, <1>7, PlacingsAtomic
<1>9. IsSeq(more)
  BY <1>3, AlternativesAre
<1> HIDE DEF more
<1>10. ItemsAtomic(z.graph, z.workqueue)
  BY <1>5, <1>6, <1>7, <1>8, <1>9, BothAtomic DEF ExecCalm
<1>11. /\ w \in Events(z.graph) /\ z.graph.lab[w].typ = "W" /\ w \in ToSet(z.graph.co[Loc(z.graph, w)])
       /\ Youngest(z.graph, w) /\ NoDangling(z.graph)
  BY <1>4 DEF IsPlaced
<1>12. Paired(z.graph) /\ Adjacent(z.graph) /\ NoConflict(z.graph)
  BY <1>6, <1>7 DEF ExecCalm
<1>13. JustPlaced(z.graph, w)
  BY <1>11, <1>12 DEF JustPlaced, NoConflict, NoConflictBut
<1>14. Independent(z.graph, w)
  BY <1>6, <1>7 DEF Independent
<1>15. LET y == calcRevisits(z, w) IN ExecAtomic(y) /\ NoConflict(y.graph)
  BY <1>4, <1>10, <1>11, <1>12, <1>13, <1>14, CalcAtomic
<1> QED BY <1>1, <1>15 DEF ExecAtomic, GraphAtomic, ExecCalm

(* A store that was placed: if it competes the execution is moot. *)
LEMMA StorePlacedCalm ==
  ASSUME CheckerOK, NEW p, NEW d, ContextOK(p, d), d.internal = NoError, NEW w, NEW cos,
         NEW y, y = PlaceLast(d.x, w, cos), ExecOK(p, y), AtHand(y.graph, w),
         ExecAtomic(y), NoConflictBut(y.graph, w)
  PROVE  Calms(StorePlaced(d, w, cos))
<1> DEFINE d1 == [d EXCEPT !.x = y]
           d2 == StoreRaces(d1, w)
           st == onATStore(d2.st, w, Loc(d2.x.graph, w), HbView(d2.x.graph, w))
           c == [d2 EXCEPT !.st = st]
<1>1. c = StorePlaced(d, w, cos)
  BY DEF StorePlaced, StoreKnown
<1> HIDE DEF st
<1>2. ContextOK(p, d1) /\ d1.x = y /\ d1.internal = NoError
  BY DEF ContextOK
<1> HIDE DEF d1
<1>3. ContextOK(p, d2) /\ Calms(d2)
  <2>1. CASE violatesAtomicity(d1.x.graph, w)
    <3>1. d2 = [d1 EXCEPT !.moot = TRUE]
      BY <2>1 DEF StoreRaces
    <3>2. ContextOK(p, d2) /\ d2.x = d1.x /\ d2.moot /\ d2.internal = d1.internal
      BY <1>2, <3>1 DEF ContextOK
    <3> HIDE DEF d2
    <3> QED BY <1>2, <3>2 DEF Calms
  <2>2. CASE ~violatesAtomicity(d1.x.graph, w)
    <3>1. d2 = checkForRaces(d1, w)
      BY <2>2 DEF StoreRaces
    <3>2. GraphOK(p, y.graph, {}) /\ Paired(y.graph) /\ Adjacent(y.graph) /\ ItemsAtomic(y.graph, y.workqueue)
      BY DEF ExecOK, ExecAtomic, GraphAtomic
    <3>3. NoConflict(y.graph)
      BY <1>2, <2>2, <3>2, NoPending
    <3>4. ExecCalm(d1.x) /\ AtHand(d1.x.graph, w)
      BY <1>2, <3>2, <3>3 DEF ExecCalm
    <3>5. Reported(p, d1, d2)
      BY <1>2, <3>1, <3>4, RacesOK
    <3>6. ExecCalm(d2.x)
      BY <1>2, <3>1, <3>4, RacesCalm
    <3> HIDE DEF d2
    <3>7. ExecAtomic(d2.x) /\ NoConflict(d2.x.graph)
      BY <3>6, CalmIsAtomic
    <3>8. ContextOK(p, d2) /\ d2.internal = NoError
      BY <1>2, <3>5 DEF Reported
    <3> QED BY <3>7, <3>8 DEF Calms
  <2> QED BY <2>1, <2>2
<1> HIDE DEF d2
<1>4. c.x = d2.x /\ c.moot = d2.moot /\ c.internal = d2.internal
  BY <1>3 DEF ContextOK
<1> HIDE DEF c
<1> QED BY <1>1, <1>3, <1>4 DEF Calms

(* A plain store completes no RMW. *)
LEMMA PlainCompletes ==
  ASSUME NEW p, NEW g, GraphOK(p, g, {}), NEW l, l.typ = "W", StoreText(p, g, l)
  PROVE  ~IsRMWOp(l.ins) /\ \A r : ~Completes(g, l, r)
<1>1. l.ins = CodeOf(p, g, l.pos[1])[l.ip] /\ l.ins.op \in {"W", "COPY"}
  BY DEF StoreText
<1>2. ~IsRMWOp(l.ins)
  BY <1>1 DEF IsRMWOp
<1>3. ASSUME NEW r, Completes(g, l, r) PROVE FALSE
  <2>1. r \in Reads(g) /\ NextOf(r) = l.pos /\ IsRMWOp(g.lab[r].ins) /\ l.ip = g.lab[r].ip
    BY <1>3 DEF Completes
  <2>2. r \in Nat \X Nat /\ r \in Events(g) /\ g.lab[r].typ = "R"
    BY <2>1, EventsArePairs DEF Reads, OfType
  <2>3. l.pos[1] = r[1]
    BY <2>1, <2>2 DEF NextOf
  <2>4. g.lab[r].ins = CodeOf(p, g, r[1])[g.lab[r].ip]
    BY <2>2 DEF GraphOK, Texts
  <2>5. l.ins = g.lab[r].ins
    BY <1>1, <2>1, <2>3, <2>4
  <2> QED BY <1>2, <2>1, <2>5
<1> QED BY <1>2, <1>3

(* The places stay the same when a warning is pushed. *)
LEMMA SamePlacings ==
  ASSUME NEW g, NEW h, SameReads(g, h), NEW w, AtHand(g, w), NEW cos, PlainPlacings(g, w, cos),
         ToSet(g.co[Loc(g, w)]) \subseteq Events(g)
  PROVE  PlainPlacings(h, w, cos) /\ h.lab[w].ins = g.lab[w].ins
<1> DEFINE S == ToSet(g.co[Loc(g, w)])
<1>1. h.co = g.co /\ Loc(h, w) = Loc(g, w)
  BY SameReadsAtHand
<1>2. w \in Events(g) /\ \A e \in Events(g) : h.lab[e].ins = g.lab[e].ins
  BY DEF AtHand, IsNewest, SameReads, SameText
<1>3. StoresOf(h, w) = StoresOf(g, w) /\ co_max(h, Loc(h, w)) = co_max(g, Loc(g, w))
  BY <1>1 DEF StoresOf, co_max
<1>4. ASSUME NEW s \in S PROVE h.lab[s].ins = g.lab[s].ins /\ CoBefore(h, s) = CoBefore(g, s)
  <2>1. s \in Events(g)
    OBVIOUS
  <2>2. h.lab[s].ins = g.lab[s].ins
    BY <1>2, <2>1
  <2>3. Loc(h, s) = Loc(g, s)
    BY <2>2 DEF Loc
  <2>4. CoIndex(h, s, Loc(h, s)) = CoIndex(g, s, Loc(g, s))
    BY <1>1, <2>3 DEF CoIndex
  <2> QED BY <1>1, <2>2, <2>3, <2>4 DEF CoBefore
<1>5. /\ cos \in Seq(StoresOf(h, w)) /\ cos # <<>> /\ Last(cos) = co_max(h, Loc(h, w))
  BY <1>3 DEF PlainPlacings
<1>6. ASSUME NEW i \in DOMAIN Front(cos)
      PROVE  \E s \in ToSet(h.co[Loc(h, w)]) : ~IsRMWOp(h.lab[s].ins) /\ Front(cos)[i] = CoBefore(h, s)
  <2>1. PICK s \in S : ~IsRMWOp(g.lab[s].ins) /\ Front(cos)[i] = CoBefore(g, s)
    BY DEF PlainPlacings
  <2> QED BY <1>1, <1>4, <2>1
<1> QED BY <1>2, <1>5, <1>6 DEF PlainPlacings

(* A plain store is put last in coherence, with the others to come. *)
LEMMA PlainStoreCalm ==
  ASSUME CheckerOK, NEW p, ProgramOK(p), NEW d, ContextOK(p, d), d.internal = NoError, NoDangling(d.x.graph),
         NEW l, LabelOK(p, d.x.graph, l), Extends(p, d.x.graph, l), l.pos \notin Events(d.x.graph), l.typ = "W",
         ExecSettled(d.x), l.revisitable, StoreText(p, d.x.graph, l), ExecCalm(d.x)
  PROVE  Calms(handleStore(d, l))
<1> DEFINE g == d.x.graph
           w == l.pos
           d1 == SetGraph(d, addLabelToGraph(g, l))
           h == d1.x.graph
           err == StoreError(h, d1.st, w)
           cos == GetCoherentPlacings(h, w)
           d2 == IF Len(cos) > 1 THEN reportWarningOnce(d1, w) ELSE d1
           c == handleStore(d, l)
<1>1. c = IF err # NoError THEN reportError(d1, err) ELSE StorePlaced(d2, w, cos)
  BY DEF handleStore, StoreAdded, StoreWarned
<1>2. /\ ContextOK(p, d1) /\ NoDangling(d1.x.graph) /\ Placeable(d1.x.graph, l.pos) /\ Appended(g, d1.x.graph, l)
      /\ d1.internal = d.internal
  BY WriteAdded
<1>3. ~IsRMWOp(l.ins) /\ \A r : ~Completes(d.x.graph, l, r)
  BY PlainCompletes DEF ContextOK, ExecOK
<1>4. ExecCalm(d1.x)
  BY <1>2, <1>3, AddedCalm
<1> HIDE DEF d1
<1>5. GraphOK(p, h, {}) /\ AtHand(h, w) /\ w \in Events(h) /\ h.lab[w].typ = "W" /\ ~IsRMWOp(h.lab[w].ins)
  BY <1>2, <1>3 DEF ContextOK, ExecOK, Placeable, AtHand, IsNewest, Appended
<1>6. CASE err # NoError
  <2> HIDE DEF err
  <2>1. c = reportError(d1, err)
    BY <1>1, <1>6
  <2>2. ExecCalm(c.x) /\ c.internal = d1.internal
    BY <1>2, <1>4, <1>5, <1>6, <2>1, ErrorCalm, ReportErrorOK
  <2> HIDE DEF c
  <2>3. ExecAtomic(c.x) /\ NoConflict(c.x.graph)
    BY <2>2, CalmIsAtomic
  <2> QED BY <1>2, <2>2, <2>3 DEF Calms, c
<1>7. CASE err = NoError
  <2>1. PlainPlacings(h, w, cos)
    BY <1>5, PlainPlacingsAre
  <2>2. Reported(p, d1, d2) /\ ExecCalm(d2.x)
    <3>1. CASE Len(cos) > 1
      BY <1>2, <1>4, <1>5, <3>1, WarningOK, WarningCalm
    <3>2. CASE ~(Len(cos) > 1)
      BY <1>2, <1>4, <1>5, <3>2, NothingReported
    <3> QED BY <3>1, <3>2
  <2>3. c = StorePlaced(d2, w, cos)
    BY <1>1, <1>7
  <2> HIDE DEF cos, d2, c, err
  <2>4. ContextOK(p, d2) /\ SameReads(h, d2.x.graph) /\ d2.internal = NoError
    BY <1>2, <2>2 DEF Reported
  <2> DEFINE k == d2.x.graph
             y == PlaceLast(d2.x, w, cos)
  <2>5. NoDangling(k)
    BY <1>2, <2>4, SameReadsDangling
  <2>6. Placeable(k, w)
    <3>1. AtHand(k, w) /\ k.lab[w].typ = h.lab[w].typ /\ k.co = h.co /\ Loc(k, w) = Loc(h, w)
      BY <1>5, <2>4, SameReadsAtHand
    <3> QED BY <1>2, <3>1 DEF Placeable
  <2>7. ToSet(h.co[Loc(h, w)]) \subseteq Events(h)
    BY <1>5, CoOf
  <2> HIDE DEF h
  <2>8. PlainPlacings(k, w, cos) /\ ~IsRMWOp(k.lab[w].ins)
    BY <1>5, <2>1, <2>4, <2>7, SamePlacings
  <2> HIDE DEF w
  <2>9. ExecOK(p, d2.x) /\ cos \in Seq(StoresOf(k, w)) /\ cos # <<>>
    BY <2>4, <2>8 DEF ContextOK, PlainPlacings
  <2>10. ExecOK(p, y) /\ AtHand(y.graph, w)
    BY <2>5, <2>6, <2>9, PlaceLastOK
  <2>11. ExecCalm(y)
    BY <2>2, <2>5, <2>6, <2>8, <2>9, PlaceLastCalm
  <2>12. ExecAtomic(y) /\ NoConflictBut(y.graph, w)
    BY <2>11, CalmIsAtomic DEF NoConflict, NoConflictBut
  <2> HIDE DEF k
  <2> QED BY <2>3, <2>4, <2>10, <2>12, StorePlacedCalm DEF c
<1> QED BY <1>6, <1>7

(* So is a non-atomic one. *)
LEMMA NAStoreCalm ==
  ASSUME CheckerOK, NEW p, NEW d, ContextOK(p, d), ~d.moot, d.internal = NoError, NoDangling(d.x.graph),
         NEW l, LabelOK(p, d.x.graph, l), Extends(p, d.x.graph, l), l.pos \notin Events(d.x.graph), l.typ = "W",
         ExecSettled(d.x), l.revisitable, StoreText(p, d.x.graph, l), ExecCalm(d.x)
  PROVE  Calms(handleNAStore(d, l))
<1> DEFINE w == l.pos
           d1 == SetGraph(d, addLabelToGraph(d.x.graph, l))
           h == d1.x.graph
           err == StoreError(d1.x.graph, d1.st, w)
           d2 == Checked(d1, w, err)
           k == d2.x.graph
           c == handleNAStore(d, l)
<1>1. c = NAStoreChecked(d2, w)
  BY DEF handleNAStore, NAStoreAdded
<1>2. /\ ContextOK(p, d1) /\ Placeable(d1.x.graph, w) /\ d1.internal = d.internal
      /\ Appended(d.x.graph, d1.x.graph, l)
  BY WriteAdded
<1>3. ~IsRMWOp(l.ins) /\ \A r : ~Completes(d.x.graph, l, r)
  BY PlainCompletes DEF ContextOK, ExecOK
<1>4. ExecCalm(d1.x)
  BY <1>2, <1>3, AddedCalm
<1> HIDE DEF d1, err
<1>5. AtHand(h, w) /\ w \in Events(h) /\ ~IsRMWOp(h.lab[w].ins)
  BY <1>2, <1>3 DEF Placeable, AtHand, IsNewest, Appended
<1>6. Reported(p, d1, d2) /\ ExecCalm(d2.x)
  BY <1>2, <1>4, <1>5, CheckedOK, CheckedCalm
<1> HIDE DEF d2, c
<1>7. ContextOK(p, d2) /\ SameReads(h, k) /\ d2.internal = NoError
  BY <1>2, <1>6 DEF Reported
<1>8. CASE d2.moot
  <2>1. c = d2
    BY <1>1, <1>8 DEF NAStoreChecked
  <2>2. ExecAtomic(d2.x) /\ NoConflict(d2.x.graph)
    BY <1>6, CalmIsAtomic
  <2> QED BY <1>7, <2>1, <2>2 DEF c, Calms
<1>9. CASE ~d2.moot
  <2> DEFINE pred == co_max(k, Loc(k, w))
             m == addCo(k, w, pred)
             st == onNAStore(d2.st, w, Loc(k, w), HbView(k, w))
  <2>1. c = [d2 EXCEPT !.st = st, !.x.graph = m]
    BY <1>1, <1>9 DEF NAStoreChecked
  <2>2. GraphOK(p, k, {}) /\ DOMAIN d2.x = {"graph", "workqueue"} /\ ItemsOK(k, d2.x.workqueue)
    BY <1>7 DEF ContextOK, ExecOK
  <2>3. Placeable(k, w) /\ ~IsRMWOp(k.lab[w].ins)
    <3>1. AtHand(k, w) /\ k.lab[w].typ = h.lab[w].typ /\ k.co = h.co /\ Loc(k, w) = Loc(h, w)
      BY <1>5, <1>7, SameReadsAtHand
    <3>2. k.lab[w].ins = h.lab[w].ins
      BY <1>5, <1>7 DEF SameReads, SameText
    <3> QED BY <1>2, <1>5, <3>1, <3>2 DEF Placeable
  <2> HIDE DEF m, st
  <2>4. c.x.graph = m /\ c.x.workqueue = d2.x.workqueue /\ c.internal = d2.internal
    <3>1. c = [d2 EXCEPT !.st = st, !.x = [d2.x EXCEPT !.graph = m]]
      BY <1>7, <2>1 DEF ContextOK
    <3>2. c.x = [d2.x EXCEPT !.graph = m] /\ c.internal = d2.internal
      BY <1>7, <3>1 DEF ContextOK
    <3> QED BY <2>2, <3>2
  <2> HIDE DEF pred
  <2>5. d2.x.graph = k /\ pred = co_max(k, Loc(k, w)) /\ m = addCo(k, w, pred)
    BY DEF m, pred
  <2> HIDE DEF k, w
  <2>6. ExecCalm(c.x)
    BY <1>6, <2>2, <2>3, <2>4, <2>5, PlacedAtMax
  <2>7. ExecAtomic(c.x) /\ NoConflict(c.x.graph)
    BY <2>6, CalmIsAtomic
  <2> QED BY <1>7, <2>4, <2>7 DEF c, Calms
<1> QED BY <1>8, <1>9

(* The write of an RMW whose load is at the end. *)
LEMMA WriteCompletes ==
  ASSUME CheckerOK, NEW p, NEW h, GraphOK(p, h, {}), NEW r \in Events(h), h.lab[r].typ = "R", IsLast(h, r),
         h.lab[r].ins.op # "R", NEW w, w = h.lab[r].rf, w \in StoresOf(h, r),
         NEW l, l = RMWWriteLabel(h, r), NEW k, k = addLabelToGraph(h, l), NEW m, m = addCo(k, l.pos, w)
  PROVE  ReadCompletes(p, h, r, w, l, k, m) /\ Stays(h, k)
<1> DEFINE s == l.pos
<1>1. /\ LabelOK(p, h, l) /\ Extends(p, h, l) /\ l.pos \notin Events(h) /\ l.typ = "W"
      /\ l.pos = NextOf(r) /\ l.ins = h.lab[r].ins
  BY WriteAfterRead DEF NextOf
<1>2. l.revisitable
  BY NewLabelsRevisitable
<1>3. GraphOK(p, k, {}) /\ Appended(h, k, l)
  BY <1>1, LabelAppends
<1>4. Stays(h, k)
  <2>1. DOMAIN l = LabelFields
    BY <1>1 DEF LabelOK
  <2>2. Shape(h) /\ Stamps(h)
    BY DEF GraphOK
  <2>3. k.lab[l.pos].revisitable
    BY <1>1, <1>2, <2>1, <2>2, AddedLabels
  <2> QED BY <1>3, <2>3, AppendStays
<1>5. /\ s \in Events(k) /\ k.lab[s].typ = "W" /\ Loc(k, s) = Loc(h, r) /\ k.co = h.co /\ Loc(h, r) \in Locs
      /\ IsNewest(k, s)
  <2>1. k.lab[s].ins = h.lab[r].ins
    BY <1>1, <1>3 DEF Appended
  <2>2. Loc(h, r) \in Locs
    BY DEF GraphOK, Texts, Loc
  <2> QED BY <1>1, <1>3, <2>1, <2>2 DEF Appended, Loc
<1>6. s \notin ToSet(k.co[Loc(k, s)])
  BY <1>1, <1>5, CoIsCo
<1>7. w \in StoresOf(k, s)
  BY <1>5 DEF StoresOf
<1> HIDE DEF s
<1>8. CoGrows(k, m) /\ GraphOK(p, m, {}) /\ s \in ToSet(m.co[Loc(k, s)]) /\ m.lab = k.lab
  BY <1>3, <1>5, <1>6, <1>7, AddCoOK DEF s
<1>9. Youngest(m, s)
  <2>1. IsNewest(m, s)
    BY <1>5, <1>8 DEF IsNewest, CoGrows, SameText, Stamp
  <2> QED BY <2>1, NewestYoungest
<1>10. s \in Events(m) /\ m.lab[s].typ = "W" /\ s \in ToSet(m.co[Loc(m, s)])
  BY <1>5, <1>8 DEF Loc, Events
<1> QED BY <1>1, <1>3, <1>4, <1>6, <1>7, <1>8, <1>9, <1>10 DEF ReadCompletes, s

(* An RMW's write has one place. *)
LEMMA OnePlacing ==
  ASSUME CheckerOK, NEW g, NEW w, g.lab[w].typ = "W", IsRMWOp(g.lab[w].ins)
  PROVE  GetCoherentPlacings(g, w) = <<g.lab[<<w[1], w[2] - 1>>].rf>>
<1>1. PICK hb : \A x, e : GetCoherentPlacings(x, e) = CoherentPlacings(x, e, hb, FALSE)
  BY DEF CheckerOK
<1>2. IsRMWWrite(g, w)
  BY DEF IsRMWWrite
<1> QED BY <1>1, <1>2 DEF CoherentPlacings

(* One place leaves none to push. *)
LEMMA NothingPushed ==
  ASSUME NEW u, NEW w, NEW q, IsSeq(q)
  PROVE  /\ Last(<<u>>) = u /\ Front(<<u>>) = <<>> /\ Len(<<u>>) = 1
         /\ q \o Alternatives("CO", w, Front(<<u>>)) = q
<1>1. Last(<<u>>) = u /\ Len(<<u>>) = 1
  BY DEF Last
<1>2. Front(<<u>>) = <<>>
  BY DEF Front
<1>3. Alternatives("CO", w, <<>>) = <<>>
  BY DEF Alternatives
<1>4. q \o <<>> = q
  <2>1. PICK R : q \in Seq(R)
    BY DEF IsSeq
  <2> QED BY <2>1
<1> QED BY <1>1, <1>2, <1>3, <1>4

(* The write of an RMW is put after the store that it reads. *)
LEMMA PlaceRMWCalm ==
  ASSUME CheckerOK, NEW p, ProgramOK(p), NEW h, GraphOK(p, h, {}), NEW r \in Events(h), h.lab[r].typ = "R",
         IsRMWOp(h.lab[r].ins), NEW w, h.lab[r].rf = w,
         NEW l, NEW k, NEW m, ReadCompletes(p, h, r, w, l, k, m), Stays(h, k), IsNewest(h, r),
         NEW x, ExecCalm(x), x.graph = h, ItemsOK(h, x.workqueue), Clear(h, r),
         NEW y, ExecOK(p, y), y.graph = k, y.workqueue = x.workqueue, NoDangling(k), Placeable(k, l.pos),
         NEW cos, cos = <<w>>
  PROVE  LET z == PlaceLast(y, l.pos, cos)
         IN ExecOK(p, z) /\ AtHand(z.graph, l.pos) /\ ExecAtomic(z) /\ NoConflictBut(z.graph, l.pos)
<1> DEFINE s == l.pos
           R == StoresOf(k, s)
           q == x.workqueue
           v == [graph |-> m, workqueue |-> q]
           z == PlaceLast(y, s, cos)
<1>1. m = addCo(k, s, w) /\ w \in R
  BY DEF ReadCompletes
<1>2. IsSeq(q)
  BY DEF ItemsOK
<1>3. Last(cos) = w /\ Front(cos) = <<>> /\ q \o Alternatives("CO", s, Front(cos)) = q
  BY <1>2, NothingPushed
<1> HIDE DEF s, R, q
<1>4. v = [graph |-> addCo(y.graph, s, Last(cos)), workqueue |-> y.workqueue \o Alternatives("CO", s, Front(cos))]
  BY <1>1, <1>3 DEF q
<1>5. z = calcRevisits(v, s)
  BY <1>4 DEF PlaceLast
<1>6. cos \in Seq(R) /\ cos # <<>> /\ Front(cos) \in Seq(R)
  BY <1>1, <1>3
<1>7. ExecOK(p, z) /\ AtHand(z.graph, s)
  <2>1. cos \in Seq(StoresOf(y.graph, s)) /\ NoDangling(y.graph) /\ Placeable(y.graph, s)
    BY <1>6 DEF R, s
  <2> QED BY <1>6, <2>1, PlaceLastOK
<1>8. ExecOK(p, v) /\ NoDangling(v.graph)
  <2>1. /\ Last(cos) \in StoresOf(y.graph, s) /\ Front(cos) \in Seq(StoresOf(y.graph, s))
        /\ NoDangling(y.graph) /\ Placeable(y.graph, s)
    BY <1>1, <1>3, <1>6 DEF R, s
  <2> HIDE DEF v
  <2>2. ExecOK(p, v) /\ IsPlaced(y, s, v)
    BY <1>4, <2>1, PlacedOK
  <2> QED BY <2>2 DEF IsPlaced
<1>9. v.graph = m /\ v.workqueue = q
  OBVIOUS
<1> HIDE DEF v, z
<1>10. ItemsOK(h, v.workqueue) /\ ItemsAtomic(h, v.workqueue) /\ Paired(h) /\ Adjacent(h) /\ NoConflict(h)
  BY <1>9 DEF ExecCalm, q
<1>11. \A j \in DOMAIN v.workqueue : Stamp(h, CutEvent(v.workqueue[j])) <= Stamp(h, r)
  <2>1. \A j \in DOMAIN v.workqueue : CutEvent(v.workqueue[j]) \in Events(h)
    BY <1>10 DEF ItemsOK, ItemOK, CutEvent
  <2> QED BY <2>1 DEF IsNewest
<1>12. Ipr => NoDangling(m)
  BY <1>8, <1>9
<1>13. RMWPlaced(h, w, l.pos, calcRevisits(v, l.pos))
  BY <1>8, <1>9, <1>10, <1>11, <1>12, CompleteAndCalc
<1>14. ExecAtomic(z) /\ NoConflictBut(z.graph, s)
  BY <1>5, <1>13 DEF RMWPlaced, s
<1> QED BY <1>7, <1>14 DEF z, s

(* handleStore() for the write of an RMW whose load was added last. *)
LEMMA RMWStoreCalm ==
  ASSUME CheckerOK, NEW p, ProgramOK(p), NEW d, ContextOK(p, d), d.internal = NoError, NoDangling(d.x.graph),
         NEW h, h = d.x.graph, NEW r \in Events(h), h.lab[r].typ = "R", IsLast(h, r), IsNewest(h, r),
         IsRMWOp(h.lab[r].ins), h.lab[r].ins.op # "R", h.lab[r].rf \in StoresOf(h, r), ExecCalm(d.x), Clear(h, r),
         NEW l, l = RMWWriteLabel(h, r)
  PROVE  Calms(handleStore(d, l))
<1> DEFINE w == h.lab[r].rf
           s == l.pos
           k == addLabelToGraph(h, l)
           m == addCo(k, s, w)
           d1 == SetGraph(d, k)
           err == StoreError(d1.x.graph, d1.st, s)
           cos == GetCoherentPlacings(d1.x.graph, s)
           d2 == IF Len(cos) > 1 THEN reportWarningOnce(d1, s) ELSE d1
           c == handleStore(d, l)
<1>1. c = IF err # NoError THEN reportError(d1, err) ELSE StorePlaced(d2, s, cos)
  BY DEF handleStore, StoreAdded, StoreWarned
<1>2. GraphOK(p, h, {}) /\ ItemsOK(h, d.x.workqueue)
  BY DEF ContextOK, ExecOK
<1>3. ReadCompletes(p, h, r, w, l, k, m) /\ Stays(h, k)
  BY <1>2, WriteCompletes
<1>4. /\ LabelOK(p, h, l) /\ Extends(p, h, l) /\ s \notin Events(h) /\ l.typ = "W" /\ s = NextOf(r)
      /\ l.ins = h.lab[r].ins /\ Appended(h, k, l)
  BY <1>3 DEF ReadCompletes
<1> HIDE DEF w, m
<1>5. /\ ContextOK(p, d1) /\ d1.internal = d.internal /\ NoDangling(d1.x.graph) /\ Placeable(d1.x.graph, s)
  BY <1>4, WriteAdded
<1>6. d1.x.graph = k /\ d1.x.workqueue = d.x.workqueue
  BY SetGraphIs
<1> HIDE DEF d1, k
<1>7. AtHand(d1.x.graph, s)
  BY <1>5 DEF Placeable
<1>8. CASE err # NoError
  <2> HIDE DEF err
  <2>1. c = reportError(d1, err)
    BY <1>1, <1>8
  <2>2. c.moot /\ ErrorLast(c.x) /\ c.internal = NoError
    BY <1>5, <1>7, <1>8, <2>1, ReportErrorOK
  <2> QED BY <2>2 DEF Calms, c
<1>9. CASE err = NoError
  <2>1. cos = <<w>>
    <3>1. k.lab[s].typ = "W" /\ k.lab[s].ins = h.lab[r].ins /\ k.lab[r] = h.lab[r]
      BY <1>4 DEF Appended
    <3>2. <<s[1], s[2] - 1>> = r
      <4>1. r[1] \in Nat /\ r[2] \in Nat /\ r = <<r[1], r[2]>>
        BY <1>2, ThreadOf
      <4>2. s[1] = r[1] /\ s[2] - 1 = r[2]
        BY <1>4, <4>1 DEF NextOf
      <4> QED BY <4>1, <4>2
    <3>3. GetCoherentPlacings(k, s) = <<k.lab[<<s[1], s[2] - 1>>].rf>>
      BY <3>1, OnePlacing
    <3> QED BY <1>6, <3>1, <3>2, <3>3 DEF w
  <2> HIDE DEF cos, err
  <2>2. d2 = d1
    BY <2>1
  <2>3. c = StorePlaced(d1, s, cos)
    BY <1>1, <1>9, <2>2
  <2> HIDE DEF c
  <2> DEFINE y == PlaceLast(d1.x, s, cos)
  <2>4. ExecOK(p, d1.x) /\ NoDangling(k) /\ Placeable(k, s)
    BY <1>5, <1>6 DEF ContextOK
  <2>5. ExecOK(p, y) /\ AtHand(y.graph, s) /\ ExecAtomic(y) /\ NoConflictBut(y.graph, s)
    <3>1. h.lab[r].rf = w /\ d.x.graph = h
      BY DEF w
    <3> QED BY <1>2, <1>3, <1>6, <2>1, <2>4, <3>1, PlaceRMWCalm
  <2> HIDE DEF s
  <2>6. Calms(StorePlaced(d1, s, cos))
    BY <1>5, <2>5, StorePlacedCalm
  <2> QED BY <2>3, <2>6 DEF c
<1> QED BY <1>8, <1>9

(* An RMW: the load and, if it succeeds, the store. *)
LEMMA RMWCalm ==
  ASSUME CheckerOK, NEW p, ProgramOK(p), NEW d, ContextOK(p, d), ~d.moot, d.internal = NoError, NoDangling(d.x.graph),
         NEW l, LabelOK(p, d.x.graph, l), Extends(p, d.x.graph, l), l.pos \notin Events(d.x.graph), l.typ = "R",
         l.ins.op # "R", ExecSettled(d.x), l.revisitable, Whole(d.x.graph, {}), ExecCalm(d.x)
  PROVE  Calms(handleRMW(d, l))
<1> DEFINE r == l.pos
           d1 == handleLoad(d, l)
           g == d1.x.graph
           m == RMWWriteLabel(g, r)
           c == handleRMW(d, l)
<1>1. c = AfterRMWLoad(d1, r)
  BY DEF handleRMW
<1>2. Handles(p, d1) /\ (~d1.moot /\ d1.internal = NoError => NoDangling(g) /\ ReadAtEnd(g, r, l.ins))
  BY LoadOK
<1>3. Loaded(d1, l) /\ LoadedCalm(d1, l)
  BY LoadWhole, LoadCalm
<1> HIDE DEF d1
<1>4. d1.internal = NoError /\ ExecCalm(d1.x) /\ ExecAtomic(d1.x) /\ NoConflict(d1.x.graph)
  BY <1>3, CalmIsAtomic DEF LoadedCalm
<1>5. CASE d1.moot \/ ~valueMakesRMWSucceed(g, r, ReadValue(g, r))
  <2>1. c = d1
    BY <1>1, <1>5 DEF AfterRMWLoad
  <2> QED BY <1>4, <2>1 DEF Calms
<1>6. CASE ~d1.moot /\ valueMakesRMWSucceed(g, r, ReadValue(g, r))
  <2>1. c = handleStore(d1, m)
    BY <1>1, <1>4, <1>6 DEF AfterRMWLoad
  <2>2. /\ NoDangling(g) /\ r \in Events(g) /\ g.lab[r].typ = "R" /\ IsLast(g, r) /\ g.lab[r].ins = l.ins
        /\ g.lab[r].rf \in StoresOf(g, r)
    BY <1>2, <1>4, <1>6 DEF ReadAtEnd
  <2>3. IsNewest(g, r) /\ Clear(g, r)
    BY <1>3, <1>4, <1>6 DEF Loaded, LoadedCalm
  <2>4. ContextOK(p, d1)
    BY <1>2 DEF Handles
  <2>5. IsRMWOp(g.lab[r].ins)
    BY <1>6 DEF valueMakesRMWSucceed, IsRMWOp
  <2> HIDE DEF m, r, c
  <2>6. g = d1.x.graph /\ NoDangling(d1.x.graph) /\ g.lab[r].ins.op # "R" /\ m = RMWWriteLabel(g, r)
    BY <2>2 DEF m
  <2> HIDE DEF g
  <2>7. Calms(handleStore(d1, m))
    BY <1>4, <2>2, <2>3, <2>4, <2>5, <2>6, RMWStoreCalm
  <2> QED BY <2>1, <2>7 DEF c
<1> QED BY <1>5, <1>6

(********************** The stack and what is atomic ***********************)

(* The RMWs of the executions below the top one are atomic. *)
LowerAtomic(s) == \A i \in DOMAIN s : i # Len(s) => ExecAtomic(s[i])

(* Those of the top one are unless it ends with an error. *)
LEMMA AtomicParts ==
  ASSUME DriverInv, AtomicInv, phase # "finished"
  PROVE  LowerAtomic(execStack) /\ (phase = "halted" \/ ErrorNext \/ ExecAtomic(Top))
<1>1. execStack # <<>> /\ StackOK(prog, execStack)
  BY TopOK
<1>2. Len(execStack) \in DOMAIN execStack /\ Top = execStack[Len(execStack)]
  BY <1>1, LastExecution DEF Top
<1>3. \A i \in DOMAIN execStack : Failed(i) \/ ExecAtomic(execStack[i])
  BY DEF AtomicInv
<1> QED BY <1>2, <1>3 DEF LowerAtomic, Failed

(* The same of the state after a step. *)
LEMMA AtomicPartsNext ==
  ASSUME LowerAtomic(execStack'), NEW y, execStack' # <<>> => Last(execStack') = y, internalError' = NoError,
         \/ phase' = "halted" \/ ((isMoot' \/ phase' = "done") /\ ErrorLast(y))
         \/ ExecAtomic(y),
         phase' = "run" /\ ~isMoot' => execStack' # <<>> /\ NoConflict(y.graph)
  PROVE  AtomicInv'
<1>1. ASSUME NEW i \in DOMAIN execStack'
      PROVE  \/ i = Len(execStack') /\ (phase' = "halted" \/ ((isMoot' \/ phase' = "done") /\ ErrorLast(Last(execStack'))))
             \/ ExecAtomic(execStack'[i])
  <2>1. CASE i # Len(execStack')
    BY <2>1 DEF LowerAtomic
  <2>2. CASE i = Len(execStack')
    <3>1. execStack' # <<>> /\ Last(execStack') = execStack'[i]
      BY <2>2 DEF Last
    <3> QED BY <2>2, <3>1
  <2> QED BY <2>1, <2>2
<1>2. Running' => NoConflict(Top'.graph)
  BY DEF Running, Top
<1>3. \A i \in DOMAIN execStack' : Failed(i)' \/ ExecAtomic(execStack'[i])
  BY <1>1 DEF Failed, ErrorNext, ErrorLast, Top
<1> QED BY <1>2, <1>3 DEF AtomicInv

(* The top execution changes. *)
LEMMA TopAtomic ==
  ASSUME NEW p, NEW s, StackOK(p, s), s # <<>>, LowerAtomic(s), NEW y
  PROVE  LowerAtomic(WithTop(s, y)) /\ WithTop(s, y) # <<>> /\ Last(WithTop(s, y)) = y
<1> DEFINE u == WithTop(s, y)
           n == Len(s)
<1>1. n \in Nat \ {0} /\ DOMAIN s = 1 .. n /\ s \in Seq(ToSet(s))
  BY LastExecution DEF StackOK, IsSeq
<1>2. DOMAIN u = DOMAIN s /\ u[n] = y /\ \A i \in DOMAIN s : i # n => u[i] = s[i]
  BY <1>1 DEF WithTop
<1>3. Len(u) = n
  <2> DEFINE R == ToSet(s) \cup {y}
  <2>1. s \in Seq(R) /\ y \in R
    BY <1>1
  <2> HIDE DEF R
  <2> QED BY <1>1, <2>1 DEF WithTop
<1> HIDE DEF u
<1>4. u # <<>>
  BY <1>1, <1>2
<1> HIDE DEF n
<1>5. LowerAtomic(u)
  BY <1>2, <1>3 DEF LowerAtomic, n
<1>6. Last(u) = y
  BY <1>2, <1>3 DEF Last
<1> QED BY <1>4, <1>5, <1>6 DEF u

(* popExecution(): the RMWs of the execution below are atomic. *)
LEMMA PopAtomic ==
  ASSUME NEW p, NEW s, StackOK(p, s), s # <<>>, LowerAtomic(s)
  PROVE  LowerAtomic(Front(s)) /\ (Front(s) # <<>> => ExecAtomic(Last(Front(s))))
<1> DEFINE u == Front(s)
           R == ToSet(s)
           n == Len(s)
<1>1. n \in Nat \ {0} /\ DOMAIN s = 1 .. n
  BY LastExecution
<1>2. s \in Seq(R)
  BY DEF StackOK, IsSeq
<1>3. u = SubSeq(s, 1, n - 1)
  BY DEF Front
<1> HIDE DEF u, R
<1>4. u \in Seq(R) /\ Len(u) = n - 1 /\ DOMAIN u = 1 .. n - 1 /\ \A i \in 1 .. n - 1 : u[i] = s[i]
  BY <1>1, <1>2, <1>3
<1>5. \A i \in DOMAIN u : i \in DOMAIN s /\ i # n /\ u[i] = s[i]
  BY <1>1, <1>4
<1> HIDE DEF n
<1>6. \A i \in DOMAIN u : ExecAtomic(u[i])
  BY <1>5 DEF LowerAtomic, n
<1>7. u # <<>> => Len(u) \in DOMAIN u /\ Last(u) = u[Len(u)]
  BY <1>1, <1>4 DEF Last
<1> QED BY <1>6, <1>7 DEF LowerAtomic, u

(* pushExecution(): so are those of the one that was cut. *)
LEMMA PushAtomic ==
  ASSUME NEW p, NEW s, StackOK(p, s), s # <<>>, LowerAtomic(s), NEW x, ExecAtomic(x), NEW y
  PROVE  LET u == Front(s) \o <<x, y>> IN LowerAtomic(u) /\ u # <<>> /\ Last(u) = y
<1> DEFINE f == Front(s)
           u == f \o <<x, y>>
           R == ToSet(s) \cup {x, y}
           n == Len(s)
<1>1. n \in Nat \ {0} /\ DOMAIN s = 1 .. n
  BY LastExecution
<1>2. s \in Seq(R) /\ <<x, y>> \in Seq(R)
  <2>1. s \in Seq(ToSet(s))
    BY DEF StackOK, IsSeq
  <2>2. s \in Seq(R)
    BY <2>1
  <2>3. x \in R /\ y \in R
    OBVIOUS
  <2> HIDE DEF R
  <2> QED BY <2>2, <2>3
<1>3. f = SubSeq(s, 1, n - 1)
  BY DEF Front
<1> HIDE DEF f, R
<1>4. f \in Seq(R) /\ Len(f) = n - 1 /\ \A i \in 1 .. n - 1 : f[i] = s[i]
  BY <1>1, <1>2, <1>3
<1>5. Len(u) = n + 1 /\ DOMAIN u = 1 .. n + 1 /\ \A i \in 1 .. n - 1 : u[i] = s[i]
  BY <1>1, <1>2, <1>4
<1>6. u[n] = x /\ u[n + 1] = y
  BY <1>1, <1>2, <1>4
<1>7. Last(u) = y /\ u # <<>>
  <2> HIDE DEF u
  <2> QED BY <1>1, <1>5, <1>6 DEF Last
<1> HIDE DEF u
<1>8. ASSUME NEW i \in DOMAIN u, i # Len(u) PROVE ExecAtomic(u[i])
  <2>1. i \in 1 .. n - 1 \/ i = n
    BY <1>1, <1>5, <1>8
  <2>2. i \in 1 .. n - 1 => i \in DOMAIN s /\ i # n
    BY <1>1
  <2> HIDE DEF n
  <2> QED BY <1>5, <1>6, <2>1, <2>2 DEF LowerAtomic, n
<1> QED BY <1>7, <1>8 DEF LowerAtomic, u, f

(*********************** The actions and what is atomic ********************)

(* The steps of the program leave RMWs atomic. *)
LEMMA RunStepAtomic ==
  ASSUME CheckerOK, DriverInv, ProgramOK(prog), StackSettled(execStack), WholeInv, AtomicInv, NEW t, RunStep(t)
  PROVE  AtomicInv'
<1>1. Scheduled(t)
  BY StepHandler
<1>2. PICK l, d : Handled(d) /\ (Access(l, d) \/ OtherEvent(l, d) \/ ThreadEvent(t, d))
  BY StepHandler
<1>3. execStack # <<>> /\ StackOK(prog, execStack)
  BY <1>1, TopOK DEF Scheduled
<1>4. Top = Last(execStack) /\ ExecSettled(Top)
  BY <1>3, LastExecution DEF Top, StackSettled
<1>5. phase = "run" /\ ~isMoot /\ internalError = NoError
  BY <1>1 DEF Scheduled, Context
<1>6. LowerAtomic(execStack) /\ ExecAtomic(Top) /\ Whole(Top.graph, {}) /\ NoConflict(Top.graph)
  <2>1. ~ErrorNext /\ Running
    BY <1>5 DEF ErrorNext, Running
  <2>2. NoConflict(Top.graph)
    BY <2>1 DEF AtomicInv
  <2> QED BY <1>5, <2>1, <2>2, WholeParts, AtomicParts
<1>7. ExecCalm(Top)
  BY <1>6 DEF ExecAtomic, GraphAtomic, ExecCalm
<1>8. /\ ContextOK(prog, Context) /\ ~Context.moot /\ Context.internal = NoError /\ NoDangling(Context.x.graph)
      /\ Context.x = Top /\ t \in ThreadIds(Context.x.graph) /\ isSchedulable(Context.x.graph, t)
      /\ ExecSettled(Context.x) /\ Whole(Context.x.graph, {}) /\ ExecCalm(Context.x)
  BY <1>1, <1>4, <1>6, <1>7 DEF Scheduled
<1>9. Calms(d)
  <2>1. CASE Access(l, d)
    BY <1>8, <2>1, PlainLoadCalm, NALoadCalm, PlainStoreCalm, NAStoreCalm, RMWCalm DEF Access, NextEvent
  <2>2. CASE OtherEvent(l, d)
    BY <1>8, <2>2, MallocCalm, FreeCalm, DummyCalm DEF OtherEvent, NextEvent
  <2>3. CASE ThreadEvent(t, d)
    BY <1>8, <2>3, AssumeCalm, ThreadCreateCalm, ThreadJoinCalm, ThreadFinishCalm DEF ThreadEvent
  <2> QED BY <1>2, <2>1, <2>2, <2>3
<1>10. execStack' = WithTop(execStack, d.x) /\ isMoot' = d.moot /\ internalError' = d.internal
  BY <1>2 DEF Handled, SetTop, WithTop
<1>11. LowerAtomic(execStack') /\ execStack' # <<>> /\ Last(execStack') = d.x
  BY <1>3, <1>6, <1>10, TopAtomic
<1> QED BY <1>9, <1>10, <1>11, AtomicPartsNext DEF Calms

(* done() cuts at the event of its item. *)
LEMMA TakenAtomic ==
  ASSUME CheckerOK, DriverInv, ProgramOK(prog), AtomicInv, NEW kind, NextItem(kind), kind # "ERROR"
  PROVE  LET item == Last(Top.workqueue)
         IN LowerAtomic(execStack) /\ Takes(prog, CutAt(Top, CutEvent(item)), item)
<1> DEFINE item == Last(Top.workqueue)
           y == CutAt(Top, CutEvent(item))
<1>1. phase = "done" /\ Top.workqueue # <<>> /\ item.kind = kind /\ internalError = NoError
  BY DEF NextItem
<1>2. ExecOK(prog, Top)
  BY <1>1, TopOK
<1>3. ~ErrorNext
  BY <1>1 DEF ErrorNext
<1>4. NoDangling(Top.graph)
  BY <1>1, <1>3, InvParts
<1>5. LowerAtomic(execStack) /\ ExecAtomic(Top)
  BY <1>1, <1>3, AtomicParts
<1>6. ExecAtomic(y) /\ ItemAtomic(y.graph, item)
  BY <1>1, <1>2, <1>4, <1>5, CutAtomic
<1>7. /\ ExecOK(prog, y) /\ ItemOK(y.graph, item) /\ NoDangling(y.graph)
      /\ Youngest(y.graph, CutEvent(item)) /\ IsLast(y.graph, CutEvent(item))
  BY TakenItem
<1> HIDE DEF item, y
<1> QED BY <1>5, <1>6, <1>7 DEF Takes, item, y

(* The forward revisit of a read: the program runs if no RMWs compete. *)
LEMMA ForwardRevisitReadAtomic ==
  ASSUME CheckerOK, DriverInv, ProgramOK(prog), AtomicInv, ForwardRevisitRead
  PROVE  AtomicInv'
<1> DEFINE item == Last(Top.workqueue)
           y == CutAt(Top, CutEvent(item))
           rv == revisitRead(y, item.pos, item.rev)
<1>1. NextItem("RF")
  BY DEF ForwardRevisitRead
<1>2. CutEvent(item) = item.pos
  BY <1>1 DEF NextItem, CutEvent
<1>3. Restricted(item.pos) = y
  BY <1>2 DEF Restricted, CutAt
<1>4. SetTop(rv.exec) /\ Continue(rv.exec.graph, item, rv.ok) /\ internalError' = internalError
  BY <1>3 DEF ForwardRevisitRead
<1>5. execStack # <<>> /\ StackOK(prog, execStack) /\ item.kind = "RF" /\ internalError = NoError
  BY <1>1, TakenItem
<1>6. LowerAtomic(execStack) /\ Takes(prog, y, item)
  BY <1>1, TakenAtomic
<1> HIDE DEF item, y
<1>7. ExecAtomic(rv.exec) /\ (rv.ok => NoConflict(rv.exec.graph))
  BY <1>5, <1>6, ForwardReadAtomic
<1> HIDE DEF rv
<1>8. phase' = "run" => rv.ok
  BY <1>4 DEF Continue
<1>9. execStack' = WithTop(execStack, rv.exec)
  BY <1>4 DEF SetTop, WithTop
<1> DEFINE z == rv.exec
<1>10. LowerAtomic(execStack') /\ execStack' # <<>> /\ Last(execStack') = z
  BY <1>5, <1>6, <1>9, TopAtomic
<1>11. ExecAtomic(z) /\ (phase' = "run" => NoConflict(z.graph)) /\ internalError' = NoError
  BY <1>4, <1>5, <1>7, <1>8
<1> HIDE DEF z
<1> QED BY <1>10, <1>11, AtomicPartsNext

(* The forward revisit of a write. *)
LEMMA ForwardRevisitWriteAtomic ==
  ASSUME CheckerOK, DriverInv, ProgramOK(prog), StackSettled(execStack), WholeInv, AtomicInv, ForwardRevisitWrite
  PROVE  AtomicInv'
<1> DEFINE item == Last(Top.workqueue)
           y == CutAt(Top, CutEvent(item))
           rv == revisitWrite(y, item.pos, item.rev)
<1>1. NextItem("CO")
  BY DEF ForwardRevisitWrite
<1>2. CutEvent(item) = item.pos
  BY <1>1 DEF NextItem, CutEvent
<1>3. Restricted(item.pos) = y
  BY <1>2 DEF Restricted, CutAt
<1>4. SetTop(rv.exec) /\ internalError' = internalError
  BY <1>3 DEF ForwardRevisitWrite
<1>5. execStack # <<>> /\ StackOK(prog, execStack) /\ item.kind = "CO" /\ internalError = NoError
  BY <1>1, TakenItem
<1>6. LowerAtomic(execStack) /\ Takes(prog, y, item)
  BY <1>1, TakenAtomic
<1>7. ItemSettled(y.graph, item)
  BY <1>1, TakenSettles
<1>8. Whole(y.graph, {})
  BY <1>1, TakenWriteWhole
<1> HIDE DEF item, y
<1>9. item.pos \notin Settled(y.graph)
  BY <1>2, <1>7 DEF ItemSettled
<1>10. ExecAtomic(rv.exec) /\ NoConflict(rv.exec.graph)
  BY <1>5, <1>6, <1>8, <1>9, ForwardWriteAtomic
<1> HIDE DEF rv
<1>11. execStack' = WithTop(execStack, rv.exec)
  BY <1>4 DEF SetTop, WithTop
<1> DEFINE z == rv.exec
<1>12. LowerAtomic(execStack') /\ execStack' # <<>> /\ Last(execStack') = z
  BY <1>5, <1>6, <1>11, TopAtomic
<1>13. ExecAtomic(z) /\ NoConflict(z.graph) /\ internalError' = NoError
  BY <1>4, <1>5, <1>10
<1> HIDE DEF z
<1> QED BY <1>12, <1>13, AtomicPartsNext

(* backwardRevisit(): VERIFY(ok) holds. *)
LEMMA BackwardRevisitAtomic ==
  ASSUME CheckerOK, DriverInv, ProgramOK(prog), StackSettled(execStack), WholeInv, AtomicInv, BackwardRevisit
  PROVE  AtomicInv'
<1> DEFINE item == Last(Top.workqueue)
           x == CutAt(Top, CutEvent(item))
           rv == revisitRead(Copied(x.graph, item), item.pos, item.rev)
<1>1. NextItem("BR")
  BY DEF BackwardRevisit
<1>2. CutEvent(item) = item.rev
  BY <1>1 DEF NextItem, CutEvent
<1>3. Restricted(item.rev) = x
  BY <1>2 DEF Restricted, CutAt
<1>4. execStack' = Front(execStack) \o <<x, rv.exec>> /\ internalError' = RevisitError(rv.exec, rv.ok, phase' = "run")
  BY <1>3 DEF BackwardRevisit
<1>5. execStack # <<>> /\ StackOK(prog, execStack) /\ item.kind = "BR"
  BY <1>1, TakenItem
<1>6. LowerAtomic(execStack) /\ Takes(prog, x, item)
  BY <1>1, TakenAtomic
<1>7. ItemSettled(x.graph, item) /\ SettledOK(x.graph)
  BY <1>1, TakenSettles DEF ExecSettled
<1>8. Whole(x.graph, {})
  BY <1>1, TakenWriteWhole
<1> HIDE DEF item, x
<1>9. ExecAtomic(rv.exec) /\ rv.ok /\ NoConflict(rv.exec.graph)
  BY <1>5, <1>6, <1>7, <1>8, BackwardAtomic
<1>10. ExecAtomic(x)
  BY <1>6 DEF Takes
<1> HIDE DEF rv
<1> DEFINE z == rv.exec
<1>11. ExecAtomic(z) /\ NoConflict(z.graph) /\ execStack' = Front(execStack) \o <<x, z>>
  BY <1>4, <1>9
<1>13. internalError' = NoError
  BY <1>4, <1>9, DriverAssumption DEF RevisitError, CheckerOK
<1> HIDE DEF z
<1>12. LowerAtomic(execStack') /\ execStack' # <<>> /\ Last(execStack') = z
  BY <1>5, <1>6, <1>10, <1>11, PushAtomic
<1> QED BY <1>11, <1>12, <1>13, AtomicPartsNext

(* The replay of a warning cuts; the replay of an error ends the run. *)
LEMMA ErrorReplayAtomic ==
  ASSUME CheckerOK, DriverInv, ProgramOK(prog), AtomicInv, ErrorReplay
  PROVE  AtomicInv'
<1> DEFINE item == Last(Top.workqueue)
           y == CutAt(Top, CutEvent(item))
<1>1. PICK kind \in {"WARN", "ERROR"} : NextItem(kind)
  BY DEF ErrorReplay
<1>2. CutEvent(item) = item.pos /\ item.kind = kind
  BY <1>1 DEF NextItem, CutEvent
<1>3. Restricted(item.pos) = y
  BY <1>2 DEF Restricted, CutAt
<1>4. SetTop(y) /\ phase' = (IF item.kind = "ERROR" THEN "halted" ELSE "done") /\ internalError' = internalError
  BY <1>3 DEF ErrorReplay
<1>5. execStack # <<>> /\ StackOK(prog, execStack) /\ internalError = NoError
  BY <1>1, TakenItem
<1>6. LowerAtomic(execStack)
  BY <1>1, AtomicParts DEF NextItem
<1>7. kind = "WARN" => ExecAtomic(y)
  BY <1>1, TakenAtomic DEF Takes
<1> HIDE DEF item, y
<1>8. execStack' = WithTop(execStack, y)
  BY <1>4 DEF SetTop, WithTop
<1>9. LowerAtomic(execStack') /\ execStack' # <<>> /\ Last(execStack') = y
  BY <1>5, <1>6, <1>8, TopAtomic
<1>10. phase' # "run" /\ internalError' = NoError /\ (phase' = "halted" \/ ExecAtomic(y))
  BY <1>2, <1>4, <1>5, <1>7
<1> QED BY <1>9, <1>10, AtomicPartsNext

(* Every step of the driver leaves RMWs atomic. *)
LEMMA StepAtomic ==
  ASSUME CheckerOK, \A p \in Programs : ProgramOK(p), DriverInv, StackSettled(execStack), WholeInv, AtomicInv,
         [Next]_vars
  PROVE  AtomicInv'
<1>1. ProgramOK(prog)
  BY DEF DriverInv
<1>2. CASE \E t \in ThreadIds(Top.graph) : RunStep(t)
  BY <1>1, <1>2, RunStepAtomic
<1>3. CASE HandleExecutionEnd
  <2>1. phase = "run" /\ phase' = "done" /\ execStack' = execStack /\ internalError' = NoError
    BY <1>3 DEF HandleExecutionEnd
  <2>2. LowerAtomic(execStack) /\ (ErrorNext \/ ExecAtomic(Top))
    BY <2>1, AtomicParts
  <2>3. ErrorNext => ErrorLast(Top)
    BY DEF ErrorNext, ErrorLast
  <2>4. LowerAtomic(execStack') /\ Last(execStack') = Top
    BY <2>1, <2>2 DEF Top
  <2> QED BY <2>1, <2>2, <2>3, <2>4, AtomicPartsNext
<1>4. CASE RevisitStep
  <2>1. CASE ForwardRevisitRead
    BY <1>1, <2>1, ForwardRevisitReadAtomic
  <2>2. CASE ForwardRevisitWrite
    BY <1>1, <2>2, ForwardRevisitWriteAtomic
  <2>3. CASE BackwardRevisit
    BY <1>1, <2>3, BackwardRevisitAtomic
  <2>4. CASE ErrorReplay
    BY <1>1, <2>4, ErrorReplayAtomic
  <2>5. CASE PopExecution
    <3>1. /\ phase = "done" /\ execStack # <<>> /\ StackOK(prog, execStack) /\ execStack' = Front(execStack)
          /\ phase' # "run" /\ internalError' = NoError
      BY <2>5, TopOK DEF PopExecution
    <3>2. LowerAtomic(execStack)
      BY <3>1, AtomicParts
    <3> DEFINE y == Last(execStack')
    <3>3. LowerAtomic(execStack') /\ (execStack' # <<>> => ExecAtomic(y))
      BY <3>1, <3>2, PopAtomic
    <3>4. CASE execStack' = <<>>
      BY <3>1, <3>4 DEF AtomicInv, Running
    <3>5. CASE execStack' # <<>>
      BY <3>1, <3>3, <3>5, AtomicPartsNext
    <3> QED BY <3>4, <3>5
  <2> QED BY <1>4, <2>1, <2>2, <2>3, <2>4, <2>5 DEF RevisitStep
<1>5. CASE UNCHANGED vars
  BY <1>5 DEF vars, AtomicInv, Failed, ErrorNext, Top, Running
<1> QED BY <1>2, <1>3, <1>4, <1>5 DEF Next, Terminated

(******************************* The theorems ******************************)

(* VERIFY() never fails, and in every execution on the stack, but one that  *)
(* ends with an error, the write of an RMW is next to the store that its    *)
(* load reads unless RMWs compete for the place; while the program runs     *)
(* none compete.                                                            *)
THEOREM AtomicInvariant ==
  ASSUME CheckerOK, \A p \in Programs : ProgramOK(p)
  PROVE  Spec => []AtomicInv
<1>1. Init => AtomicInv
  <2> DEFINE g == EmptyGraph
             x == [graph |-> g, workqueue |-> <<>>]
  <2>1. Reads(g) = {} /\ Writes(g) = {}
    BY DEF EmptyGraph, Reads, Writes, OfType, Events, NewLabel
  <2> HIDE DEF g
  <2>2. RMWReads(g) = {}
    BY <2>1 DEF RMWReads
  <2>3. GraphAtomic(g) /\ NoConflict(g)
    BY <2>1, <2>2 DEF GraphAtomic, Paired, Adjacent, ConflictLast, NoConflict
  <2>4. ExecAtomic(x) /\ NoConflict(x.graph)
    BY <2>3 DEF ExecAtomic, ItemsAtomic
  <2> HIDE DEF x
  <2>5. ASSUME Init PROVE execStack = <<x>> /\ internalError = NoError /\ Last(execStack) = x
    BY <2>5 DEF Init, x, g, Last
  <2> QED BY <2>4, <2>5 DEF AtomicInv, Top
<1>2. DriverInv /\ SettledInv /\ WholeInv /\ AtomicInv /\ [Next]_vars => AtomicInv'
  BY StepAtomic DEF SettledInv
<1> QED BY <1>1, <1>2, DriverInvariant, SettledInvariant, WholeInvariant, PTL DEF Spec

(* The internal checks hold for every program, schedule and checker of the  *)
(* hypotheses: a load finds a store to read (VERIFY(!stores.empty()) of     *)
(* handleLoad), the id of a thread that main creates is the next one        *)
(* (VERIFY(cid == numThreads) of handleThreadCreate), and a backward        *)
(* revisit never breaks atomicity (VERIFY(ok) of backwardRevisit).          *)
THEOREM NoInternalErrorEver ==
  ASSUME CheckerOK, \A p \in Programs : ProgramOK(p)
  PROVE  Spec => []NoInternalError
<1>1. AtomicInv => NoInternalError
  BY DEF AtomicInv, NoInternalError
<1> QED BY <1>1, AtomicInvariant, PTL

(* Whenever the program runs, the write of every RMW comes right after the  *)
(* store that its load reads in coherence, whatever has been revisited,     *)
(* cut and copied before.                                                   *)
THEOREM RMWsAlwaysAtomic ==
  ASSUME CheckerOK, \A p \in Programs : ProgramOK(p)
  PROVE  Spec => []RMWsAreAtomic
<1>1. ASSUME DriverInv, WholeInv, AtomicInv PROVE RMWsAreAtomic
  <2> DEFINE g == Top.graph
  <2> SUFFICES ASSUME Running, NEW r \in Reads(g), IsRMWRead(g, r)
               PROVE  CoBefore(g, <<r[1], r[2] + 1>>) = g.lab[r].rf
    BY DEF RMWsAreAtomic
  <2>1. phase = "run" /\ ~isMoot /\ ~ErrorNext
    BY DEF Running, ErrorNext
  <2>2. GraphOK(prog, g, {})
    BY <1>1, <2>1, TopOK DEF ExecOK
  <2>3. Whole(g, {}) /\ ExecAtomic(Top) /\ NoConflict(g)
    BY <1>1, <2>1, WholeParts, AtomicParts DEF AtomicInv
  <2>4. Paired(g) /\ Adjacent(g)
    BY <2>3 DEF ExecAtomic, GraphAtomic
  <2> HIDE DEF g
  <2>5. r \in RMWReads(g)
    BY DEF RMWReads
  <2> DEFINE w == NextOf(r)
             l == Loc(g, r)
             u == g.lab[r].rf
             b == CoBefore(g, w)
  <2>6. /\ r \in Events(g) /\ w \in Events(g) /\ w \in Writes(g) /\ l \in Locs
    BY <2>2, <2>5, RMWParts
  <2>7. w \in ToSet(g.co[l])
    <3>1. g.lab[w].ins = g.lab[r].ins
      BY <2>4, <2>5, <2>6 DEF Paired
    <3>2. Loc(g, w) = l
      BY <3>1 DEF Loc
    <3> QED BY <2>3, <2>6, <3>2 DEF Whole, Placed
  <2> HIDE DEF w, l, u, b
  <2>8. co_lt(g, l, u, w)
    BY <2>4, <2>5, <2>7 DEF Adjacent, AdjacentTo, w, l, u
  <2>9. ASSUME NEW x \in ToSet(g.co[l]), co_lt(g, l, u, x), co_lt(g, l, x, w) PROVE FALSE
    <3>1. \E q \in RMWReads(g) : NextOf(q) = x /\ Compete(g, r, q)
      BY <2>4, <2>5, <2>7, <2>9 DEF Adjacent, AdjacentTo, w, l, u
    <3> QED BY <2>3, <2>5, <3>1 DEF NoConflict
  <2>10. co_lt(g, l, b, w) /\ \A x : co_lt(g, l, b, x) => x = w \/ co_lt(g, l, w, x)
    BY <2>2, <2>6, <2>7, CoBeforeIs DEF b
  <2>11. CoOrder(g.co[l])
    BY <2>2, <2>6, CoIsCo
  <2>12. b = u
    <3> SUFFICES ASSUME b # u PROVE FALSE
      OBVIOUS
    <3>1. b \in {InitEvent} \cup ToSet(g.co[l]) /\ u \in {InitEvent} \cup ToSet(g.co[l]) /\ u # w
      BY <2>8, <2>10, <2>11 DEF CoOrder, co_lt
    <3>2. co_lt(g, l, b, u) \/ co_lt(g, l, u, b)
      BY <2>11, <3>1 DEF CoOrder, co_lt
    <3>3. CASE co_lt(g, l, b, u)
      <4>1. co_lt(g, l, w, u)
        BY <2>10, <3>1, <3>3
      <4> QED BY <2>8, <2>11, <4>1 DEF CoOrder, co_lt
    <3>4. CASE co_lt(g, l, u, b)
      <4>1. b \in ToSet(g.co[l])
        BY <2>11, <3>4 DEF CoOrder, co_lt
      <4> QED BY <2>9, <2>10, <3>4, <4>1
    <3> QED BY <3>2, <3>3, <3>4
  <2> QED BY <2>12 DEF b, u, w, NextOf
<1> QED BY <1>1, DriverInvariant, WholeInvariant, AtomicInvariant, PTL

===============================================================================
