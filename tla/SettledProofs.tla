---------------------------- MODULE SettledProofs ----------------------------
(***************************************************************************)
(* What a backward revisit settles stays settled (SettledEventsStay): the  *)
(* handlers, the cuts and copies of revisits and the items they push leave *)
(* alone the events that are no longer revisitable, in every execution on  *)
(* the stack.                                                              *)
(***************************************************************************)
EXTENDS DriverProofs

(***************************** What is settled *****************************)

(* What is settled stays, but for the stores of non-atomic reads. *)
NonAtomicRead(l) == l.typ = "R" /\ l.ins.mo = "na"
Stays(g, h) ==
    /\ Settled(h) = Settled(g)
    /\ \A e \in Settled(g) : h.lab[e] = g.lab[e] \/ (NonAtomicRead(g.lab[e]) /\ NonAtomicRead(h.lab[e]))

(* If what is settled stays, it still reads what is settled. *)
LEMMA StaysOK ==
  ASSUME NEW g, NEW h, SettledOK(g), Stays(g, h)
  PROVE  SettledOK(h)
BY DEF SettledOK, Stays, NonAtomicRead

(* What stays twice stays. *)
LEMMA StaysTrans ==
  ASSUME NEW g, NEW h, NEW k, Stays(g, h), Stays(h, k)
  PROVE  Stays(g, k)
BY DEF Stays

(* What does not change stays. *)
LEMMA StaysRefl ==
  ASSUME NEW g
  PROVE  Stays(g, g)
BY DEF Stays

(* Settled events are in T, and if they begin a thread so is its creation. *)
HasSettled(g, T) ==
    \A e \in Settled(g) : /\ e[2] > 0 => e \in T
                          /\ e[2] = 0 /\ e[1] > 0 => CreateId(g, e[1]) \in T

(* The begin of a thread other than main has a creation in the graph. *)
LEMMA BeginIs ==
  ASSUME NEW p, NEW g, NEW X, GraphOK(p, g, X), NEW e \in Events(g), e[2] = 0, e[1] > 0
  PROVE  /\ e = <<e[1], 0>> /\ g.lab[e].typ \in {"INIT", "TS"}
         /\ CreateId(g, e[1]) \in Events(g) /\ CreateId(g, e[1])[2] > 0 /\ g.lab[CreateId(g, e[1])].typ = "TC"
<1>1. e = <<e[1], 0>> /\ e[1] \in ThreadIds(g) /\ e[1] \in Nat
  BY ThreadOf
<1>2. g.lab[e].typ \in {"INIT", "TS"}
  BY DEF GraphOK, Kinds
<1>3. CreateId(g, e[1]) \in Events(g) /\ CreateId(g, e[1])[2] > 0
  BY StampFacts
<1>4. g.lab[CreateId(g, e[1])].typ = "TC"
  BY <1>1 DEF GraphOK, Threads
<1> QED BY <1>1, <1>2, <1>3, <1>4

(* All that is settled is among the events that are not blocks. *)
LEMMA AllHasSettled ==
  ASSUME NEW p, NEW g, NEW X, GraphOK(p, g, X), SettledOK(g), NEW T,
         \A e \in Events(g) \ T : g.lab[e].typ = "B"
  PROVE  HasSettled(g, T)
<1> SUFFICES ASSUME NEW e \in Settled(g)
             PROVE  /\ e[2] > 0 => e \in T
                    /\ e[2] = 0 /\ e[1] > 0 => CreateId(g, e[1]) \in T
  BY DEF HasSettled
<1>1. e \in Events(g) /\ g.lab[e].typ # "B"
  BY DEF Settled, SettledOK
<1>2. e[2] = 0 /\ e[1] > 0 => CreateId(g, e[1]) \in Events(g) /\ g.lab[CreateId(g, e[1])].typ = "TC"
  BY <1>1, BeginIs
<1> QED BY <1>1, <1>2

(* A change that keeps the events of an item keeps what it says of settled  *)
(* events.                                                                  *)
LEMMA KeptItemSettled ==
  ASSUME NEW p, NEW g, NEW h, NEW X, GraphOK(p, g, X), NEW T, Keeps(g, h, T), Stays(g, h), HasSettled(g, T),
         NEW item, ItemOK(g, item), item.pos \in T, item.rev \in T, ItemSettled(g, item)
  PROVE  ItemSettled(h, item)
<1> DEFINE u == CutEvent(item)
<1>1. u \in T /\ u \notin Settled(h)
  BY DEF CutEvent, ItemSettled, Stays
<1>0. \A d, e \in T : Stamp(g, d) <= Stamp(g, e) => Stamp(h, d) <= Stamp(h, e)
  BY DEF Keeps
<1>2. ASSUME NEW e \in Settled(h)
      PROVE  /\ e[2] > 0 => Stamp(h, e) <= Stamp(h, u)
             /\ e[2] = 0 /\ e[1] > 0 => Stamp(h, CreateId(h, e[1])) <= Stamp(h, u)
  <2>1. e \in Settled(g) /\ e \in Events(g)
    BY DEF Stays, Settled
  <2>2. ASSUME e[2] > 0 PROVE Stamp(h, e) <= Stamp(h, u)
    <3>1. e \in T /\ Stamp(g, e) <= Stamp(g, u)
      BY <2>1, <2>2 DEF HasSettled, ItemSettled
    <3> HIDE DEF u
    <3> QED BY <1>0, <1>1, <3>1
  <2>3. ASSUME e[2] = 0, e[1] > 0 PROVE Stamp(h, CreateId(h, e[1])) <= Stamp(h, u)
    <3>1. CreateId(g, e[1]) \in T /\ Stamp(g, CreateId(g, e[1])) <= Stamp(g, u)
      BY <2>1, <2>3 DEF HasSettled, ItemSettled
    <3>2. e = <<e[1], 0>> /\ g.lab[e].typ \in {"INIT", "TS"}
      BY <2>1, <2>3, BeginIs
    <3>3. h.lab[e] = g.lab[e]
      BY <2>1, <3>2 DEF Stays, NonAtomicRead
    <3>4. CreateId(h, e[1]) = CreateId(g, e[1])
      BY <3>2, <3>3 DEF CreateId
    <3> HIDE DEF u
    <3> QED BY <1>0, <1>1, <3>1, <3>4
  <2> QED BY <2>2, <2>3
<1>3. ASSUME item.kind = "BR"
      PROVE  /\ item.pos \notin Settled(h)
             /\ \A e \in Settled(h) : e[2] > 0 =>
                   Stamp(h, e) <= Stamp(h, item.pos) \/ e \in FullPrefix(h, item.rev)
  <2>1. item.pos \notin Settled(h)
    BY <1>3 DEF ItemSettled, Stays
  <2>2. FullPrefix(h, item.rev) = FullPrefix(g, item.rev)
    <3>1. item.pos \in Events(g) /\ g.lab[item.pos].typ = "R" /\ item.rev \in ToSet(g.co[Loc(g, item.pos)])
      BY <1>3 DEF ItemOK
    <3>2. g.lab[item.rev].typ = "W"
      BY <3>1, CoOf
    <3> QED BY <3>2 DEF Keeps
  <2>3. ASSUME NEW e \in Settled(h), e[2] > 0
        PROVE  Stamp(h, e) <= Stamp(h, item.pos) \/ e \in FullPrefix(h, item.rev)
    <3>1. e \in Settled(g)
      BY DEF Stays
    <3>2. e \in T /\ (Stamp(g, e) <= Stamp(g, item.pos) \/ e \in FullPrefix(g, item.rev))
      BY <1>3, <2>3, <3>1 DEF HasSettled, ItemSettled
    <3> QED BY <1>0, <2>2, <3>2
  <2> QED BY <2>1, <2>3
<1> HIDE DEF u
<1> QED BY <1>1, <1>2, <1>3 DEF ItemSettled, u

(* What is settled in x is settled in y, and all is right there. *)
Settles(x, y) == ExecSettled(y) /\ Stays(x.graph, y.graph)

(* Two steps that leave what is settled leave it together. *)
LEMMA SettlesTrans ==
  ASSUME NEW x, NEW y, NEW z, Settles(x, y), Settles(y, z)
  PROVE  Settles(x, z)
BY StaysTrans DEF Settles

(* An execution that does not change leaves what is settled. *)
LEMMA SettlesRefl ==
  ASSUME NEW x, ExecSettled(x)
  PROVE  Settles(x, x)
BY StaysRefl DEF Settles

(* A change of the graph that keeps the events that are not blocks, and     *)
(* what is settled, keeps what the items say of settled events.             *)
LEMMA KeptSettled ==
  ASSUME NEW p, NEW x, NEW X, GraphOK(p, x.graph, X), ItemsOK(x.graph, x.workqueue), ExecSettled(x),
         NEW y, y.workqueue = x.workqueue,
         NEW T, Keeps(x.graph, y.graph, T), \A e \in Events(x.graph) \ T : x.graph.lab[e].typ = "B",
         Stays(x.graph, y.graph)
  PROVE  Settles(x, y)
<1>1. SettledOK(x.graph) /\ SettledOK(y.graph)
  BY StaysOK DEF ExecSettled
<1>2. HasSettled(x.graph, T)
  BY <1>1, AllHasSettled
<1>3. ASSUME NEW j \in DOMAIN y.workqueue PROVE ItemSettled(y.graph, y.workqueue[j])
  <2> DEFINE item == x.workqueue[j]
  <2>1. ItemOK(x.graph, item) /\ ItemSettled(x.graph, item)
    BY <1>3 DEF ItemsOK, ExecSettled
  <2>2. item.pos \in T /\ item.rev \in T
    <3>1. item.pos \in Events(x.graph) /\ item.rev \in Events(x.graph) /\ x.graph.lab[item.pos].typ # "B"
      BY <2>1 DEF ItemOK
    <3>2. x.graph.lab[item.rev].typ # "B"
      <4>1. item.rev = InitEvent \/ x.graph.lab[item.rev].typ # "B"
        BY <2>1 DEF ItemOK
      <4> QED BY <3>1, <4>1 DEF GraphOK, Kinds
    <3> QED BY <3>1, <3>2
  <2> HIDE DEF item
  <2>3. ItemSettled(y.graph, item)
    BY <1>2, <2>1, <2>2, KeptItemSettled
  <2> QED BY <2>3 DEF item
<1> QED BY <1>1, <1>3 DEF Settles, ExecSettled

(* New items may be pushed if they cut nothing away that is settled. *)
LEMMA PushedSettled ==
  ASSUME NEW x, NEW y, y.graph = x.graph, ExecSettled(x), IsSeq(x.workqueue),
         NEW more, IsSeq(more), y.workqueue = x.workqueue \o more,
         \A j \in DOMAIN more : ItemSettled(x.graph, more[j])
  PROVE  Settles(x, y)
<1> DEFINE s == x.workqueue
           R == ToSet(s) \cup ToSet(more)
           q == s \o more
<1>1. s \in Seq(R) /\ more \in Seq(R)
  BY DEF IsSeq
<1>2. Len(s) \in Nat /\ Len(more) \in Nat /\ DOMAIN s = 1 .. Len(s) /\ DOMAIN more = 1 .. Len(more)
  BY <1>1
<1>3. /\ DOMAIN q = 1 .. Len(s) + Len(more)
      /\ \A j \in 1 .. Len(s) + Len(more) : q[j] = IF j <= Len(s) THEN s[j] ELSE more[j - Len(s)]
  <2> HIDE DEF s
  <2> QED BY <1>1
<1>4. ASSUME NEW j \in DOMAIN q PROVE ItemSettled(x.graph, q[j])
  <2>1. CASE j <= Len(s)
    <3>1. j \in DOMAIN s /\ q[j] = s[j]
      BY <1>2, <1>3, <2>1
    <3> QED BY <3>1 DEF ExecSettled
  <2>2. CASE j > Len(s)
    <3> HIDE DEF s
    <3>1. j - Len(s) \in DOMAIN more /\ q[j] = more[j - Len(s)]
      BY <1>2, <1>3, <2>2
    <3> QED BY <3>1
  <2> QED BY <1>2, <1>3, <2>1, <2>2
<1> HIDE DEF q
<1> QED BY <1>4, StaysRefl DEF Settles, ExecSettled, q

(* An item that cuts at the newest event, which is not settled, cuts        *)
(* nothing away that is.                                                    *)
LEMMA YoungSettled ==
  ASSUME NEW p, NEW g, NEW X, GraphOK(p, g, X), NEW u, Youngest(g, u), u \notin Settled(g),
         NEW item, item.kind # "BR", CutEvent(item) = u
  PROVE  ItemSettled(g, item)
<1> SUFFICES ASSUME NEW e \in Settled(g)
             PROVE  /\ e[2] > 0 => Stamp(g, e) <= Stamp(g, u)
                    /\ e[2] = 0 /\ e[1] > 0 => Stamp(g, CreateId(g, e[1])) <= Stamp(g, u)
  BY DEF ItemSettled
<1>1. e \in Events(g)
  BY DEF Settled
<1>2. e[2] = 0 /\ e[1] > 0 => CreateId(g, e[1]) \in Events(g) /\ CreateId(g, e[1])[2] > 0
  BY <1>1, BeginIs
<1> QED BY <1>1, <1>2 DEF Youngest

(*************************** Changes of labels *****************************)

(* Labels change at E only, where they stay revisitable or not. *)
Relabels(g, h, E) ==
    /\ Events(h) = Events(g)
    /\ \A e \in Events(g) \ E : h.lab[e] = g.lab[e]
    /\ \A e \in Events(g) \cap E : h.lab[e].revisitable = g.lab[e].revisitable

(* What is settled stays if only other labels change, or those of           *)
(* non-atomic reads.                                                        *)
LEMMA RelabelStays ==
  ASSUME NEW g, NEW h, NEW E, Relabels(g, h, E),
         \A e \in E \cap Settled(g) : NonAtomicRead(g.lab[e]) /\ NonAtomicRead(h.lab[e])
  PROVE  Stays(g, h)
<1>1. Settled(h) = Settled(g)
  BY DEF Relabels, Settled
<1> QED BY <1>1 DEF Relabels, Stays, Settled

(* A new label is not settled. *)
LEMMA AppendStays ==
  ASSUME NEW g, NEW h, NEW l, Appended(g, h, l), h.lab[l.pos].revisitable
  PROVE  Stays(g, h) /\ l.pos \notin Settled(h)
BY DEF Appended, Stays, Settled

(* A label in the graph can be revisited if it could when it was added,     *)
(* with addLabelToGraph() or as a block.                                    *)
LEMMA AddedLabels ==
  ASSUME NEW g, Shape(g), Stamps(g), NEW l, DOMAIN l = LabelFields, l.pos \notin Events(g)
  PROVE  /\ addLabelToGraph(g, l).lab[l.pos].revisitable = l.revisitable
         /\ add(g, l).lab[l.pos].revisitable = l.revisitable
<1>1. Added(g, add(g, l), l)
  BY AddAdds
<1> DEFINE m == [l EXCEPT !.views = CalculateViews(add(g, l), l.pos),
                          !.prefix = CalculatePrefixView(add(g, l), l.pos)]
<1>2. Added(g, addLabelToGraph(g, l), m)
  BY AddLabelAdds
<1>3. m.pos = l.pos /\ m.revisitable = l.revisitable
  BY LabelFieldsAre
<1> HIDE DEF m
<1> QED BY <1>1, <1>2, <1>3 DEF Added

(* So it is with the label of an allocation or a free. *)
LEMMA ProbeLabels ==
  ASSUME NEW g, Shape(g), Stamps(g), NEW l, DOMAIN l = LabelFields, l.pos \notin Events(g), NEW b
  PROVE  add(g, Probe(b, l)).lab[l.pos].revisitable = l.revisitable
<1> DEFINE m == Probe(b, l)
<1>1. DOMAIN m = LabelFields /\ m.pos = l.pos /\ m.revisitable = l.revisitable
  BY LabelFieldsAre DEF Probe
<1> HIDE DEF m
<1>2. add(g, m).lab[m.pos].revisitable = m.revisitable
  BY <1>1, AddedLabels
<1> QED BY <1>1, <1>2 DEF m

(* A label in the graph has all fields. *)
LEMMA LabelIn ==
  ASSUME NEW p, NEW g, NEW X, GraphOK(p, g, X), NEW e \in Events(g)
  PROVE  DOMAIN g.lab[e] = LabelFields /\ DOMAIN g = {"stamp", "lab", "co", "lin"} /\ Events(g) = DOMAIN g.lab
BY DEF GraphOK, Shape, Events

(* Setting the store of a read changes its label only. *)
LEMMA SetRfRelabels ==
  ASSUME NEW p, NEW g, NEW X, GraphOK(p, g, X), NEW r \in Events(g), NEW w
  PROVE  Relabels(g, setRf(g, r, w), {r})
<1> DEFINE m == (w = co_max(g, Loc(g, r)))
           h == setRf(g, r, w)
<1>1. h = [g EXCEPT !.lab[r].rf = w, !.lab[r].addedMax = m]
  BY DEF setRf
<1> HIDE DEF m
<1>0. DOMAIN g = {"stamp", "lab", "co", "lin"} /\ r \in DOMAIN g.lab
  BY LabelIn
<1>2. h.lab = [g.lab EXCEPT ![r] = [g.lab[r] EXCEPT !.rf = w, !.addedMax = m]]
  BY <1>0, <1>1
<1>3. [g.lab[r] EXCEPT !.rf = w, !.addedMax = m].revisitable = g.lab[r].revisitable
  BY LabelIn, LabelFieldsAre
<1> HIDE DEF h
<1> QED BY <1>2, <1>3, LabelIn DEF Relabels, Events, h

(* So does computing the views of an event. *)
LEMMA ViewsRelabel ==
  ASSUME NEW g, DOMAIN g = {"stamp", "lab", "co", "lin"}, NEW r \in Events(g), DOMAIN g.lab[r] = LabelFields
  PROVE  Relabels(g, updateLabelViews(g, r), {r})
<1> DEFINE V == CalculateViews(g, r)
           P == CalculatePrefixView(g, r)
           h == updateLabelViews(g, r)
<1>1. h = [g EXCEPT !.lab[r].views = V, !.lab[r].prefix = P]
  BY DEF updateLabelViews
<1> HIDE DEF V, P
<1>2. h.lab = [g.lab EXCEPT ![r] = [g.lab[r] EXCEPT !.views = V, !.prefix = P]]
  BY <1>1 DEF Events
<1>3. [g.lab[r] EXCEPT !.views = V, !.prefix = P].revisitable = g.lab[r].revisitable
  BY LabelFieldsAre
<1> HIDE DEF h
<1> QED BY <1>2, <1>3 DEF Relabels, Events, h

(* And setting the store of a read with its views. *)
LEMMA ReadFromRelabels ==
  ASSUME NEW p, NEW g, NEW X, GraphOK(p, g, X), NEW r \in Events(g), NEW w
  PROVE  Relabels(g, updateLabelViews(setRf(g, r, w), r), {r})
<1> DEFINE k == setRf(g, r, w)
<1>1. Relabels(g, k, {r})
  BY SetRfRelabels
<1>2. SameText(g, k)
  BY SetRfSets DEF SetsRf
<1>3. DOMAIN k = {"stamp", "lab", "co", "lin"} /\ r \in Events(k) /\ DOMAIN k.lab[r] = LabelFields
  BY <1>2, LabelIn DEF SameText
<1> HIDE DEF k
<1>4. Relabels(k, updateLabelViews(k, r), {r})
  BY <1>3, ViewsRelabel
<1>5. Relabels(g, updateLabelViews(k, r), {r})
  BY <1>1, <1>4 DEF Relabels
<1> QED BY <1>5 DEF k

(* Setting the stores of some reads changes their labels only. *)
LEMMA ReadMaximallyRelabels ==
  ASSUME NEW p, NEW g, NEW X, GraphOK(p, g, X), NEW rf
  PROVE  Relabels(g, ReadMaximally(g, rf), DOMAIN rf)
<1> DEFINE h == [g EXCEPT !.lab = [e \in Events(g) |->
                    IF e \in DOMAIN rf THEN [g.lab[e] EXCEPT !.rf = rf[e], !.addedMax = TRUE] ELSE g.lab[e]]]
           k == [h EXCEPT !.lab = [e \in Events(g) |->
                    IF e \in DOMAIN rf
                    THEN [h.lab[e] EXCEPT !.views = CalculateViews(h, e), !.prefix = CalculatePrefixView(h, e)]
                    ELSE h.lab[e]]]
<1>1. ReadMaximally(g, rf) = IF DOMAIN rf = {} THEN g ELSE k
  BY DEF ReadMaximally
<1>2. CASE DOMAIN rf = {}
  BY <1>1, <1>2 DEF Relabels
<1>3. CASE DOMAIN rf # {}
  <2>1. InitEvent \in Events(g) /\ DOMAIN g = {"stamp", "lab", "co", "lin"}
    BY DEF GraphOK, Shape
  <2>2. /\ DOMAIN h = {"stamp", "lab", "co", "lin"} /\ Events(h) = Events(g)
        /\ \A e \in Events(g) : h.lab[e] = IF e \in DOMAIN rf THEN [g.lab[e] EXCEPT !.rf = rf[e], !.addedMax = TRUE]
                                           ELSE g.lab[e]
    BY <2>1 DEF Events
  <2> HIDE DEF h
  <2>3. /\ Events(k) = Events(g)
        /\ \A e \in Events(g) : k.lab[e] =
              IF e \in DOMAIN rf
              THEN [h.lab[e] EXCEPT !.views = CalculateViews(h, e), !.prefix = CalculatePrefixView(h, e)]
              ELSE h.lab[e]
    BY <2>2 DEF Events
  <2> HIDE DEF k
  <2>4. ASSUME NEW e \in Events(g), e \in DOMAIN rf PROVE k.lab[e].revisitable = g.lab[e].revisitable
    <3> DEFINE V == CalculateViews(h, e)
               P == CalculatePrefixView(h, e)
    <3>1. k.lab[e] = [h.lab[e] EXCEPT !.views = V, !.prefix = P]
      BY <2>3, <2>4
    <3>2. h.lab[e] = [g.lab[e] EXCEPT !.rf = rf[e], !.addedMax = TRUE]
      BY <2>2, <2>4
    <3>3. DOMAIN g.lab[e] = LabelFields
      BY LabelIn
    <3> HIDE DEF V, P
    <3>4. DOMAIN h.lab[e] = LabelFields /\ h.lab[e].revisitable = g.lab[e].revisitable
      BY <3>2, <3>3, LabelFieldsAre
    <3> QED BY <3>1, <3>4, LabelFieldsAre
  <2> QED BY <1>1, <1>3, <2>2, <2>3, <2>4 DEF Relabels
<1> QED BY <1>2, <1>3

(* Marking a write as racy changes its label only. *)
LEMMA RacyRelabels ==
  ASSUME NEW p, NEW g, NEW X, GraphOK(p, g, X), NEW e \in Events(g)
  PROVE  Relabels(g, [g EXCEPT !.lab[e].wwRacy = TRUE], {e})
<1> DEFINE h == [g EXCEPT !.lab[e].wwRacy = TRUE]
<1>1. h.lab = [g.lab EXCEPT ![e] = [g.lab[e] EXCEPT !.wwRacy = TRUE]]
  BY LabelIn
<1>2. [g.lab[e] EXCEPT !.wwRacy = TRUE].revisitable = g.lab[e].revisitable
  BY LabelIn, LabelFieldsAre
<1> HIDE DEF h
<1>3. Relabels(g, h, {e})
  BY <1>1, <1>2, LabelIn DEF Relabels, Events
<1> QED BY <1>3 DEF h

(* So does moving a write in coherence. *)
LEMMA MoveCoRelabels ==
  ASSUME NEW p, NEW g, NEW X, GraphOK(p, g, X), NEW w \in Events(g), NEW pred
  PROVE  Relabels(g, moveCo(g, w, pred), {w})
<1> DEFINE a == [g EXCEPT !.co[Loc(g, w)] = RemoveAt(@, CoIndex(g, w, Loc(g, w)))]
           h == addCo(a, w, pred)
           m == (w = co_max(h, Loc(h, w)))
           k == moveCo(g, w, pred)
<1>1. k = [h EXCEPT !.lab[w].addedMax = m]
  BY DEF moveCo
<1>2. DOMAIN a = {"stamp", "lab", "co", "lin"} /\ a.lab = g.lab
  BY LabelIn
<1> HIDE DEF a
<1>3. DOMAIN h = {"stamp", "lab", "co", "lin"} /\ h.lab = g.lab
  BY <1>2 DEF addCo
<1> HIDE DEF h, m
<1>4. k.lab = [g.lab EXCEPT ![w] = [g.lab[w] EXCEPT !.addedMax = m]]
  BY <1>1, <1>3, LabelIn
<1>5. [g.lab[w] EXCEPT !.addedMax = m].revisitable = g.lab[w].revisitable
  BY LabelIn, LabelFieldsAre
<1> HIDE DEF k
<1> QED BY <1>4, <1>5, LabelIn DEF Relabels, Events, k

(* What is settled stays if blocks are removed. *)
LEMMA BlocksGo ==
  ASSUME NEW g, NEW h, SettledOK(g), Events(h) \subseteq Events(g), \A e \in Events(h) : h.lab[e] = g.lab[e],
         \A e \in Events(g) \ Events(h) : g.lab[e].typ = "B"
  PROVE  Stays(g, h)
BY DEF SettledOK, Settled, Stays

(******************************** Revisits *********************************)

(* What calcRevisits() does: some blocked reads get the store, others get   *)
(* items.                                                                   *)
Calculated(x, y, s, reads, more) ==
    /\ DOMAIN y = {"graph", "workqueue"}
    /\ y.workqueue = x.workqueue \o more /\ IsSeq(more)
    /\ reads \subseteq getRevisitable(x.graph, s)
    /\ \/ y.graph = x.graph /\ reads = {}
       \/ Ipr /\ y.graph = revisitInPlace(x.graph, reads, s) /\ \A r \in reads : ReadBlocks(x.graph, r)
    /\ \A i \in DOMAIN more : \E r \in getRevisitable(x.graph, s) :
          more[i] = Item("BR", r, s) /\ isMaximalExtension(y.graph, r, s)

(* The reads that the checker lets a write revisit can be revisited. *)
LEMMA RevisitableIn ==
  ASSUME CheckerOK, NEW p, NEW g, NEW X, GraphOK(p, g, X), NEW s \in Events(g), g.lab[s].typ = "W"
  PROVE  ToSet(getRevisitableApproximation(g, s)) \subseteq getRevisitable(g, s)
<1> DEFINE all == getRevisitable(g, s)
           S == FilterCoherentRevisits(g, s, all)
           loads == getRevisitableApproximation(g, s)
<1>1. all \subseteq Events(g)
  BY DEF getRevisitable, readers, Reads, OfType
<1>2. loads = NewestFirst(g, S)
  BY DEF getRevisitableApproximation
<1> HIDE DEF all, loads
<1>3. S \subseteq all
  <2>1. PICK hb : \A x, w, y : FilterCoherentRevisits(x, w, y) = CoherentRevisits(x, w, y, hb, FALSE)
    BY DEF CheckerOK
  <2> QED BY <2>1 DEF CoherentRevisits
<1> HIDE DEF S
<1>4. loads \in Seq(S)
  BY <1>1, <1>2, <1>3, NewestFirstIsSeq DEF GraphOK, Shape
<1>5. ToSet(loads) \subseteq S
  BY <1>4, SeqFacts
<1> QED BY <1>3, <1>5 DEF all, loads

(* What calcRevisits() does is of that form. *)
LEMMA CalcIs ==
  ASSUME CheckerOK, NEW p, ProgramOK(p), NEW x, ExecOK(p, x), Ipr => NoDangling(x.graph), NEW s \in Events(x.graph),
         x.graph.lab[s].typ = "W", s \in ToSet(x.graph.co[Loc(x.graph, s)])
  PROVE  \E reads, more : Calculated(x, calcRevisits(x, s), s, reads, more)
<1> DEFINE g == x.graph
           loads == getRevisitableApproximation(g, s)
           o == tryOptimizeIPRs(g, s, loads)
           h == o.graph
           bad == {i \in DOMAIN o.loads : ~isMaximalExtension(h, o.loads[i], s)}
           n == Min(bad \cup {Len(o.loads) + 1}) - 1
           more == [i \in 1 .. n |-> Item("BR", o.loads[i], s)]
           blocked == {r \in ToSet(loads) : ReadBlocks(g, r)}
           reads == IF Ipr THEN blocked ELSE {}
           y == calcRevisits(x, s)
<1>1. y = [graph |-> h, workqueue |-> x.workqueue \o more]
  BY DEF calcRevisits, pushRevisits
<1>2. GraphOK(p, g, {})
  BY DEF ExecOK
<1>3. /\ loads \in Seq(ToSet(loads)) /\ ToSet(loads) \subseteq getRevisitable(g, s)
      /\ \A r \in ToSet(loads) : r \in Reads(g) /\ Loc(g, r) = Loc(g, s)
  BY <1>2, RevisitableReads, RevisitableIn
<1> HIDE DEF loads
<1>4. o.loads \in Seq(ToSet(o.loads)) /\ ToSet(o.loads) \subseteq ToSet(loads)
  BY <1>2, <1>3, OptimizeOK
<1>5. \/ h = g /\ reads = {}
      \/ Ipr /\ h = revisitInPlace(g, reads, s) /\ \A r \in reads : ReadBlocks(g, r)
  <2>1. CASE ~Ipr
    BY <2>1 DEF tryOptimizeIPRs
  <2>2. CASE Ipr
    <3>1. o.graph = revisitInPlace(g, blocked, s)
      BY <2>2 DEF tryOptimizeIPRs, WithIPRs
    <3> QED BY <2>2, <3>1
  <2> QED BY <2>1, <2>2
<1>6. reads \subseteq getRevisitable(g, s)
  BY <1>3
<1> HIDE DEF o, reads
<1>7. Len(o.loads) \in Nat /\ DOMAIN o.loads = 1 .. Len(o.loads)
  BY <1>4
<1>8. n \in Nat /\ n <= Len(o.loads) /\ \A i \in 1 .. n : i \notin bad
  <2> DEFINE S == bad \cup {Len(o.loads) + 1}
  <2>2. S \subseteq Nat /\ S # {} /\ \A i \in S : i >= 1
    BY <1>7
  <2>3. Len(o.loads) + 1 \in S /\ bad \subseteq S
    OBVIOUS
  <2> HIDE DEF S, bad
  <2>4. Min(S) \in S /\ Min(S) <= Len(o.loads) + 1 /\ \A i \in S : Min(S) <= i
    BY <2>2, <2>3, MinIn
  <2>5. n = Min(S) - 1 /\ Min(S) \in Nat /\ Min(S) >= 1
    BY <2>2, <2>4 DEF S
  <2> HIDE DEF n
  <2>6. n \in Nat /\ n <= Len(o.loads)
    BY <1>7, <2>4, <2>5
  <2>7. \A i \in 1 .. n : i \notin bad
    BY <2>3, <2>4, <2>5
  <2> QED BY <2>6, <2>7
<1>9. \A i \in 1 .. n : i \in DOMAIN o.loads
  BY <1>7, <1>8
<1>10. ASSUME NEW i \in 1 .. n
       PROVE  o.loads[i] \in getRevisitable(g, s) /\ isMaximalExtension(h, o.loads[i], s)
  <2>1. i \in DOMAIN o.loads /\ i \notin bad
    BY <1>8, <1>9
  <2>2. o.loads[i] \in ToSet(o.loads)
    BY <1>4, <2>1, SeqFacts
  <2> QED BY <1>3, <1>4, <2>1, <2>2
<1> HIDE DEF n
<1>11. IsSeq(more)
  <2> DEFINE R == {Item("BR", o.loads[i], s) : i \in 1 .. n}
  <2>1. \A i \in 1 .. n : Item("BR", o.loads[i], s) \in R
    OBVIOUS
  <2> HIDE DEF R
  <2>2. more \in Seq(R)
    BY <1>8, <2>1
  <2> HIDE DEF more
  <2> QED BY <2>2, SeqFacts
<1>12. \A i \in DOMAIN more : \E r \in getRevisitable(g, s) : more[i] = Item("BR", r, s) /\ isMaximalExtension(h, r, s)
  BY <1>10
<1> HIDE DEF more, h
<1>13. y.graph = h /\ y.workqueue = x.workqueue \o more /\ DOMAIN y = {"graph", "workqueue"}
  BY <1>1
<1>14. Calculated(x, y, s, reads, more)
  <2> HIDE DEF y
  <2> QED BY <1>5, <1>6, <1>11, <1>12, <1>13 DEF Calculated
<1> QED BY <1>14 DEF y

(* Reads that may be revisited are not settled. *)
LEMMA RevisitableNotSettled ==
  ASSUME NEW g, NEW s
  PROVE  getRevisitable(g, s) \cap Settled(g) = {}
BY DEF getRevisitable, isStable, Settled

(* Revisiting in place changes nothing that is settled. *)
LEMMA InPlaceStays ==
  ASSUME NEW p, NEW g, NEW k, NEW h, NEW rf, NEW K, InPlace(p, g, k, h, rf, K), SettledOK(g),
         DOMAIN rf \cap Settled(g) = {}
  PROVE  Stays(g, h)
<1>1. Stays(g, k)
  BY BlocksGo DEF InPlace, Shrunk
<1>2. Relabels(k, h, DOMAIN rf)
  BY ReadMaximallyRelabels DEF InPlace
<1>3. DOMAIN rf \cap Settled(k) = {}
  BY <1>1 DEF Stays
<1>4. Stays(k, h)
  BY <1>2, <1>3, RelabelStays
<1> QED BY <1>1, <1>4, StaysTrans

(* calcRevisits() leaves all that is settled alone: a backward revisit may  *)
(* remove only what was added in the canonical way and is revisitable.      *)
LEMMA CalcSettles ==
  ASSUME CheckerOK, NEW p, ProgramOK(p), NEW x, ExecOK(p, x), Ipr => NoDangling(x.graph), NEW s \in Events(x.graph),
         x.graph.lab[s].typ = "W", s \in ToSet(x.graph.co[Loc(x.graph, s)]), Youngest(x.graph, s),
         ExecSettled(x), s \notin Settled(x.graph)
  PROVE  Settles(x, calcRevisits(x, s))
<1> DEFINE y == calcRevisits(x, s)
           g == x.graph
           h == y.graph
<1>1. PICK reads, more : Calculated(x, y, s, reads, more)
  BY CalcIs
<1>2. ExecOK(p, y) /\ Revisited(g, h, s)
  BY CalcRevisitsOK
<1> HIDE DEF y
<1>3. GraphOK(p, g, {}) /\ GraphOK(p, h, {}) /\ SettledOK(g) /\ ItemsOK(g, x.workqueue)
  BY <1>2 DEF ExecOK, ExecSettled
<1>4. reads \cap Settled(g) = {} /\ \A r \in reads : r \in Reads(g) /\ Loc(g, r) = Loc(g, s)
  BY <1>1, RevisitableNotSettled DEF Calculated, getRevisitable, readers
<1>5. Stays(g, h)
  <2>1. CASE h = g
    BY <2>1, StaysRefl
  <2>2. CASE Ipr /\ h = revisitInPlace(g, reads, s) /\ \A r \in reads : ReadBlocks(g, r)
    <3>1. PICK k, K, rf : InPlace(p, g, k, h, rf, K) /\ DOMAIN rf = reads
      BY <1>3, <1>4, <2>2, RevisitInPlaceSteps
    <3> QED BY <1>3, <1>4, <3>1, InPlaceStays
  <2> QED BY <1>1, <2>1, <2>2 DEF Calculated
<1> DEFINE z == [graph |-> h, workqueue |-> x.workqueue]
<1>6. z.graph = h /\ z.workqueue = x.workqueue
  OBVIOUS
<1> HIDE DEF z
<1>7. Settles(x, z)
  <2>1. Keeps(g, z.graph, Events(h)) /\ \A e \in Events(g) \ Events(h) : g.lab[e].typ = "B"
    BY <1>2, <1>6 DEF Revisited
  <2>2. Stays(g, z.graph)
    BY <1>5, <1>6
  <2> QED BY <1>3, <1>6, <2>1, <2>2, KeptSettled
<1>8. ASSUME NEW i \in DOMAIN more PROVE ItemSettled(h, more[i])
  <2> DEFINE item == more[i]
  <2>1. PICK r \in getRevisitable(g, s) : item = Item("BR", r, s) /\ isMaximalExtension(h, r, s)
    BY <1>1 DEF Calculated
  <2>2. item.kind = "BR" /\ item.pos = r /\ item.rev = s
    BY <2>1 DEF Item
  <2> HIDE DEF item
  <2>3. CutEvent(item) = s
    BY <2>2 DEF CutEvent
  <2>4. s \notin Settled(h)
    BY <1>5 DEF Stays
  <2>5. Youngest(h, s)
    <3>1. Events(h) \subseteq Events(g) /\ Keeps(g, h, Events(h)) /\ g.lab[s].typ # "B"
      BY <1>2 DEF Revisited
    <3>2. s \in Events(h)
      BY <1>2 DEF Revisited
    <3> QED BY <3>1, <3>2 DEF Keeps, Youngest
  <2>6. ASSUME NEW e \in Settled(h)
        PROVE  /\ e[2] > 0 => Stamp(h, e) <= Stamp(h, s)
               /\ e[2] = 0 /\ e[1] > 0 => Stamp(h, CreateId(h, e[1])) <= Stamp(h, s)
    <3>1. e \in Events(h)
      BY DEF Settled
    <3>2. e[2] = 0 /\ e[1] > 0 => CreateId(h, e[1]) \in Events(h) /\ CreateId(h, e[1])[2] > 0
      BY <1>3, <3>1, BeginIs
    <3> QED BY <2>5, <3>1, <3>2 DEF Youngest
  <2>7. r \notin Settled(h)
    BY <1>5, RevisitableNotSettled DEF Stays
  <2>8. ASSUME NEW e \in Settled(h), e[2] > 0 PROVE Stamp(h, e) <= Stamp(h, r) \/ e \in FullPrefix(h, s)
    <3> DEFINE v == getRevisitView(h, r, s)
    <3>1. ~DepTracking
      BY DEF CheckerOK
    <3>2. v = getViewFromStamp(h, Stamp(h, r)) \cup h.lab[s].prefix
      BY <3>1 DEF getRevisitView, updatePredsWithPrefixView, getPrefixView
    <3>3. e \notin Affected(h, r, s, v)
      BY <2>1, <2>8 DEF isMaximalExtension, Settled
    <3>4. InView(v, e)
      BY <3>1, <3>3, <2>8 DEF Affected, prefixContainsSameLoc, Settled
    <3>5. e \in v
      BY <2>8, <3>4 DEF InView
    <3> HIDE DEF v
    <3> QED BY <3>2, <3>5 DEF getViewFromStamp, FullPrefix
  <2>9. ItemSettled(h, item)
    BY <2>2, <2>3, <2>4, <2>6, <2>7, <2>8 DEF ItemSettled
  <2> QED BY <2>9 DEF item
<1>9. Settles(z, y)
  <2>1. ExecSettled(z) /\ IsSeq(z.workqueue) /\ IsSeq(more) /\ y.workqueue = z.workqueue \o more /\ y.graph = z.graph
    BY <1>1, <1>3, <1>6, <1>7 DEF Calculated, ItemsOK, Settles
  <2> QED BY <1>6, <1>8, <2>1, PushedSettled
<1>10. Settles(x, y)
  BY <1>7, <1>9, SettlesTrans
<1> QED BY <1>10 DEF y

(***************************** Cuts and copies *****************************)

(* Events are pairs of naturals. *)
LEMMA EventsArePairs ==
  ASSUME NEW p, NEW g, NEW X, GraphOK(p, g, X)
  PROVE  Events(g) \subseteq Nat \X Nat
BY DEF GraphOK, Shape

(* What a cut or a copy to a view does to labels and coherence. *)
CutLabels(g, k, v) ==
    /\ Events(k) = KeptEvents(g, v)
    /\ \A e \in KeptEvents(g, v) :
          /\ k.lab[e].revisitable = g.lab[e].revisitable
          /\ g.lab[e].rf = Bottom \/ InView(v, g.lab[e].rf) => k.lab[e] = g.lab[e]
    /\ \A l \in Locs : k.co[l] = Kept(g.co[l], KeptEvents(g, v))

(* Keeping the labels of a view cuts the graph to it. *)
LEMMA KeepLabelsCut ==
  ASSUME NEW p, NEW g, NEW v, NEW K, NEW stamps, GraphOK(p, g, {}), ViewOK(g, v), K = KeptEvents(g, v)
  PROVE  CutLabels(g, KeepLabels(g, v, K, {}, stamps), v)
<1> DEFINE h == KeepLabels(g, v, K, {}, stamps)
           L(e) == IF g.lab[e].rf = Bottom \/ InView(v, g.lab[e].rf) THEN g.lab[e]
                   ELSE [g.lab[e] EXCEPT !.rf = Bottom]
           lin == {q \in g.lin : q[1] \in K /\ q[2] \in K}
<1>1. K \subseteq Events(g)
  BY ViewClosed DEF KeptEvents, Closed
<1>2. h = [stamp |-> stamps, lab |-> [e \in K |-> L(e)], co |-> [l \in Locs |-> Kept(g.co[l], K)], lin |-> lin]
  <2>1. K \cup {} = K
    OBVIOUS
  <2>2. [e \in K \cup {} |-> IF e \in {} THEN createHoleLabel(e) ELSE L(e)] = [e \in K |-> L(e)]
    BY <2>1
  <2> QED BY <2>2 DEF KeepLabels
<1>3. h.lab = [e \in K |-> L(e)] /\ h.co = [l \in Locs |-> Kept(g.co[l], K)]
  <2> HIDE DEF L, lin
  <2> QED BY <1>2
<1> HIDE DEF h
<1>4. Events(h) = K /\ \A e \in K : h.lab[e] = L(e)
  BY <1>3 DEF Events
<1>5. ASSUME NEW e \in K PROVE h.lab[e].revisitable = g.lab[e].revisitable
  <2>1. DOMAIN g.lab[e] = LabelFields
    BY <1>1, LabelIn
  <2> QED BY <1>4, <2>1, LabelFieldsAre
<1>6. \A e \in K : g.lab[e].rf = Bottom \/ InView(v, g.lab[e].rf) => h.lab[e] = g.lab[e]
  BY <1>4
<1>7. \A l \in Locs : h.co[l] = Kept(g.co[l], K)
  BY <1>3
<1> QED BY <1>4, <1>5, <1>6, <1>7 DEF CutLabels, h

(* So does the cut at a stamp. *)
LEMMA CutCuts ==
  ASSUME NEW p, NEW g, NEW n, GraphOK(p, g, {}), ViewOK(g, getViewFromStamp(g, n))
  PROVE  CutLabels(g, cutToStamp(g, n), getViewFromStamp(g, n))
<1> DEFINE v == getViewFromStamp(g, n)
           K == KeptEvents(g, v)
           stamps == [e \in K |-> Restamped(g, K)[e]]
<1>1. Holes(g, v) = {}
  BY ViewClosed
<1>2. v \cup {} = v
  OBVIOUS
<1> HIDE DEF v
<1>3. cutToStamp(g, n) = CutTo(g, v, {}, OrphanedBegins(g, v, v))
  BY <1>1, <1>2 DEF cutToStamp, v
<1>4. CutTo(g, v, {}, OrphanedBegins(g, v, v)) = KeepLabels(g, v, K, {}, stamps)
  <2>1. [e \in K \cup {} |-> IF e \in {} THEN Cardinality(K) + Cardinality({d \in {} : Before(d, e)})
                             ELSE Restamped(g, K)[e]] = stamps
    OBVIOUS
  <2> QED BY <2>1 DEF CutTo, KeptEvents
<1> HIDE DEF K, stamps
<1>7. CutLabels(g, KeepLabels(g, v, K, {}, stamps), v)
  BY KeepLabelsCut DEF K, v
<1> QED BY <1>3, <1>4, <1>7 DEF v

(* And the copy for a backward revisit. *)
LEMMA CopyCuts ==
  ASSUME NEW p, NEW g, NEW v, GraphOK(p, g, {}), ViewOK(g, v)
  PROVE  CutLabels(g, getCopyUpTo(g, v), v)
<1> DEFINE K == KeptEvents(g, v)
<1>1. Holes(g, v) = {}
  BY ViewClosed
<1>2. v \cup {} = v
  OBVIOUS
<1>3. getCopyUpTo(g, v) = CopyUpTo(g, v, {}, OrphanedBegins(g, v, v))
  BY <1>1, <1>2 DEF getCopyUpTo
<1>4. CopyUpTo(g, v, {}, OrphanedBegins(g, v, v)) = KeepLabels(g, v, K, {}, Restamped(g, K))
  <2>1. K \cup {} = K
    OBVIOUS
  <2>2. CopyUpTo(g, v, {}, OrphanedBegins(g, v, v)) = KeepLabels(g, v, K, {}, Restamped(g, K \cup {}))
    BY DEF CopyUpTo, KeptEvents
  <2> QED BY <2>1, <2>2
<1>5. CutLabels(g, KeepLabels(g, v, K, {}, Restamped(g, K)), v)
  BY KeepLabelsCut
<1> QED BY <1>3, <1>4, <1>5

(* Repairing changes reads that have no store. *)
LEMMA RepairRelabels ==
  ASSUME NEW p, NEW g, NEW X, GraphOK(p, g, X)
  PROVE  Relabels(g, repairDanglingReads(g), {r \in Reads(g) : g.lab[r].rf = Bottom})
<1> DEFINE lost == {r \in Reads(g) : g.lab[r].rf = Bottom /\ r[2] = LastIndex(g, r[1])}
           rf == [r \in lost |-> co_max(g, Loc(g, r))]
           h == repairDanglingReads(g)
           E == {r \in Reads(g) : g.lab[r].rf = Bottom}
<1>1. h = ReadMaximally(g, rf) /\ DOMAIN rf = lost
  BY DEF repairDanglingReads
<1>2. lost \subseteq E
  OBVIOUS
<1> HIDE DEF rf, lost
<1>3. Relabels(g, h, lost)
  BY <1>1, ReadMaximallyRelabels
<1> HIDE DEF h, E
<1> QED BY <1>2, <1>3 DEF Relabels, h, E

(* So what is settled stays: it reads stores that are settled. *)
LEMMA RepairStays ==
  ASSUME CheckerOK, NEW p, NEW g, GraphOK(p, g, LostReads(g)), SettledOK(g)
  PROVE  Stays(g, repairDanglingReads(g))
<1> DEFINE h == repairDanglingReads(g)
           E == {r \in Reads(g) : g.lab[r].rf = Bottom}
<1>1. Relabels(g, h, E)
  BY RepairRelabels
<1>2. SameText(g, h)
  BY RepairOK DEF Reread
<1> HIDE DEF h
<1>3. ASSUME NEW e \in E \cap Settled(g) PROVE NonAtomicRead(g.lab[e]) /\ NonAtomicRead(h.lab[e])
  <2>1. e \in Events(g) /\ g.lab[e].typ = "R" /\ g.lab[e].rf = Bottom /\ e \in Settled(g)
    BY DEF Reads, OfType
  <2>2. Bottom # InitEvent /\ Bottom \notin Settled(g)
    <3>1. Bottom # InitEvent
      BY DEF Bottom, InitEvent
    <3>2. Bottom \notin Nat \X Nat
      BY DEF Bottom
    <3> QED BY <3>1, <3>2, EventsArePairs DEF Settled
  <2>3. g.lab[e].ins.mo = "na"
    BY <2>1, <2>2 DEF SettledOK
  <2> QED BY <1>2, <2>1, <2>3 DEF NonAtomicRead, SameText
<1> QED BY <1>1, <1>3, RelabelStays DEF h

(* A cut or a copy that keeps what is settled leaves it closed under what   *)
(* it reads, and changes only the stores of non-atomic reads.               *)
LEMMA ShrunkSettled ==
  ASSUME NEW p, NEW g, NEW k, NEW v, GraphOK(p, g, {}), SettledOK(g), ViewOK(g, v),
         Shrunk(g, k, KeptEvents(g, v)), CutLabels(g, k, v), \A e \in Settled(g) : e[2] > 0 => e \in v
  PROVE  /\ SettledOK(k) /\ Settled(k) = Settled(g) \cap KeptEvents(g, v)
         /\ \A e \in Settled(k) : k.lab[e] = g.lab[e] \/ (NonAtomicRead(g.lab[e]) /\ NonAtomicRead(k.lab[e]))
<1> DEFINE K == KeptEvents(g, v)
<1>1. K \subseteq Events(g) /\ v \subseteq K
  BY ViewClosed DEF KeptEvents
<1>2. Settled(k) = Settled(g) \cap K
  BY <1>1 DEF CutLabels, Settled
<1>3. ASSUME NEW e \in Settled(k)
      PROVE  k.lab[e] = g.lab[e] \/ (NonAtomicRead(g.lab[e]) /\ NonAtomicRead(k.lab[e]))
  <2>1. e \in K /\ e \in Settled(g) /\ e \in Events(g)
    BY <1>1, <1>2
  <2> DEFINE w == g.lab[e].rf
  <2>2. CASE w = Bottom \/ InView(v, w)
    BY <2>1, <2>2 DEF CutLabels
  <2>3. CASE w # Bottom /\ ~InView(v, w)
    <3>1. g.lab[e].typ = "R" /\ w \in Events(g) /\ (w = InitEvent \/ g.lab[w].typ = "W")
      BY <2>1, <2>3, StoreIsEvent
    <3>2. w[2] # 0 /\ w \notin v
      BY <2>3 DEF InView
    <3>3. w # InitEvent /\ w[2] > 0
      <4>1. w[2] \in Nat
        BY <3>1, ThreadOf
      <4> QED BY <3>2, <4>1 DEF InitEvent
    <3>4. w \notin Settled(g)
      BY <3>2, <3>3
    <3>5. g.lab[e].ins.mo = "na"
      BY <2>1, <3>1, <3>3, <3>4 DEF SettledOK
    <3>6. k.lab[e].typ = "R" /\ k.lab[e].ins.mo = "na"
      BY <2>1, <3>1, <3>5 DEF Shrunk
    <3> QED BY <3>1, <3>5, <3>6 DEF NonAtomicRead
  <2> QED BY <2>2, <2>3
<1>4. ASSUME NEW e \in Settled(k)
      PROVE  /\ k.lab[e].typ # "B"
             /\ k.lab[e].typ = "R" /\ k.lab[e].ins.mo # "na" => k.lab[e].rf \in {InitEvent} \cup Settled(k)
  <2>1. e \in K /\ e \in Settled(g) /\ e \in Events(g)
    BY <1>1, <1>2
  <2>2. k.lab[e].typ # "B"
    BY <2>1 DEF SettledOK, Shrunk
  <2>3. ASSUME k.lab[e].typ = "R", k.lab[e].ins.mo # "na" PROVE k.lab[e].rf \in {InitEvent} \cup Settled(k)
    <3>1. k.lab[e] = g.lab[e]
      BY <1>3, <2>3 DEF NonAtomicRead
    <3> DEFINE w == g.lab[e].rf
    <3>2. w \in {InitEvent} \cup Settled(g)
      BY <2>1, <2>3, <3>1 DEF SettledOK
    <3>3. w # InitEvent => w \in K
      <4> SUFFICES ASSUME w # InitEvent PROVE w \in K
        OBVIOUS
      <4>1. w \in Settled(g) /\ w \in Events(g)
        BY <3>2 DEF Settled
      <4>2. w # Bottom
        <5>1. Bottom \notin Nat \X Nat
          BY DEF Bottom
        <5> QED BY <4>1, <5>1, EventsArePairs
      <4>3. g.lab[w].typ = "W"
        BY <2>1, <4>2, StoreIsEvent
      <4>4. w[2] > 0
        <5>1. w[2] # 0 /\ w[2] \in Nat
          BY <4>1, <4>3, ThreadOf DEF GraphOK, Kinds
        <5> QED BY <5>1
      <4> QED BY <1>1, <4>1, <4>4
    <3> QED BY <1>2, <3>1, <3>2, <3>3
  <2> QED BY <2>2, <2>3
<1> QED BY <1>2, <1>3, <1>4 DEF SettledOK

(* A cut leaves what is settled, and the older items leave it, too. *)
LEMMA CutSettles ==
  ASSUME CheckerOK, NEW p, NEW x, ExecOK(p, x), ExecSettled(x), x.workqueue # <<>>
  PROVE  LET item == Last(x.workqueue)
             y == CutAt(x, CutEvent(item))
         IN Settles(x, y) /\ ItemSettled(y.graph, item)
<1> DEFINE g == x.graph
           item == Last(x.workqueue)
           c == CutEvent(item)
           n == Stamp(g, c)
           v == getViewFromStamp(g, n)
           k == cutToStamp(g, n)
           h == repairDanglingReads(k)
           y == CutAt(x, c)
           K == KeptEvents(g, v)
<1>1. GraphOK(p, g, {}) /\ ItemsOK(g, x.workqueue) /\ SettledOK(g)
  BY DEF ExecOK, ExecSettled
<1>2. /\ item = x.workqueue[Len(x.workqueue)] /\ Len(x.workqueue) \in DOMAIN x.workqueue
      /\ \A j \in DOMAIN Front(x.workqueue) : j \in DOMAIN x.workqueue /\ Front(x.workqueue)[j] = x.workqueue[j]
  BY <1>1, FrontItems
<1>3. ItemOK(g, item) /\ ItemSettled(g, item)
  BY <1>1, <1>2 DEF ItemsOK, ExecSettled
<1>4. c \in Events(g) /\ c[2] > 0
  BY <1>1, <1>3, CutOfItem
<1>5. y.graph = h /\ y.workqueue = Front(x.workqueue)
  BY DEF CutAt
<1>6. ExecOK(p, y) /\ ItemOK(y.graph, item)
  BY CutAtOK
<1>7. n \in Nat
  BY <1>1, <1>4, StampFacts
<1>8. \A e \in Settled(g) : /\ e[2] > 0 => Stamp(g, e) <= n
                            /\ e[2] = 0 /\ e[1] > 0 => Stamp(g, CreateId(g, e[1])) <= n
  BY <1>3 DEF ItemSettled
<1>9. \A e : e \in v <=> e \in Events(g) /\ e[2] > 0 /\ Stamp(g, e) <= n
  BY DEF getViewFromStamp
<1>10. ViewOK(g, v) /\ PrefixView(g, v)
  BY <1>1, <1>7, StampView
<1>11. Shrunk(g, k, K) /\ CutLabels(g, k, v)
  BY <1>1, <1>10, CutShrinks, CutCuts
<1> HIDE DEF c, n, v, k, y
<1>12. \A e \in Settled(g) : e \in Events(g) /\ (e[2] > 0 => e \in v)
  BY <1>8, <1>9 DEF Settled
<1>13. ASSUME NEW e \in Settled(g), e[2] = 0, e[1] > 0 PROVE CreateId(g, e[1]) \in v
  <2>1. e \in Events(g)
    BY <1>12
  <2>2. CreateId(g, e[1]) \in Events(g) /\ CreateId(g, e[1])[2] > 0
    BY <1>1, <1>13, <2>1, BeginIs
  <2> QED BY <1>8, <1>9, <1>13, <2>2
<1>14. v \subseteq K /\ Events(k) = K
  BY <1>1, <1>10, <1>11, ViewClosed DEF KeptEvents, Shrunk
<1>15. Settled(g) \subseteq K
  <2> SUFFICES ASSUME NEW e \in Settled(g), e[2] = 0 PROVE e \in K
    <3>1. ASSUME NEW e \in Settled(g) PROVE e[2] = 0 \/ e[2] > 0
      <4>1. e[2] \in Nat
        BY <1>1, <1>12, ThreadOf
      <4> QED BY <4>1
    <3> QED BY <1>12, <1>14, <3>1
  <2>1. e \in Events(g) /\ e[1] \in Nat /\ e = <<e[1], 0>>
    BY <1>1, <1>12, ThreadOf
  <2>2. e[1] \notin OrphanedBegins(g, v, v)
    <3>1. CASE e[1] = 0
      BY <3>1 DEF OrphanedBegins
    <3>2. CASE e[1] > 0
      BY <1>13, <3>2 DEF OrphanedBegins, CreateId
    <3> QED BY <2>1, <3>1, <3>2
  <2> QED BY <2>1, <2>2 DEF KeptEvents, Left
<1>16. SettledOK(k) /\ Stays(g, k)
  <2>1. /\ SettledOK(k) /\ Settled(k) = Settled(g) \cap K
        /\ \A e \in Settled(k) : k.lab[e] = g.lab[e] \/ (NonAtomicRead(g.lab[e]) /\ NonAtomicRead(k.lab[e]))
    BY <1>1, <1>10, <1>11, <1>12, ShrunkSettled
  <2> QED BY <1>15, <2>1 DEF Stays
<1>17. GraphOK(p, k, LostReads(k))
  BY <1>1, <1>10, <1>11, ShrunkToView
<1>18. Stays(k, h)
  BY <1>16, <1>17, RepairStays
<1>19. Stays(g, h) /\ SettledOK(h)
  BY <1>1, <1>16, <1>18, StaysTrans, StaysOK
<1>20. Events(h) = K /\ Keeps(g, h, Events(h))
  BY <1>1, <1>10, <1>11, ShrinkAndRepair
<1>21. HasSettled(g, Events(h))
  BY <1>12, <1>13, <1>14, <1>20 DEF HasSettled
<1> HIDE DEF h, K
<1>22. ASSUME NEW it, ItemOK(g, it), ItemSettled(g, it), ItemOK(h, it) PROVE ItemSettled(h, it)
  <2>1. it.pos \in Events(h) /\ it.rev \in Events(h)
    BY <1>22 DEF ItemOK
  <2> QED BY <1>1, <1>19, <1>20, <1>21, <1>22, <2>1, KeptItemSettled
<1>23. \A j \in DOMAIN y.workqueue : ItemSettled(y.graph, y.workqueue[j])
  <2> SUFFICES ASSUME NEW j \in DOMAIN y.workqueue PROVE ItemSettled(h, y.workqueue[j])
    BY <1>5
  <2>1. j \in DOMAIN x.workqueue /\ y.workqueue[j] = x.workqueue[j]
    BY <1>2, <1>5
  <2>2. ItemOK(g, x.workqueue[j]) /\ ItemSettled(g, x.workqueue[j])
    BY <1>1, <2>1 DEF ItemsOK, ExecSettled
  <2>3. ItemOK(h, y.workqueue[j])
    BY <1>5, <1>6 DEF ExecOK, ItemsOK
  <2> QED BY <1>22, <2>1, <2>2, <2>3
<1>24. ItemSettled(y.graph, item)
  BY <1>3, <1>5, <1>6, <1>22
<1>25. Settles(x, y)
  BY <1>5, <1>19, <1>23 DEF Settles, ExecSettled
<1> QED BY <1>24, <1>25 DEF y, c

(* The copy of a backward revisit, before reads that lost their store are   *)
(* repaired: it has what is not newer than the read and what the store      *)
(* depends on, and settles the latter.                                      *)
Copies(p, g, item, k, v) ==
    LET r == item.pos
        P == FullPrefix(g, item.rev)
        K == KeptEvents(g, v)
    IN /\ k = copyGraph(g, r, item.rev)
       /\ r \in Events(g) /\ r[2] > 0 /\ g.lab[r].typ = "R"
       /\ item.rev \in Events(g) /\ g.lab[item.rev].typ = "W" /\ r \notin P
       /\ PrefixOK(g, item.rev)
       /\ ViewOK(g, v) /\ PrefixView(g, v) /\ v = getViewFromStamp(g, Stamp(g, r)) \cup P
       /\ Shrunk(g, k, K) /\ GraphOK(p, k, LostReads(k))
       /\ SettledOK(k) /\ Settled(k) = (Settled(g) \cap K) \cup {e \in K : InView(P, e)}

(* copyGraph() makes such a copy. *)
LEMMA CopySteps ==
  ASSUME CheckerOK, NEW p, NEW g, GraphOK(p, g, {}), Joins(g), NoDangling(g), SettledOK(g),
         NEW item, ItemOK(g, item), item.kind = "BR", ItemSettled(g, item)
  PROVE  Copies(p, g, item, copyGraph(g, item.pos, item.rev), getRevisitView(g, item.pos, item.rev))
<1> DEFINE r == item.pos
           s == item.rev
           P == getPrefixView(g, s)
           v == getRevisitView(g, r, s)
           c == getCopyUpTo(g, v)
           k == Settle(c, P)
           K == KeptEvents(g, v)
<1>1. k = copyGraph(g, r, s)
  BY DEF copyGraph
<1>2. /\ r \in Events(g) /\ r[2] > 0 /\ g.lab[r].typ = "R" /\ s \in Events(g)
      /\ s \in ToSet(g.co[Loc(g, r)]) /\ r \notin FullPrefix(g, s)
  BY DEF ItemOK
<1>3. Loc(g, r) \in Locs /\ g.lab[s].typ = "W"
  BY <1>2 DEF GraphOK, Texts, Loc, CoherenceOK
<1>4. ViewOK(g, v) /\ PrefixView(g, v)
  BY <1>2, <1>3, RevisitView DEF CheckerOK
<1>5. v = getViewFromStamp(g, Stamp(g, r)) \cup P
  BY DEF getRevisitView, updatePredsWithPrefixView, CheckerOK
<1>6. P = FullPrefix(g, s)
  BY <1>2, <1>3 DEF getPrefixView, FullPrefix, GraphOK, PrefixesOK
<1>7. Shrunk(g, c, K) /\ CutLabels(g, c, v)
  BY <1>4, CopyShrinks, CopyCuts
<1> HIDE DEF v, P, c
<1>8. v \subseteq K /\ Events(c) = K /\ K \subseteq Events(g)
  BY <1>4, <1>7, ViewClosed DEF KeptEvents, Shrunk
<1>9. \A e \in Settled(g) : e[2] > 0 => e \in v
  <2> SUFFICES ASSUME NEW e \in Settled(g), e[2] > 0 PROVE e \in v
    OBVIOUS
  <2>1. Stamp(g, e) <= Stamp(g, r) \/ e \in FullPrefix(g, s)
    BY DEF ItemSettled
  <2>2. e \in Events(g)
    BY DEF Settled
  <2> QED BY <1>5, <1>6, <2>1, <2>2 DEF getViewFromStamp
<1>10. SettledOK(c) /\ Settled(c) = Settled(g) \cap K
  BY <1>4, <1>7, <1>9, ShrunkSettled
<1>11. /\ Events(k) = K /\ \A e \in K : k.lab[e] = [c.lab[e] EXCEPT !.revisitable = @ /\ ~InView(P, e)]
  <2>1. DOMAIN c = {"stamp", "lab", "co", "lin"}
    BY <1>7 DEF Shrunk, GraphOK, Shape
  <2> QED BY <1>8, <2>1 DEF Settle, Events
<1>12. \A e \in K : /\ DOMAIN c.lab[e] = LabelFields
                    /\ c.lab[e].typ = g.lab[e].typ /\ c.lab[e].ins = g.lab[e].ins
  BY <1>7, <1>8 DEF Shrunk, GraphOK, Shape
<1>13. \A e \in K : /\ k.lab[e].typ = g.lab[e].typ /\ k.lab[e].ins = g.lab[e].ins
                    /\ k.lab[e].rf = c.lab[e].rf
                    /\ k.lab[e].revisitable = (c.lab[e].revisitable /\ ~InView(P, e))
  BY <1>11, <1>12 DEF LabelFields, NewLabel
<1>14. Settled(k) = Settled(c) \cup {e \in K : InView(P, e)}
  BY <1>8, <1>11, <1>13 DEF Settled
<1> HIDE DEF k
<1>15. ASSUME NEW e \in Settled(k)
       PROVE  /\ k.lab[e].typ # "B"
              /\ k.lab[e].typ = "R" /\ k.lab[e].ins.mo # "na" => k.lab[e].rf \in {InitEvent} \cup Settled(k)
  <2>1. e \in K /\ e \in Events(g)
    BY <1>8, <1>11 DEF Settled
  <2>2. CASE e \in Settled(c)
    BY <1>10, <1>12, <1>13, <1>14, <2>1, <2>2 DEF SettledOK
  <2>3. CASE e[2] = 0
    <3>1. g.lab[e].typ \in {"INIT", "TS"}
      BY <2>1, <2>3 DEF GraphOK, Kinds
    <3> QED BY <1>13, <2>1, <3>1
  <2>4. CASE e \in P
    <3>1. PrefixOK(g, s)
      BY <1>2, <1>3 DEF GraphOK, PrefixesOK
    <3>2. g.lab[e].typ # "B" /\ FullPrefix(g, e) \subseteq P
      BY <1>6, <2>4, <3>1 DEF PrefixOK
    <3>3. PrefixOK(g, e)
      BY <2>1, <3>2 DEF GraphOK, PrefixesOK
    <3>4. ASSUME g.lab[e].typ = "R", g.lab[e].ins.mo # "na" PROVE k.lab[e].rf \in {InitEvent} \cup Settled(k)
      <4> DEFINE w == g.lab[e].rf
      <4>1. w # Bottom
        BY <2>1, <3>4 DEF NoDangling, Reads, OfType
      <4>2. w = InitEvent \/ w \in P
        BY <3>2, <3>3, <3>4, <4>1 DEF PrefixOK
      <4>3. w \in K
        <5>1. InitEvent \in K
          BY <1>4, ViewClosed DEF KeptEvents, Closed
        <5> QED BY <1>5, <1>8, <4>2, <5>1
      <4>4. k.lab[e].rf = w
        BY <1>7, <1>13, <2>1, <4>3 DEF Shrunk
      <4>5. w = InitEvent \/ w \in Settled(k)
        BY <1>14, <4>2, <4>3 DEF InView
      <4> QED BY <4>4, <4>5
    <3> QED BY <1>13, <2>1, <3>2, <3>4
  <2> QED BY <1>14, <2>2, <2>3, <2>4 DEF InView
<1>16. SettledOK(k)
  BY <1>15 DEF SettledOK
<1>17. Shrunk(g, k, K)
  BY <1>7, <1>8, SettleShrunk DEF k, GraphOK, Shape
<1>18. GraphOK(p, k, LostReads(k))
  BY <1>4, <1>17, ShrunkToView
<1>19. PrefixOK(g, s)
  BY <1>2, <1>3 DEF GraphOK, PrefixesOK
<1> HIDE DEF K
<1> QED BY <1>1, <1>2, <1>3, <1>4, <1>5, <1>6, <1>10, <1>14, <1>16, <1>17, <1>18, <1>19 DEF Copies, K, v

(* A copy settles what the revisiting store depends on, not the read. *)
LEMMA CopySettles ==
  ASSUME CheckerOK, NEW p, NEW g, GraphOK(p, g, {}), Joins(g), NoDangling(g), SettledOK(g),
         NEW item, ItemOK(g, item), item.kind = "BR", ItemSettled(g, item)
  PROVE  LET y == Copied(g, item)
         IN ExecSettled(y) /\ item.pos \notin Settled(y.graph)
<1> DEFINE r == item.pos
           v == getRevisitView(g, r, item.rev)
           k == copyGraph(g, r, item.rev)
           h == repairDanglingReads(k)
           y == Copied(g, item)
<1>1. y = [graph |-> h, workqueue |-> <<>>]
  BY DEF Copied
<1>2. Copies(p, g, item, k, v)
  BY CopySteps
<1> HIDE DEF k, v
<1>3. SettledOK(k) /\ GraphOK(p, k, LostReads(k))
  BY <1>2 DEF Copies
<1>4. SettledOK(h) /\ Settled(h) = Settled(k)
  BY <1>3, RepairStays, StaysOK DEF Stays
<1>5. r \notin Settled(k)
  <2>1. r \notin Settled(g)
    BY DEF ItemSettled
  <2>2. ~InView(FullPrefix(g, item.rev), r)
    BY <1>2 DEF InView, Copies
  <2> QED BY <1>2, <2>1, <2>2 DEF Copies
<1> HIDE DEF h, y
<1> QED BY <1>1, <1>4, <1>5 DEF ExecSettled, y

(* revisitRead() leaves what is settled. *)
LEMMA RevisitReadSettles ==
  ASSUME CheckerOK, NEW p, ProgramOK(p), NEW x, ExecOK(p, x), Ipr => NoDangling(x.graph), NEW r \in Events(x.graph),
         x.graph.lab[r].typ = "R", IsLast(x.graph, r), NEW w, w \in StoresOf(x.graph, r),
         ExecSettled(x), r \notin Settled(x.graph)
  PROVE  Settles(x, revisitRead(x, r, w).exec)
<1> DEFINE g == x.graph
           h == updateLabelViews(setRf(g, r, w), r)
           rv == revisitRead(x, r, w)
           z == [graph |-> h, workqueue |-> x.workqueue]
<1>1. /\ StoreRead(p, x, h, r, w)
      /\ IF valueMakesRMWSucceed(h, r, ValueOf(h, w)) THEN RevisitCompletes(p, x, h, r, w, rv)
         ELSE rv.exec = [graph |-> h, workqueue |-> x.workqueue] /\ rv.ok
  BY RevisitReadSteps
<1>2. GraphOK(p, g, {}) /\ ItemsOK(g, x.workqueue)
  BY DEF ExecOK
<1>3. Relabels(g, h, {r})
  BY <1>2, ReadFromRelabels
<1>4. Stays(g, h)
  BY <1>3, RelabelStays
<1>5. Keeps(g, h, Events(g))
  <2>1. SameText(g, h) /\ h.co = g.co
    BY <1>1 DEF StoreRead
  <2>2. \A e \in Events(g) : g.lab[e].typ = "W" => h.lab[e] = g.lab[e]
    BY <1>3 DEF Relabels
  <2> HIDE DEF h
  <2> QED BY <2>1, <2>2, SameTextKeeps
<1>6. NoDangling(g) => NoDangling(h)
  <2>1. /\ SameText(g, h) /\ h.lab[r].rf # Bottom
        /\ \A e \in Events(g) \ {r} : h.lab[e].rf = g.lab[e].rf
    BY <1>1 DEF StoreRead
  <2> HIDE DEF h, g
  <2> QED BY <2>1 DEF NoDangling, SameText, Reads, OfType
<1> HIDE DEF h, rv
<1>7. z.graph = h /\ z.workqueue = x.workqueue
  OBVIOUS
<1>8. ExecOK(p, z)
  BY <1>1 DEF StoreRead, ExecOK
<1> HIDE DEF z
<1>9. Settles(x, z)
  BY <1>2, <1>4, <1>5, <1>7, KeptSettled
<1>10. CASE ~valueMakesRMWSucceed(h, r, ValueOf(h, w))
  <2>1. rv.exec = z
    BY <1>1, <1>10 DEF z
  <2> QED BY <1>9, <2>1 DEF rv
<1>11. CASE valueMakesRMWSucceed(h, r, ValueOf(h, w))
  <2>1. PICK l, k, m, y :
          /\ ReadCompletes(p, h, r, w, l, k, m)
          /\ y.graph = m /\ y.workqueue = x.workqueue /\ ExecOK(p, y)
          /\ rv.exec = calcRevisits(y, l.pos)
          /\ (NoDangling(h) => NoDangling(m))
    BY <1>1, <1>11 DEF RevisitCompletes
  <2>2. /\ l.pos \in Events(y.graph) /\ y.graph.lab[l.pos].typ = "W"
        /\ l.pos \in ToSet(y.graph.co[Loc(y.graph, l.pos)]) /\ Youngest(y.graph, l.pos)
    BY <2>1 DEF ReadCompletes
  <2>3. Ipr => NoDangling(y.graph)
    BY <1>6, <2>1
  <2>4. Appended(h, k, l) /\ k = addLabelToGraph(h, l) /\ m.lab = k.lab /\ CoGrows(k, m)
    BY <2>1 DEF ReadCompletes
  <2>5. k.lab[l.pos].revisitable
    <3>1. DOMAIN l = LabelFields /\ l.revisitable /\ l.pos \notin Events(h)
      BY <2>1 DEF ReadCompletes, RMWWriteLabel, LabelFields, NewLabel
    <3>2. Shape(h) /\ Stamps(h)
      BY <1>7, <1>8 DEF ExecOK, GraphOK
    <3> QED BY <2>4, <3>1, <3>2, AddedLabels
  <2>6. Stays(h, k) /\ l.pos \notin Settled(k)
    BY <2>4, <2>5, AppendStays
  <2>7. Stays(h, m) /\ l.pos \notin Settled(m)
    BY <2>4, <2>6 DEF Stays, Settled, Events
  <2>8. Keeps(h, m, Events(h))
    <3>1. Keeps(h, k, Events(h)) /\ Events(h) \subseteq Events(k)
      BY <2>4 DEF Appended
    <3>2. Keeps(k, m, Events(k))
      BY <2>4, CoGrowsKeeps
    <3> QED BY <3>1, <3>2, KeepsTrans
  <2>9. Settles(z, y)
    <3>1. GraphOK(p, z.graph, {}) /\ ItemsOK(z.graph, z.workqueue)
      BY <1>8 DEF ExecOK
    <3>2. Stays(z.graph, y.graph) /\ Keeps(z.graph, y.graph, Events(z.graph)) /\ y.workqueue = z.workqueue
      BY <1>7, <2>1, <2>7, <2>8
    <3>3. ExecSettled(z)
      BY <1>9 DEF Settles
    <3> QED BY <3>1, <3>2, <3>3, KeptSettled
  <2>10. ExecSettled(y) /\ l.pos \notin Settled(y.graph)
    BY <2>1, <2>7, <2>9 DEF Settles
  <2>11. Settles(y, calcRevisits(y, l.pos))
    BY <2>1, <2>2, <2>3, <2>10, CalcSettles
  <2>12. Settles(x, y)
    BY <1>9, <2>9, SettlesTrans
  <2> QED BY <2>1, <2>11, <2>12, SettlesTrans DEF rv
<1> QED BY <1>10, <1>11

(* revisitWrite() leaves what is settled. *)
LEMMA RevisitWriteSettles ==
  ASSUME CheckerOK, NEW p, ProgramOK(p), NEW x, ExecOK(p, x), Ipr => NoDangling(x.graph), NEW w \in Events(x.graph),
         x.graph.lab[w].typ = "W", w \in StoresOf(x.graph, w), NEW pred, pred \in StoresOf(x.graph, w) \ {w},
         Youngest(x.graph, w), ExecSettled(x), w \notin Settled(x.graph)
  PROVE  Settles(x, revisitWrite(x, w, pred).exec)
<1> DEFINE g == x.graph
           h == moveCo(g, w, pred)
           y == [x EXCEPT !.graph = h]
           rv == revisitWrite(x, w, pred)
<1>1. GraphOK(p, g, {}) /\ Joins(g) /\ ItemsOK(g, x.workqueue) /\ DOMAIN x = {"graph", "workqueue"}
  BY DEF ExecOK
<1>2. w \in ToSet(g.co[Loc(g, w)]) /\ Loc(g, w) \in Locs
  <2>1. w # InitEvent
    BY <1>1 DEF GraphOK, Kinds, Shape
  <2> QED BY <1>1, <2>1 DEF StoresOf, GraphOK, Texts, Loc
<1>3. CoGrows(g, h) /\ GraphOK(p, h, {})
  BY <1>1, <1>2, MoveCoOK
<1>4. rv.exec = calcRevisits(y, w)
  BY DEF revisitWrite, AtomicAt
<1>5. Relabels(g, h, {w})
  BY <1>1, MoveCoRelabels
<1> HIDE DEF h
<1>6. Stays(g, h) /\ w \notin Settled(h)
  BY <1>5, RelabelStays DEF Stays
<1>7. Keeps(g, h, Events(g)) /\ SameText(g, h)
  BY <1>3, CoGrowsKeeps DEF CoGrows
<1>8. Joins(h) /\ ItemsOK(h, x.workqueue)
  BY <1>1, <1>7, SameTextJoins, KeptAll
<1>9. y = [graph |-> h, workqueue |-> x.workqueue]
  BY <1>1
<1> HIDE DEF y
<1>10. ExecOK(p, y) /\ y.graph = h /\ y.workqueue = x.workqueue
  BY <1>3, <1>8, <1>9 DEF ExecOK
<1>11. Settles(x, y)
  BY <1>1, <1>6, <1>7, <1>10, KeptSettled
<1>12. /\ Youngest(h, w) /\ w \in Events(h) /\ h.lab[w].typ = "W"
  BY <1>7 DEF Youngest, SameText, Stamp
<1>13. NoDangling(g) => NoDangling(h)
  BY <1>3 DEF NoDangling, Reads, OfType, CoGrows, SameText
<1>14. w \in ToSet(h.co[Loc(h, w)])
  BY <1>2, <1>3 DEF CoGrows, SameText, Loc
<1>15. Settles(y, calcRevisits(y, w))
  <2>1. ExecSettled(y)
    BY <1>11 DEF Settles
  <2> QED BY <1>6, <1>10, <1>12, <1>13, <1>14, <2>1, CalcSettles
<1> QED BY <1>4, <1>11, <1>15, SettlesTrans DEF rv

(******************************* The handlers ******************************)

(* Adding an event that can be revisited leaves what is settled. *)
LEMMA AppendedSettles ==
  ASSUME NEW p, NEW x, ExecOK(p, x), ExecSettled(x), NEW y, NEW l, Appended(x.graph, y.graph, l),
         y.graph.lab[l.pos].revisitable, y.workqueue = x.workqueue
  PROVE  Settles(x, y) /\ l.pos \notin Settled(y.graph)
<1>1. GraphOK(p, x.graph, {}) /\ ItemsOK(x.graph, x.workqueue)
  BY DEF ExecOK
<1>2. Stays(x.graph, y.graph) /\ l.pos \notin Settled(y.graph)
  BY AppendStays
<1>3. Keeps(x.graph, y.graph, Events(x.graph))
  BY DEF Appended
<1> QED BY <1>1, <1>2, <1>3, KeptSettled

(* So does pushing an item that cuts at the newest event, if that is not    *)
(* settled.                                                                 *)
LEMMA PushSettles ==
  ASSUME NEW p, NEW x, ExecOK(p, x), ExecSettled(x), NEW y, y.graph = x.graph,
         NEW item, y.workqueue = Append(x.workqueue, item), item.kind # "BR",
         Youngest(x.graph, CutEvent(item)), CutEvent(item) \notin Settled(x.graph)
  PROVE  Settles(x, y)
<1> DEFINE s == x.workqueue
           R == ToSet(s) \cup {item}
<1>1. GraphOK(p, x.graph, {}) /\ IsSeq(s)
  BY DEF ExecOK, ItemsOK
<1>2. ItemSettled(x.graph, item)
  BY <1>1, YoungSettled
<1>3. s \in Seq(R) /\ item \in R
  BY <1>1 DEF IsSeq
<1> HIDE DEF s, R
<1>4. /\ Len(s) \in Nat /\ DOMAIN s = 1 .. Len(s) /\ DOMAIN Append(s, item) = 1 .. Len(s) + 1
      /\ \A j \in 1 .. Len(s) + 1 : Append(s, item)[j] = IF j <= Len(s) THEN s[j] ELSE item
  BY <1>3
<1>5. ASSUME NEW j \in DOMAIN y.workqueue PROVE ItemSettled(x.graph, y.workqueue[j])
  <2>1. y.workqueue[j] = item \/ (j \in DOMAIN s /\ y.workqueue[j] = s[j])
    BY <1>4, <1>5 DEF s
  <2> QED BY <1>2, <2>1 DEF ExecSettled, s
<1> QED BY <1>5, StaysRefl DEF Settles, ExecSettled

(* Reports leave what is settled. *)
LEMMA ErrorSettles ==
  ASSUME NEW p, NEW d, ContextOK(p, d), NEW e, AtHand(d.x.graph, e), NEW err, err # NoError,
         ExecSettled(d.x), e \notin Settled(d.x.graph)
  PROVE  Settles(d.x, reportError(d, err).x)
<1> DEFINE g == d.x.graph
           item == ReplayItem("ERROR", Newest(g), err)
           c == reportError(d, err)
<1>1. GraphOK(p, g, {}) /\ ExecOK(p, d.x)
  BY DEF ContextOK, ExecOK
<1>2. Newest(g) = e
  BY <1>1, NewestIs DEF AtHand
<1>3. ItemOK(g, item) /\ CutEvent(item) = e /\ Youngest(g, e) /\ item.kind = "ERROR"
  BY <1>1, <1>2, ReplayItemOK
<1>4. c = [Push(d, item) EXCEPT !.moot = TRUE]
  BY DEF reportError
<1>5. c.x.graph = g
  BY ReportErrorOK
<1> HIDE DEF item
<1>6. c.x.workqueue = Append(d.x.workqueue, item)
  <2>1. Push(d, item) = [d EXCEPT !.x = [d.x EXCEPT !.workqueue = Append(d.x.workqueue, item)]]
    BY DEF Push
  <2>2. c.x = [d.x EXCEPT !.workqueue = Append(d.x.workqueue, item)]
    BY <1>4, <2>1 DEF ContextOK
  <2> QED BY <1>1, <2>2 DEF ExecOK
<1> HIDE DEF c
<1> QED BY <1>1, <1>3, <1>5, <1>6, PushSettles DEF c

(* A warning marks the write, too. *)
LEMMA WarningSettles ==
  ASSUME NEW p, NEW d, ContextOK(p, d), NEW e, AtHand(d.x.graph, e), d.x.graph.lab[e].typ = "W",
         ExecSettled(d.x), e \notin Settled(d.x.graph)
  PROVE  Settles(d.x, reportWarningOnce(d, e).x)
<1> DEFINE g == d.x.graph
           item == ReplayItem("WARN", e, "WWRace")
           h == [g EXCEPT !.lab[e].wwRacy = TRUE]
           c == reportWarningOnce(d, e)
           rep == IF UpgradeWarning(g, e) THEN reportError(d, "WWRace")
                  ELSE IF ~d.warned THEN Push(d, item) ELSE d
<1>1. GraphOK(p, g, {}) /\ ExecOK(p, d.x) /\ DOMAIN d.x = {"graph", "workqueue"}
  BY DEF ContextOK, ExecOK
<1>2. "WWRace" # NoError
  BY DEF NoError
<1>3. ItemOK(g, item) /\ CutEvent(item) = e /\ Youngest(g, e) /\ item.kind = "WARN"
  BY <1>1, <1>2, ReplayItemOK
<1> HIDE DEF item
<1>4. Settles(d.x, rep.x) /\ rep.x.graph = g /\ DOMAIN rep.x = {"graph", "workqueue"} /\ ContextOK(p, rep)
  <2>1. CASE UpgradeWarning(g, e)
    <3>1. rep = reportError(d, "WWRace")
      BY <2>1
    <3>2. Settles(d.x, rep.x)
      BY <1>2, <3>1, ErrorSettles
    <3>3. rep.x.graph = g /\ ContextOK(p, rep)
      BY <1>2, <3>1, ReportErrorOK
    <3> QED BY <3>2, <3>3 DEF ContextOK, ExecOK
  <2>2. CASE ~UpgradeWarning(g, e) /\ ~d.warned
    <3> DEFINE q == Append(d.x.workqueue, item)
    <3>1. rep = [d EXCEPT !.x = [d.x EXCEPT !.workqueue = q]]
      BY <2>2 DEF Push
    <3>2. ItemsOK(g, q)
      BY <1>1, <1>3, PushItem DEF ExecOK
    <3> HIDE DEF rep, q
    <3>3. /\ DOMAIN rep = {"x", "st", "moot", "warned", "internal"} /\ rep.x = [d.x EXCEPT !.workqueue = q]
          /\ rep.moot = d.moot /\ rep.warned = d.warned /\ rep.internal = d.internal
      BY <3>1 DEF ContextOK
    <3>4. DOMAIN rep.x = {"graph", "workqueue"} /\ rep.x.graph = g /\ rep.x.workqueue = q
      BY <1>1, <3>3
    <3>5. Settles(d.x, rep.x)
      BY <1>1, <1>3, <3>4, PushSettles DEF q
    <3>6. ContextOK(p, rep)
      BY <1>1, <3>2, <3>3, <3>4 DEF ContextOK, ExecOK
    <3> QED BY <3>4, <3>5, <3>6
  <2>3. CASE ~UpgradeWarning(g, e) /\ d.warned
    <3>1. rep = d
      BY <2>3
    <3> QED BY <1>1, <3>1, SettlesRefl
  <2> QED BY <2>1, <2>2, <2>3 DEF ContextOK
<1>5. c = [rep EXCEPT !.warned = TRUE, !.x.graph.lab[e].wwRacy = TRUE]
  BY DEF reportWarningOnce, item
<1> HIDE DEF rep
<1>6. c.x = [rep.x EXCEPT !.graph = h]
  BY <1>4, <1>5 DEF ContextOK
<1>7. e \in Events(g) /\ SameReads(g, h)
  BY <1>1, SetRacy DEF GraphOK, AtHand, IsNewest
<1>8. Relabels(g, h, {e})
  BY <1>1, <1>7, RacyRelabels
<1> HIDE DEF c, h
<1>9. c.x.graph = h /\ c.x.workqueue = rep.x.workqueue
  BY <1>4, <1>6
<1>10. Settles(rep.x, c.x)
  <2>1. Stays(g, h)
    BY <1>8, RelabelStays
  <2>2. Keeps(g, h, Events(g))
    BY <1>7, SameReadsKeeps
  <2>3. ExecSettled(rep.x) /\ ItemsOK(rep.x.graph, rep.x.workqueue)
    BY <1>4 DEF Settles, ContextOK, ExecOK
  <2> QED BY <1>1, <1>4, <1>9, <2>1, <2>2, <2>3, KeptSettled
<1> QED BY <1>4, <1>10, SettlesTrans DEF c

(* So do the checks of an access. *)
LEMMA RacesSettle ==
  ASSUME CheckerOK, NEW p, NEW d, ContextOK(p, d), NEW e, AtHand(d.x.graph, e),
         ExecSettled(d.x), e \notin Settled(d.x.graph)
  PROVE  Settles(d.x, checkForRaces(d, e).x)
<1> DEFINE err == CheckErrors(d.x.graph, d.st, e)
<1>1. CASE ~RaceDetection
  BY <1>1, SettlesRefl DEF checkForRaces
<1>2. CASE RaceDetection /\ err # NoError
  <2>1. checkForRaces(d, e) = reportError(d, err)
    BY <1>2 DEF checkForRaces, RaceOrWarning
  <2> HIDE DEF err
  <2> QED BY <1>2, <2>1, ErrorSettles
<1>3. CASE RaceDetection /\ err = NoError
  <2>1. checkForRaces(d, e) = checkForWarnings(d, e)
    BY <1>3 DEF checkForRaces, RaceOrWarning
  <2>2. CASE CheckWarnings(d.x.graph, d.st, e, d.warned) # {}
    <3>1. d.x.graph.lab[e].typ = "W" /\ checkForWarnings(d, e) = reportWarningOnce(d, e)
      BY <2>2 DEF CheckerOK, checkForWarnings
    <3> QED BY <2>1, <3>1, WarningSettles
  <2>3. CASE CheckWarnings(d.x.graph, d.st, e, d.warned) = {}
    <3>1. checkForWarnings(d, e) = d
      BY <2>3 DEF checkForWarnings
    <3> QED BY <2>1, <3>1, SettlesRefl
  <2> QED BY <2>2, <2>3
<1> QED BY <1>1, <1>2, <1>3

(* And those that come before them. *)
LEMMA CheckedSettles ==
  ASSUME CheckerOK, NEW p, NEW d, ContextOK(p, d), NEW e, AtHand(d.x.graph, e), NEW err,
         ExecSettled(d.x), e \notin Settled(d.x.graph)
  PROVE  Settles(d.x, Checked(d, e, err).x)
<1>1. CASE err # NoError
  <2>1. Checked(d, e, err) = reportError(d, err)
    BY <1>1 DEF Checked
  <2> QED BY <1>1, <2>1, ErrorSettles
<1>2. CASE err = NoError
  <2>1. Checked(d, e, err) = checkForRaces(d, e)
    BY <1>2 DEF Checked
  <2> QED BY <2>1, RacesSettle
<1> QED BY <1>1, <1>2

(* Adding a label to the graph leaves what is settled. *)
LEMMA AddedSettles ==
  ASSUME CheckerOK, NEW p, NEW d, ContextOK(p, d), ExecSettled(d.x),
         NEW l, LabelOK(p, d.x.graph, l), Extends(p, d.x.graph, l), l.pos \notin Events(d.x.graph), l.typ # "B",
         l.revisitable
  PROVE  LET c == SetGraph(d, addLabelToGraph(d.x.graph, l))
         IN Settles(d.x, c.x) /\ l.pos \notin Settled(c.x.graph)
<1> DEFINE g == d.x.graph
           h == addLabelToGraph(g, l)
           c == SetGraph(d, h)
<1>1. GraphOK(p, g, {}) /\ ExecOK(p, d.x) /\ DOMAIN d.x = {"graph", "workqueue"}
  BY DEF ContextOK, ExecOK
<1>2. Appended(g, h, l)
  BY <1>1, LabelAppends
<1>3. h.lab[l.pos].revisitable
  BY <1>1, AddedLabels DEF GraphOK, LabelOK
<1> HIDE DEF h
<1>4. c.x.graph = h /\ c.x.workqueue = d.x.workqueue
  BY <1>1 DEF SetGraph, ContextOK
<1> HIDE DEF c
<1> QED BY <1>1, <1>2, <1>3, <1>4, AppendedSettles DEF c, h

(* So do the checks of a load, once its label is added. *)
LEMMA LoadCheckedSettles ==
  ASSUME CheckerOK, NEW p, NEW d, ContextOK(p, d), ~d.moot, NoDangling(d.x.graph), ExecSettled(d.x),
         NEW l, LabelOK(p, d.x.graph, l), Extends(p, d.x.graph, l), l.pos \notin Events(d.x.graph), l.typ = "R",
         l.revisitable
  PROVE  LET c == AddedLoad(d, l)
         IN Settles(d.x, c.x) /\ l.pos \notin Settled(c.x.graph)
<1> DEFINE r == l.pos
           g == d.x.graph
           h == addLabelToGraph(g, l)
           d1 == SetGraph(d, h)
           err == LoadError(d1.x.graph, d1.st, r)
           c == Checked(d1, r, err)
<1>1. GraphOK(p, g, {})
  BY DEF ContextOK, ExecOK
<1>2. GraphOK(p, h, {}) /\ Appended(g, h, l)
  BY <1>1, LabelAppends
<1>3. IsLast(h, r) /\ r[2] > 0
  BY <1>1, <1>2, AppendedLast
<1>4. Settles(d.x, d1.x) /\ r \notin Settled(d1.x.graph)
  BY AddedSettles
<1> HIDE DEF h
<1>5. ContextOK(p, d1) /\ d1.x.graph = h
  BY <1>2, AddedContext
<1> HIDE DEF d1, err
<1>6. AtHand(d1.x.graph, r)
  BY <1>2, <1>3, <1>5 DEF AtHand, Appended
<1>7. Settles(d1.x, c.x)
  <2>1. ExecSettled(d1.x)
    BY <1>4 DEF Settles
  <2> QED BY <1>4, <1>5, <1>6, <2>1, CheckedSettles
<1>8. Settles(d.x, c.x)
  BY <1>4, <1>7, SettlesTrans
<1>9. r \notin Settled(c.x.graph)
  BY <1>4, <1>7 DEF Settles, Stays
<1>10. c = AddedLoad(d, l)
  BY DEF AddedLoad, d1, h, err
<1> HIDE DEF c
<1> QED BY <1>8, <1>9, <1>10

(* So does choosing one of its stores and pushing the others. *)
LEMMA ReadOneOfSettles ==
  ASSUME CheckerOK, NEW p, NEW x, ExecOK(p, x), NEW r, IsNewest(x.graph, r), r[2] > 0,
         x.graph.lab[r].typ = "R", IsLast(x.graph, r),
         NEW stores \in Seq(StoresOf(x.graph, r)), NEW i \in DOMAIN stores,
         ExecSettled(x), r \notin Settled(x.graph)
  PROVE  Settles(x, readOneOf(x, r, stores, i))
<1> DEFINE g == x.graph
           y == readOneOf(x, r, stores, i)
<1>1. PICK h, q : Choice(p, x, r, stores, i, h, q)
  BY ReadChoice
<1> DEFINE b == BlockIfAnnotFails(h, r)
           z == [graph |-> h, workqueue |-> x.workqueue]
           u == [graph |-> h, workqueue |-> x.workqueue \o q]
           w == stores[i]
<1>2. y.graph = b /\ y.workqueue = x.workqueue \o q
  <2>1. y = [graph |-> b, workqueue |-> x.workqueue \o q]
    BY <1>1 DEF Choice
  <2> HIDE DEF y, b
  <2> QED BY <2>1
<1>3. GraphOK(p, g, {}) /\ ItemsOK(g, x.workqueue) /\ r \in Events(g)
  BY DEF ExecOK, IsNewest
<1>4. Relabels(g, h, {r})
  <2>1. h = updateLabelViews(setRf(g, r, w), r)
    BY <1>1 DEF Choice
  <2> HIDE DEF w
  <2> QED BY <1>3, <2>1, ReadFromRelabels
<1>5. Stays(g, h) /\ r \notin Settled(h)
  BY <1>4, RelabelStays DEF Stays
<1>6. /\ GraphOK(p, h, {}) /\ Joins(h) /\ ItemsOK(h, x.workqueue \o q) /\ SameText(g, h) /\ h.co = g.co
  BY <1>1 DEF Choice, StoreRead
<1>7. Keeps(g, h, Events(g))
  <2>1. \A e \in Events(g) : g.lab[e].typ = "W" => h.lab[e] = g.lab[e]
    BY <1>4 DEF Relabels
  <2> QED BY <1>6, <2>1, SameTextKeeps
<1>8. z.graph = h /\ z.workqueue = x.workqueue /\ u.graph = h /\ u.workqueue = x.workqueue \o q
  OBVIOUS
<1> HIDE DEF z, u, y, b
<1>9. Settles(x, z)
  BY <1>3, <1>5, <1>7, <1>8, KeptSettled
<1>10. r \in Events(h) /\ h.lab[r].typ = "R" /\ IsLast(h, r) /\ IsNewest(h, r)
  BY <1>1 DEF Choice
<1>11. ASSUME NEW j \in DOMAIN q PROVE ItemSettled(h, q[j])
  <2>1. q[j].kind # "BR" /\ CutEvent(q[j]) = r
    BY <1>1 DEF Choice, CutEvent
  <2>2. Youngest(h, r)
    BY <1>10, NewestYoungest
  <2> QED BY <1>5, <1>6, <2>1, <2>2, YoungSettled
<1>12. Settles(z, u)
  <2>1. ExecSettled(z) /\ IsSeq(z.workqueue) /\ IsSeq(q)
    BY <1>1, <1>3, <1>8, <1>9 DEF Settles, ItemsOK, Choice
  <2>2. \A j \in DOMAIN q : ItemSettled(z.graph, q[j])
    BY <1>8, <1>11
  <2> QED BY <1>8, <2>1, <2>2, PushedSettled
<1>13. Settles(x, u)
  BY <1>9, <1>12, SettlesTrans
<1>14. b = h \/ (h.lab[r].ins.op = "R" /\ \E l : BlockedBy(p, h, b, l))
  BY <1>6, <1>10, BlockedAfterRead DEF b
<1>15. CASE b = h
  BY <1>2, <1>8, <1>13, <1>15 DEF Settles, ExecSettled, y
<1>16. CASE \E l : BlockedBy(p, h, b, l)
  <2>1. PICK l : BlockedBy(p, h, b, l)
    BY <1>16
  <2>2. Appended(u.graph, y.graph, l) /\ y.graph.lab[l.pos].revisitable /\ y.workqueue = u.workqueue
    <3>1. b = add(h, l) /\ Appended(h, b, l) /\ DOMAIN l = LabelFields /\ l.revisitable
      BY <2>1 DEF BlockedBy
    <3>2. l.pos \notin Events(h)
      BY <3>1 DEF Appended
    <3>3. b.lab[l.pos].revisitable
      BY <1>6, <3>1, <3>2, AddedLabels DEF GraphOK
    <3> QED BY <1>2, <1>8, <3>1, <3>3
  <2>3. ExecOK(p, u)
    BY <1>6 DEF ExecOK, u
  <2>4. Settles(u, y)
    BY <1>13, <2>2, <2>3, AppendedSettles DEF Settles
  <2> QED BY <1>13, <2>4, SettlesTrans DEF y
<1> QED BY <1>14, <1>15, <1>16

(* handleLoad() leaves what is settled. *)
LEMMA LoadSettles ==
  ASSUME CheckerOK, NEW p, NEW d, ContextOK(p, d), ~d.moot, d.internal = NoError, NoDangling(d.x.graph),
         NEW l, LabelOK(p, d.x.graph, l), Extends(p, d.x.graph, l), l.pos \notin Events(d.x.graph), l.typ = "R",
         ExecSettled(d.x), l.revisitable
  PROVE  Settles(d.x, handleLoad(d, l).x)
<1> DEFINE r == l.pos
           d2 == AddedLoad(d, l)
           c == handleLoad(d, l)
<1>1. /\ ContextOK(p, d2) /\ IsNewest(d2.x.graph, r) /\ r[2] > 0 /\ IsLast(d2.x.graph, r)
      /\ d2.x.graph.lab[r].typ = "R"
  BY LoadCheckedOK DEF LoadAtHand
<1>2. Settles(d.x, d2.x) /\ r \notin Settled(d2.x.graph)
  BY LoadCheckedSettles
<1>3. c = LoadChecked(d2, r)
  BY DEF handleLoad, LoadAdded, AddedLoad
<1> HIDE DEF d2, c
<1>4. CASE d2.moot
  <2>1. c = d2
    BY <1>3, <1>4 DEF LoadChecked
  <2> QED BY <1>2, <2>1 DEF c
<1>5. CASE ~d2.moot
  <2> DEFINE stores == StoresToRead(d2.x.graph, r)
             st == onATLoad(d2.st, r, Loc(d2.x.graph, r), HbView(d2.x.graph, r))
             d3 == [d2 EXCEPT !.st = st]
             i == findConsistentRf(d2.x.graph, r, stores)
             y == readOneOf(d2.x, r, stores, i)
  <2>1. c = ReadConsistent(d3, r, stores)
    BY <1>3, <1>5 DEF LoadChecked
  <2> HIDE DEF stores, st
  <2>2. DOMAIN d3 = {"x", "st", "moot", "warned", "internal"} /\ d3.x = d2.x
    BY <1>1 DEF ContextOK
  <2> HIDE DEF d3
  <2>3. CASE stores = <<>>
    <3>1. c = [d3 EXCEPT !.internal = "noStore"]
      BY <2>1, <2>3 DEF ReadConsistent
    <3>2. c.x = d2.x
      BY <2>2, <3>1
    <3> QED BY <1>2, <3>2 DEF c
  <2>4. CASE stores # <<>>
    <3>1. c = [d3 EXCEPT !.x = y]
      BY <2>1, <2>2, <2>4 DEF ReadConsistent
    <3>2. stores \in Seq(StoresOf(d2.x.graph, r))
      <4>1. GraphOK(p, d2.x.graph, {}) /\ r \in Events(d2.x.graph)
        BY <1>1 DEF ContextOK, ExecOK, IsNewest
      <4> QED BY <1>1, <4>1, CoherentStoresOK DEF stores
    <3>3. i \in DOMAIN stores
      BY <2>4, <3>2, FindConsistentRfIn
    <3> HIDE DEF i
    <3>4. Settles(d2.x, y)
      <4>1. ExecOK(p, d2.x) /\ ExecSettled(d2.x)
        BY <1>1, <1>2 DEF ContextOK, Settles
      <4> QED BY <1>1, <1>2, <3>2, <3>3, <4>1, ReadOneOfSettles
    <3> HIDE DEF y
    <3>5. c.x = y
      BY <2>2, <3>1
    <3> QED BY <1>2, <3>4, <3>5, SettlesTrans DEF c
  <2> QED BY <2>3, <2>4
<1> QED BY <1>4, <1>5

(* handleNALoad() leaves what is settled. *)
LEMMA NALoadSettles ==
  ASSUME CheckerOK, NEW p, NEW d, ContextOK(p, d), ~d.moot, d.internal = NoError, NoDangling(d.x.graph),
         NEW l, LabelOK(p, d.x.graph, l), Extends(p, d.x.graph, l), l.pos \notin Events(d.x.graph), l.typ = "R",
         l.ins.mo = "na", ExecSettled(d.x), l.revisitable
  PROVE  Settles(d.x, handleNALoad(d, l).x)
<1> DEFINE r == l.pos
           d2 == AddedLoad(d, l)
           c == handleNALoad(d, l)
           g == d2.x.graph
<1>1. /\ ContextOK(p, d2) /\ IsNewest(g, r) /\ g.lab[r].typ = "R"
  BY LoadCheckedOK DEF LoadAtHand
<1>2. Settles(d.x, d2.x) /\ r \notin Settled(g)
  BY LoadCheckedSettles
<1>3. c = NALoadChecked(d2, r)
  BY DEF handleNALoad, NALoadAdded, AddedLoad
<1> HIDE DEF d2, c
<1>4. CASE d2.moot
  <2>1. c = d2
    BY <1>3, <1>4 DEF NALoadChecked
  <2> QED BY <1>2, <2>1 DEF c
<1>5. CASE ~d2.moot
  <2> DEFINE w == co_max(g, Loc(g, r))
             h == setRf(g, r, w)
             st == onNALoad(d2.st, r, Loc(g, r), HbView(g, r))
  <2>1. c = [d2 EXCEPT !.st = st, !.x.graph = h]
    BY <1>3, <1>5 DEF NALoadChecked
  <2>2. GraphOK(p, g, {}) /\ ItemsOK(g, d2.x.workqueue) /\ DOMAIN d2.x = {"graph", "workqueue"} /\ r \in Events(g)
    BY <1>1 DEF ContextOK, ExecOK, IsNewest
  <2> HIDE DEF w, st
  <2>3. SetsRf(g, h, r, w) /\ Relabels(g, h, {r})
    BY <2>2, SetRfSets, SetRfRelabels
  <2> HIDE DEF h
  <2>4. Stays(g, h) /\ Keeps(g, h, Events(g))
    BY <1>1, <1>2, <2>3, RelabelStays, SetsRfKeeps
  <2>5. c.x.graph = h /\ c.x.workqueue = d2.x.workqueue
    <3>1. c = [d2 EXCEPT !.st = st, !.x = [d2.x EXCEPT !.graph = h]]
      BY <1>1, <2>1 DEF ContextOK
    <3>2. c.x = [d2.x EXCEPT !.graph = h]
      BY <1>1, <3>1 DEF ContextOK
    <3> QED BY <2>2, <3>2
  <2>6. Settles(d2.x, c.x)
    BY <1>2, <2>2, <2>4, <2>5, KeptSettled DEF Settles
  <2> QED BY <1>2, <2>6, SettlesTrans DEF c
<1> QED BY <1>4, <1>5

(* New labels can be revisited. *)
LEMMA NewLabelsRevisitable ==
  /\ \A pos, typ, ip, ins, val : NewLabel(pos, typ, ip, ins, val).revisitable
  /\ \A g, t, typ, val : NextLabel(g, t, typ, val).revisitable
  /\ \A g, r : RMWWriteLabel(g, r).revisitable
  /\ \A t, fn, createId : ThreadStartLabel(t, fn, createId).revisitable
BY DEF NewLabel, NextLabel, RMWWriteLabel, ThreadStartLabel

(* A store is placed: the events that it revisits are not settled. *)
LEMMA PlaceLastSettles ==
  ASSUME CheckerOK, NEW p, ProgramOK(p), NEW x, ExecOK(p, x), NoDangling(x.graph), NEW w, Placeable(x.graph, w),
         NEW cos \in Seq(StoresOf(x.graph, w)), cos # <<>>, ExecSettled(x), w \notin Settled(x.graph)
  PROVE  Settles(x, PlaceLast(x, w, cos))
<1>1. PICK z : ExecOK(p, z) /\ IsPlaced(x, w, z) /\ PlaceLast(x, w, cos) = calcRevisits(z, w)
  BY PlaceLastIs
<1> DEFINE m == z.graph
           v == [graph |-> m, workqueue |-> x.workqueue]
<1>2. v.graph = m /\ v.workqueue = x.workqueue
  OBVIOUS
<1> HIDE DEF v
<1>3. /\ w \in Events(m) /\ m.lab[w].typ = "W" /\ Youngest(m, w) /\ w \in ToSet(m.co[Loc(m, w)])
      /\ NoDangling(m) /\ CoGrows(x.graph, m) /\ m.lab = x.graph.lab
  BY <1>1 DEF IsPlaced
<1>4. GraphOK(p, x.graph, {}) /\ ItemsOK(x.graph, x.workqueue) /\ GraphOK(p, m, {})
  BY <1>1 DEF ExecOK
<1>5. Stays(x.graph, m) /\ w \notin Settled(m)
  BY <1>3 DEF Stays, Settled, Events
<1>6. Settles(x, v)
  <2>1. Keeps(x.graph, m, Events(x.graph))
    BY <1>3, CoGrowsKeeps
  <2> QED BY <1>2, <1>4, <1>5, <2>1, KeptSettled
<1>7. Settles(v, z)
  <2>1. PICK q : /\ IsSeq(q) /\ z.workqueue = x.workqueue \o q
                 /\ \A j \in DOMAIN q : q[j].kind = "CO" /\ q[j].pos = w
    BY <1>1 DEF IsPlaced
  <2>2. ASSUME NEW j \in DOMAIN q PROVE ItemSettled(m, q[j])
    <3>1. q[j].kind # "BR" /\ CutEvent(q[j]) = w
      BY <2>1 DEF CutEvent
    <3> QED BY <1>3, <1>4, <1>5, <3>1, YoungSettled
  <2>3. IsSeq(x.workqueue) /\ ExecSettled(v)
    BY <1>4, <1>6 DEF ItemsOK, Settles
  <2> QED BY <1>2, <2>1, <2>2, <2>3, PushedSettled
<1>8. Settles(x, z)
  BY <1>6, <1>7, SettlesTrans
<1>9. Settles(z, calcRevisits(z, w))
  BY <1>1, <1>3, <1>5, <1>8, CalcSettles DEF Settles
<1> QED BY <1>1, <1>8, <1>9, SettlesTrans

(* The same, and a race is looked for. *)
LEMMA StorePlacedSettles ==
  ASSUME CheckerOK, NEW p, ProgramOK(p), NEW d, ContextOK(p, d), NoDangling(d.x.graph), NEW w,
         Placeable(d.x.graph, w), NEW cos \in Seq(StoresOf(d.x.graph, w)), cos # <<>>,
         ExecSettled(d.x), w \notin Settled(d.x.graph)
  PROVE  Settles(d.x, StorePlaced(d, w, cos).x)
<1> DEFINE y == PlaceLast(d.x, w, cos)
           d1 == [d EXCEPT !.x = y]
           d2 == StoreRaces(d1, w)
           st == onATStore(d2.st, w, Loc(d2.x.graph, w), HbView(d2.x.graph, w))
           c == [d2 EXCEPT !.st = st]
<1>1. c = StorePlaced(d, w, cos)
  BY DEF StorePlaced, StoreKnown
<1>2. ExecOK(p, y) /\ AtHand(y.graph, w) /\ Settles(d.x, y)
  BY PlaceLastOK, PlaceLastSettles DEF ContextOK
<1> HIDE DEF y, st
<1>3. ContextOK(p, d1) /\ d1.x = y
  BY <1>2 DEF ContextOK
<1> HIDE DEF d1
<1>4. w \notin Settled(y.graph) /\ ExecSettled(y)
  BY <1>2 DEF Settles, Stays
<1>5. ContextOK(p, d2) /\ Settles(y, d2.x)
  <2>1. CASE violatesAtomicity(d1.x.graph, w)
    <3>1. d2 = [d1 EXCEPT !.moot = TRUE]
      BY <2>1 DEF StoreRaces
    <3>2. ContextOK(p, d2) /\ d2.x = d1.x
      BY <1>3, <3>1 DEF ContextOK
    <3> HIDE DEF d2
    <3> QED BY <1>3, <1>4, <3>2, SettlesRefl
  <2>2. CASE ~violatesAtomicity(d1.x.graph, w)
    <3>1. d2 = checkForRaces(d1, w)
      BY <2>2 DEF StoreRaces
    <3>2. Reported(p, d1, d2)
      BY <1>2, <1>3, <3>1, RacesOK
    <3>3. Settles(d1.x, d2.x)
      BY <1>2, <1>3, <1>4, <3>1, RacesSettle
    <3> HIDE DEF d2
    <3> QED BY <1>3, <3>2, <3>3 DEF Reported
  <2> QED BY <2>1, <2>2
<1> HIDE DEF d2
<1>6. c.x = d2.x
  BY <1>5 DEF ContextOK
<1> HIDE DEF c
<1> QED BY <1>1, <1>2, <1>5, <1>6, SettlesTrans

(* handleStore() leaves what is settled. *)
LEMMA StoreSettles ==
  ASSUME CheckerOK, NEW p, ProgramOK(p), NEW d, ContextOK(p, d), NoDangling(d.x.graph),
         NEW l, LabelOK(p, d.x.graph, l), Extends(p, d.x.graph, l), l.pos \notin Events(d.x.graph), l.typ = "W",
         RMWHasStore(d.x.graph, l), ExecSettled(d.x), l.revisitable
  PROVE  Settles(d.x, handleStore(d, l).x)
<1> DEFINE g == d.x.graph
           w == l.pos
           d1 == SetGraph(d, addLabelToGraph(g, l))
           h == d1.x.graph
           err == StoreError(h, d1.st, w)
           cos == GetCoherentPlacings(h, w)
           d2 == IF Len(cos) > 1 THEN reportWarningOnce(d1, w) ELSE d1
           c == handleStore(d, l)
<1>1. c = IF err # NoError THEN reportError(d1, err) ELSE StorePlaced(d2, w, cos)
  BY DEF handleStore, StoreAdded, StoreWarned
<1>2. ContextOK(p, d1) /\ NoDangling(d1.x.graph) /\ Placeable(d1.x.graph, l.pos) /\ Appended(g, d1.x.graph, l)
  BY WriteAdded
<1>3. Settles(d.x, d1.x) /\ w \notin Settled(h)
  BY AddedSettles
<1> HIDE DEF d1
<1>4. GraphOK(p, h, {}) /\ AtHand(h, w) /\ w \in Events(h) /\ h.lab[w].typ = "W" /\ ExecSettled(d1.x)
  BY <1>2, <1>3 DEF ContextOK, ExecOK, Placeable, AtHand, IsNewest, Settles
<1>5. CASE err # NoError
  <2> HIDE DEF err
  <2>1. c = reportError(d1, err)
    BY <1>1, <1>5
  <2>2. Settles(d1.x, reportError(d1, err).x)
    BY <1>2, <1>3, <1>4, <1>5, ErrorSettles
  <2> HIDE DEF c
  <2> QED BY <1>3, <2>1, <2>2, SettlesTrans DEF c
<1>6. CASE err = NoError
  <2>1. IsRMWOp(h.lab[w].ins) => h.lab[<<w[1], w[2] - 1>>].rf \in StoresOf(h, w)
    <3>1. h.lab[w].ins = l.ins /\ h.co = g.co /\ \A e \in Events(g) : h.lab[e] = g.lab[e]
      BY <1>2 DEF Appended
    <3>2. <<w[1], w[2] - 1>> \in Events(g)
      BY DEF Extends
    <3> HIDE DEF h, g
    <3> QED BY <3>1, <3>2 DEF RMWHasStore, StoresOf, Loc, g
  <2>2. cos \in Seq(StoresOf(h, w)) /\ cos # <<>>
    BY <1>4, <2>1, PlacingsOK
  <2>3. Reported(p, d1, d2) /\ Settles(d1.x, d2.x)
    <3>1. CASE Len(cos) > 1
      BY <1>2, <1>3, <1>4, <3>1, WarningOK, WarningSettles
    <3>2. CASE ~(Len(cos) > 1)
      BY <1>2, <1>4, <3>2, NothingReported, SettlesRefl
    <3> QED BY <3>1, <3>2
  <2>4. c = StorePlaced(d2, w, cos)
    BY <1>1, <1>6
  <2> HIDE DEF cos, d2, c, err
  <2>5. ContextOK(p, d2) /\ SameReads(h, d2.x.graph)
    BY <2>3 DEF Reported
  <2>6. NoDangling(d2.x.graph)
    BY <1>2, <2>5, SameReadsDangling
  <2>7. Placeable(d2.x.graph, w) /\ StoresOf(d2.x.graph, w) = StoresOf(h, w)
    <3>1. /\ AtHand(d2.x.graph, w) /\ d2.x.graph.lab[w].typ = h.lab[w].typ /\ d2.x.graph.co = h.co
          /\ Loc(d2.x.graph, w) = Loc(h, w)
      BY <1>4, <2>5, SameReadsAtHand
    <3> QED BY <1>2, <3>1 DEF Placeable, StoresOf
  <2>8. w \notin Settled(d2.x.graph) /\ ExecSettled(d2.x)
    BY <1>3, <2>3 DEF Settles, Stays
  <2>9. Settles(d2.x, c.x)
    BY <2>2, <2>4, <2>5, <2>6, <2>7, <2>8, StorePlacedSettles
  <2> QED BY <1>3, <2>3, <2>9, SettlesTrans DEF c
<1> QED BY <1>5, <1>6

(* handleNAStore() leaves what is settled. *)
LEMMA NAStoreSettles ==
  ASSUME CheckerOK, NEW p, NEW d, ContextOK(p, d), NoDangling(d.x.graph),
         NEW l, LabelOK(p, d.x.graph, l), Extends(p, d.x.graph, l), l.pos \notin Events(d.x.graph), l.typ = "W",
         ExecSettled(d.x), l.revisitable
  PROVE  Settles(d.x, handleNAStore(d, l).x)
<1> DEFINE w == l.pos
           d1 == SetGraph(d, addLabelToGraph(d.x.graph, l))
           err == StoreError(d1.x.graph, d1.st, w)
           d2 == Checked(d1, w, err)
           k == d2.x.graph
           c == handleNAStore(d, l)
<1>1. c = NAStoreChecked(d2, w)
  BY DEF handleNAStore, NAStoreAdded
<1>2. ContextOK(p, d1) /\ Placeable(d1.x.graph, w)
  BY WriteAdded
<1>3. Settles(d.x, d1.x) /\ w \notin Settled(d1.x.graph)
  BY AddedSettles
<1> HIDE DEF d1, err
<1>4. Reported(p, d1, d2) /\ Settles(d1.x, d2.x)
  BY <1>2, <1>3, CheckedOK, CheckedSettles DEF Placeable, Settles
<1> HIDE DEF d2, c
<1>5. Settles(d.x, d2.x) /\ ContextOK(p, d2) /\ SameReads(d1.x.graph, k)
  BY <1>3, <1>4, SettlesTrans DEF Reported
<1>6. CASE d2.moot
  <2>1. c = d2
    BY <1>1, <1>6 DEF NAStoreChecked
  <2> QED BY <1>5, <2>1 DEF c
<1>7. CASE ~d2.moot
  <2> DEFINE pred == co_max(k, Loc(k, w))
             m == addCo(k, w, pred)
             st == onNAStore(d2.st, w, Loc(k, w), HbView(k, w))
  <2>1. c = [d2 EXCEPT !.st = st, !.x.graph = m]
    BY <1>1, <1>7 DEF NAStoreChecked
  <2>2. GraphOK(p, k, {}) /\ ItemsOK(k, d2.x.workqueue) /\ DOMAIN d2.x = {"graph", "workqueue"}
    BY <1>5 DEF ContextOK, ExecOK
  <2>3. w \in Events(k) /\ k.lab[w].typ = "W" /\ w \notin ToSet(k.co[Loc(k, w)])
    <3>1. /\ AtHand(k, w) /\ k.lab[w].typ = d1.x.graph.lab[w].typ /\ k.co = d1.x.graph.co
          /\ Loc(k, w) = Loc(d1.x.graph, w)
      BY <1>2, <1>5, SameReadsAtHand DEF Placeable
    <3> QED BY <1>2, <3>1 DEF Placeable, AtHand, IsNewest
  <2> HIDE DEF k
  <2>4. pred \in StoresOf(k, w)
    BY <2>2, <2>3, CoMaxIsStore
  <2> HIDE DEF pred, st
  <2>5. CoGrows(k, m) /\ m.lab = k.lab
    BY <2>2, <2>3, <2>4, AddCoOK
  <2> HIDE DEF m
  <2>6. Stays(k, m) /\ Keeps(k, m, Events(k))
    <3>1. Stays(k, m)
      BY <2>5 DEF Stays, Settled, Events
    <3> QED BY <2>5, <3>1, CoGrowsKeeps
  <2>7. c.x.graph = m /\ c.x.workqueue = d2.x.workqueue
    <3>1. c = [d2 EXCEPT !.st = st, !.x = [d2.x EXCEPT !.graph = m]]
      BY <1>5, <2>1 DEF ContextOK
    <3>2. c.x = [d2.x EXCEPT !.graph = m]
      BY <1>5, <3>1 DEF ContextOK
    <3> QED BY <2>2, <3>2
  <2>8. Settles(d2.x, c.x)
    BY <1>5, <2>2, <2>6, <2>7, KeptSettled DEF Settles, k
  <2> QED BY <1>5, <2>8, SettlesTrans DEF c
<1> QED BY <1>6, <1>7

(* So does an RMW. *)
LEMMA RMWSettles ==
  ASSUME CheckerOK, NEW p, ProgramOK(p), NEW d, ContextOK(p, d), ~d.moot, d.internal = NoError, NoDangling(d.x.graph),
         NEW l, LabelOK(p, d.x.graph, l), Extends(p, d.x.graph, l), l.pos \notin Events(d.x.graph), l.typ = "R",
         l.ins.op # "R", ExecSettled(d.x), l.revisitable
  PROVE  Settles(d.x, handleRMW(d, l).x)
<1> DEFINE r == l.pos
           d1 == handleLoad(d, l)
           g == d1.x.graph
           m == RMWWriteLabel(g, r)
           c == handleRMW(d, l)
<1>1. c = AfterRMWLoad(d1, r)
  BY DEF handleRMW
<1>2. Handles(p, d1) /\ (~d1.moot /\ d1.internal = NoError => NoDangling(g) /\ ReadAtEnd(g, r, l.ins))
  BY LoadOK
<1>3. Settles(d.x, d1.x)
  BY LoadSettles
<1> HIDE DEF d1
<1>4. CASE d1.moot \/ d1.internal # NoError \/ ~valueMakesRMWSucceed(g, r, ReadValue(g, r))
  BY <1>1, <1>3, <1>4 DEF AfterRMWLoad
<1>5. CASE ~d1.moot /\ d1.internal = NoError /\ valueMakesRMWSucceed(g, r, ReadValue(g, r))
  <2>1. c = handleStore(d1, m)
    BY <1>1, <1>5 DEF AfterRMWLoad
  <2>2. GraphOK(p, g, {}) /\ ContextOK(p, d1) /\ ExecSettled(d1.x)
    BY <1>2, <1>3 DEF Handles, ContextOK, ExecOK, Settles
  <2>3. /\ NoDangling(g) /\ r \in Events(g) /\ g.lab[r].typ = "R" /\ IsLast(g, r)
        /\ g.lab[r].ins = l.ins /\ g.lab[r].rf \in StoresOf(g, r)
    BY <1>2, <1>5 DEF ReadAtEnd
  <2>4. m.revisitable
    BY NewLabelsRevisitable
  <2> HIDE DEF g
  <2>5. /\ LabelOK(p, g, m) /\ Extends(p, g, m) /\ m.pos \notin Events(g) /\ m.typ = "W"
        /\ m.pos = <<r[1], r[2] + 1>> /\ m.ins = g.lab[r].ins
    BY <2>2, <2>3, WriteAfterRead
  <2> HIDE DEF m
  <2>6. RMWHasStore(g, m)
    <3>1. <<m.pos[1], m.pos[2] - 1>> = r
      <4>1. r[1] \in Nat /\ r[2] \in Nat /\ r = <<r[1], r[2]>>
        BY <2>2, <2>3, ThreadOf
      <4>2. m.pos[1] = r[1] /\ m.pos[2] - 1 = r[2]
        BY <2>5, <4>1
      <4> QED BY <4>1, <4>2
    <3> QED BY <2>3, <2>5, <3>1 DEF RMWHasStore, StoresOf, Loc
  <2>7. Settles(d1.x, handleStore(d1, m).x)
    BY <2>2, <2>3, <2>4, <2>5, <2>6, StoreSettles DEF g
  <2> QED BY <1>3, <2>1, <2>7, SettlesTrans
<1> QED BY <1>4, <1>5

(* Adding the label of an allocation or a free leaves what is settled. *)
LEMMA ProbeSettles ==
  ASSUME NEW p, NEW d, ContextOK(p, d), NoDangling(d.x.graph),
         NEW l, LabelOK(p, d.x.graph, l), Extends(p, d.x.graph, l), l.pos \notin Events(d.x.graph),
         l.typ \in {"M", "D", "RET"}, ExecSettled(d.x), l.revisitable
  PROVE  LET c == addProbe(d, l) IN Settles(d.x, c.x) /\ l.pos \notin Settled(c.x.graph)
<1> DEFINE g == d.x.graph
           b == <<l.pos[1], l.pos[2] - 1>>
           h == add(g, Probe(g.lab[b], l))
           c == addProbe(d, l)
<1>1. GraphOK(p, g, {}) /\ ExecOK(p, d.x) /\ DOMAIN d.x = {"graph", "workqueue"}
  BY DEF ContextOK, ExecOK
<1>2. b \in Events(g) /\ IsLast(g, b) /\ b[1] = l.pos[1]
  BY DEF Extends
<1>3. LastLabel(g, l.pos[1]) = g.lab[b]
  <2>1. b[2] = LastIndex(g, b[1])
    BY <1>1, <1>2, LastIndexIsLast
  <2>2. <<l.pos[1], LastIndex(g, l.pos[1])>> = b
    BY <1>2, <2>1
  <2> HIDE DEF b
  <2> QED BY <2>2 DEF LastLabel
<1>4. c = SetGraph(d, h)
  BY <1>3 DEF addProbe
<1>5. Appended(g, h, l)
  BY <1>1, ProbeAppends
<1>6. h.lab[l.pos].revisitable
  BY <1>1, ProbeLabels DEF GraphOK, LabelOK
<1> HIDE DEF h, c
<1>7. c.x.graph = h /\ c.x.workqueue = d.x.workqueue
  BY <1>1, <1>4 DEF SetGraph, ContextOK
<1> QED BY <1>1, <1>5, <1>6, <1>7, AppendedSettles DEF c

(* handleMalloc() leaves what is settled. *)
LEMMA MallocSettles ==
  ASSUME NEW p, NEW d, ContextOK(p, d), NoDangling(d.x.graph),
         NEW l, LabelOK(p, d.x.graph, l), Extends(p, d.x.graph, l), l.pos \notin Events(d.x.graph),
         l.typ = "M", ExecSettled(d.x), l.revisitable
  PROVE  Settles(d.x, handleMalloc(d, l).x)
<1> DEFINE d1 == addProbe(d, l)
           st == onAlloc(d1.st, l.pos, l.ins.loc)
           c == [d1 EXCEPT !.st = st]
<1>1. ContextOK(p, d1) /\ Settles(d.x, d1.x)
  BY ProbeOK, ProbeSettles
<1>2. handleMalloc(d, l) = c
  BY DEF handleMalloc
<1> HIDE DEF d1, st
<1>3. c.x = d1.x
  BY <1>1, SetStateOK
<1> HIDE DEF c
<1> QED BY <1>1, <1>2, <1>3

(* handleFree() leaves what is settled. *)
LEMMA FreeSettles ==
  ASSUME CheckerOK, NEW p, NEW d, ContextOK(p, d), NoDangling(d.x.graph),
         NEW l, LabelOK(p, d.x.graph, l), Extends(p, d.x.graph, l), l.pos \notin Events(d.x.graph),
         l.typ \in {"D", "RET"}, ExecSettled(d.x), l.revisitable
  PROVE  Settles(d.x, handleFree(d, l).x)
<1> DEFINE d1 == addProbe(d, l)
           d2 == checkForRaces(d1, l.pos)
           st == onFree(d2.st, l.pos, l.ins.loc, l.typ = "RET")
           d3 == [d2 EXCEPT !.st = st]
           c == handleFree(d, l)
<1>1. ContextOK(p, d1) /\ AtHand(d1.x.graph, l.pos) /\ Settles(d.x, d1.x) /\ l.pos \notin Settled(d1.x.graph)
  BY ProbeOK, ProbeSettles
<1>2. c = IF d2.moot THEN d2 ELSE d3
  BY DEF handleFree, FreeChecked
<1> HIDE DEF d1, st, c
<1>3. Reported(p, d1, d2) /\ Settles(d1.x, d2.x)
  BY <1>1, RacesOK, RacesSettle DEF Settles
<1> HIDE DEF d2
<1>4. d3.x = d2.x
  BY <1>3, SetStateOK DEF Reported
<1> HIDE DEF d3
<1> QED BY <1>1, <1>2, <1>3, <1>4, SettlesTrans DEF c

(* So do fences, protections and method boundaries. *)
LEMMA DummySettles ==
  ASSUME CheckerOK, NEW p, NEW d, ContextOK(p, d), NoDangling(d.x.graph),
         NEW l, LabelOK(p, d.x.graph, l), Extends(p, d.x.graph, l), l.pos \notin Events(d.x.graph),
         l.typ \in {"F", "HP", "MB", "ME"}, ExecSettled(d.x), l.revisitable
  PROVE  Settles(d.x, handleDummy(d, l).x)
<1> DEFINE d1 == SetGraph(d, addLabelToGraph(d.x.graph, l))
           st == IF l.typ = "HP" THEN onProtect(d1.st, l.ins.loc, l.ins.val) ELSE d1.st
           c == [d1 EXCEPT !.st = st]
<1>1. handleDummy(d, l) = c
  BY DEF handleDummy
<1>2. Settles(d.x, d1.x)
  BY AddedSettles
<1>3. DOMAIN d1 = {"x", "st", "moot", "warned", "internal"}
  BY DEF SetGraph, ContextOK
<1> HIDE DEF st, d1
<1>4. c.x = d1.x
  BY <1>3
<1> HIDE DEF c
<1> QED BY <1>1, <1>2, <1>4

(* Blocking a thread leaves what is settled. *)
LEMMA BlockSettles ==
  ASSUME NEW d, ContextOK(prog, d), ProgramOK(prog), NEW t \in ThreadIds(d.x.graph), isSchedulable(d.x.graph, t),
         NEW ip \in Nat, NEW ins, NEW val, ExecSettled(d.x)
  PROVE  Settles(d.x, SetGraph(d, blockThread(d.x.graph, t, ip, ins, val)).x)
<1> DEFINE g == d.x.graph
           l == NewLabel(<<t, LastIndex(g, t) + 1>>, "B", ip, ins, val)
           h == blockThread(g, t, ip, ins, val)
           c == SetGraph(d, h)
<1>1. GraphOK(prog, g, {}) /\ ExecOK(prog, d.x) /\ DOMAIN d.x = {"graph", "workqueue"}
  BY DEF ContextOK, ExecOK
<1>2. Appended(g, h, l)
  BY <1>1, BlockLabelOK
<1>3. DOMAIN l = LabelFields /\ l.revisitable
  BY LabelFieldsAre DEF NewLabel
<1>4. h = add(g, l)
  BY DEF blockThread
<1> HIDE DEF h, l
<1>5. h.lab[l.pos].revisitable
  <2>1. Shape(g) /\ Stamps(g)
    BY <1>1 DEF GraphOK
  <2>2. l.pos \notin Events(g)
    BY <1>2 DEF Appended
  <2> HIDE DEF g
  <2> QED BY <1>3, <1>4, <2>1, <2>2, AddedLabels
<1>6. c.x.graph = h /\ c.x.workqueue = d.x.workqueue
  BY <1>1 DEF SetGraph, ContextOK
<1> HIDE DEF c
<1> QED BY <1>1, <1>2, <1>5, <1>6, AppendedSettles DEF c, h

(* handleAssume() leaves what is settled. *)
LEMMA AssumeSettles ==
  ASSUME NEW d, ContextOK(prog, d), NoDangling(d.x.graph), ProgramOK(prog),
         NEW t \in ThreadIds(d.x.graph), isSchedulable(d.x.graph, t), NextIns(d.x.graph, t).op = "ASSUME",
         ExecSettled(d.x)
  PROVE  Settles(d.x, handleAssume(d, t).x)
<1> DEFINE g == d.x.graph
           ip == NextIp(g, t)
           ins == NextIns(g, t)
           d1 == SetGraph(d, blockThread(g, t, ip, ins, 0))
           moot == \E e \in getPreviousVisibleAccessLabel(g, t) :
                              /\ g.lab[e].typ = "R"
                              /\ isStable(g, e)
                              /\ ~(Ipr /\ ReadBlocks(g, e))
           c == handleAssume(d, t)
<1>1. GraphOK(prog, g, {})
  BY DEF ContextOK, ExecOK
<1>2. ip \in Nat
  BY <1>1, NextIpIs
<1>3. c = [d1 EXCEPT !.moot = moot]
  BY DEF handleAssume
<1> HIDE DEF ip, ins, moot, c
<1>4. Settles(d.x, d1.x)
  BY <1>2, BlockSettles
<1>5. DOMAIN d1 = {"x", "st", "moot", "warned", "internal"}
  BY DEF SetGraph, ContextOK
<1> HIDE DEF d1
<1>6. c.x = d1.x
  BY <1>3, <1>5
<1> QED BY <1>4, <1>6 DEF c

(* handleThreadCreate() leaves what is settled. *)
LEMMA ThreadCreateSettles ==
  ASSUME CheckerOK, NEW d, ContextOK(prog, d), NoDangling(d.x.graph), ProgramOK(prog),
         NEW t \in ThreadIds(d.x.graph), isSchedulable(d.x.graph, t), NextIns(d.x.graph, t).op = "CREATE",
         ExecSettled(d.x)
  PROVE  Settles(d.x, handleThreadCreate(d, t).x)
<1> DEFINE g == d.x.graph
           ins == NextIns(g, t)
           cid == ChildId(g, NextPos(g, t))
           l == NextLabel(g, t, "TC", cid)
           h == addLabelToGraph(g, l)
           d1 == SetGraph(d, h)
           m == ThreadStartLabel(cid, l.ins.val, l.pos)
           k == addLabelToGraph(h, m)
           c == handleThreadCreate(d, t)
<1>1. GraphOK(prog, g, {}) /\ ExecOK(prog, d.x)
  BY DEF ContextOK, ExecOK
<1>2. c = ThreadCreated(d, l, cid)
  BY DEF handleThreadCreate
<1> HIDE DEF cid
<1>3. LabelOK(prog, g, l) /\ Extends(prog, g, l) /\ l.pos \notin Events(g) /\ l.typ = "TC"
  BY <1>1, NextLabelOK DEF EventTypes
<1>4. l.revisitable /\ m.revisitable
  BY NewLabelsRevisitable
<1> HIDE DEF l
<1>5. Settles(d.x, d1.x)
  BY <1>3, <1>4, AddedSettles
<1>6. CASE cid # Cardinality(ThreadIds(g))
  <2>1. c = [d1 EXCEPT !.internal = "tid"]
    BY <1>2, <1>6 DEF ThreadCreated
  <2>2. DOMAIN d1 = {"x", "st", "moot", "warned", "internal"}
    BY DEF SetGraph, ContextOK
  <2> HIDE DEF d1, c
  <2>3. c.x = d1.x
    BY <2>1, <2>2
  <2> QED BY <1>5, <2>3 DEF c
<1>7. CASE cid = Cardinality(ThreadIds(g))
  <2>1. c = SetGraph(d, k)
    BY <1>2, <1>7 DEF ThreadCreated
  <2>2. l.ins = ins /\ l.pos = <<t, LastIndex(g, t) + 1>>
    BY <1>1, NextLabelOK DEF EventTypes, l
  <2>3. GraphOK(prog, h, {}) /\ Appended(g, h, l)
    BY <1>1, <1>3, LabelAppends
  <2>4. LabelOK(prog, h, m) /\ Starts(prog, h, m) /\ m.pos \notin Events(h) /\ m.typ = "TS"
    BY <1>1, <1>3, <1>7, <2>2, <2>3, ChildStarts
  <2>5. d1.x.graph = h /\ d1.x.workqueue = d.x.workqueue /\ ContextOK(prog, d1)
    <3>1. ContextOK(prog, d1) /\ d1.x.graph = h
      <4> HIDE DEF h
      <4> QED BY <1>3, <2>3, AddedContext
    <3>2. d1.x.workqueue = d.x.workqueue
      BY <1>1 DEF SetGraph, ContextOK, ExecOK
    <3> QED BY <3>1, <3>2
  <2> HIDE DEF m, h
  <2>6. Appended(h, k, m) /\ k.lab[m.pos].revisitable
    <3>1. Appended(h, k, m)
      BY <2>3, <2>4, LabelAppends
    <3>2. k.lab[m.pos].revisitable
      BY <1>4, <2>3, <2>4, AddedLabels DEF GraphOK, LabelOK
    <3> QED BY <3>1, <3>2
  <2>7. c.x.graph = k /\ c.x.workqueue = d.x.workqueue
    <3> HIDE DEF k, c
    <3> QED BY <1>1, <2>1 DEF SetGraph, ContextOK, ExecOK
  <2> HIDE DEF k, c, d1
  <2>8. Settles(d1.x, c.x)
    <3>1. ExecOK(prog, d1.x) /\ ExecSettled(d1.x)
      BY <1>5, <2>5 DEF ContextOK, Settles
    <3> QED BY <2>5, <2>6, <2>7, <3>1, AppendedSettles
  <2> QED BY <1>5, <2>8, SettlesTrans DEF c
<1> QED BY <1>6, <1>7

(* handleThreadJoin() leaves what is settled. *)
LEMMA ThreadJoinSettles ==
  ASSUME CheckerOK, NEW d, ContextOK(prog, d), NoDangling(d.x.graph), ProgramOK(prog),
         NEW t \in ThreadIds(d.x.graph), isSchedulable(d.x.graph, t), NextIns(d.x.graph, t).op = "JOIN",
         ExecSettled(d.x)
  PROVE  Settles(d.x, handleThreadJoin(d, t).x)
<1> DEFINE g == d.x.graph
           ip == NextIp(g, t)
           ins == NextIns(g, t)
           child == g.lab[Children(g, t)[ins.val]].val
           l == NextLabel(g, t, "TJ", child)
           c == handleThreadJoin(d, t)
<1>1. GraphOK(prog, g, {})
  BY DEF ContextOK, ExecOK
<1>2. c = SetGraph(d, IF Finish(g, child) = {} THEN blockThread(g, t, ip, ins, child) ELSE addLabelToGraph(g, l))
  BY DEF handleThreadJoin
<1>3. ip \in Nat
  BY <1>1, NextIpIs
<1> HIDE DEF child, c
<1>4. CASE Finish(g, child) = {}
  <2> HIDE DEF ip, ins
  <2>1. c = SetGraph(d, blockThread(g, t, ip, ins, child))
    BY <1>2, <1>4
  <2> QED BY <1>3, <2>1, BlockSettles DEF c
<1>5. CASE Finish(g, child) # {}
  <2>1. c = SetGraph(d, addLabelToGraph(g, l))
    BY <1>2, <1>5
  <2>2. LabelOK(prog, g, l) /\ Extends(prog, g, l) /\ l.pos \notin Events(g) /\ l.typ = "TJ"
    BY <1>1, NextLabelOK DEF EventTypes
  <2>3. l.revisitable
    BY NewLabelsRevisitable
  <2> HIDE DEF l
  <2> QED BY <2>1, <2>2, <2>3, AddedSettles DEF c
<1> QED BY <1>4, <1>5

(* handleThreadFinish() leaves what is settled: only blocks are removed. *)
LEMMA ThreadFinishSettles ==
  ASSUME CheckerOK, NEW d, ContextOK(prog, d), NoDangling(d.x.graph), ProgramOK(prog),
         NEW t \in ThreadIds(d.x.graph), isSchedulable(d.x.graph, t), NextIns(d.x.graph, t).op = "FINISH",
         ExecSettled(d.x)
  PROVE  Settles(d.x, handleThreadFinish(d, t).x)
<1> DEFINE g == d.x.graph
           l == NextLabel(g, t, "TF", 0)
           h == addLabelToGraph(g, l)
           d1 == SetGraph(d, h)
           W == Waiters(h, t)
           B == WaitBlocks(h, t)
           K == Events(h) \ B
           k == removeLast(h, W)
           c == handleThreadFinish(d, t)
<1>1. GraphOK(prog, g, {}) /\ ExecOK(prog, d.x)
  BY DEF ContextOK, ExecOK
<1>2. c = SetGraph(d, k)
  BY DEF handleThreadFinish, unblockThreads, Waiters
<1>3. LabelOK(prog, g, l) /\ Extends(prog, g, l) /\ l.pos \notin Events(g) /\ l.typ = "TF"
  BY <1>1, NextLabelOK DEF EventTypes
<1>4. l.revisitable
  BY NewLabelsRevisitable
<1> HIDE DEF l
<1>5. Settles(d.x, d1.x)
  BY <1>3, <1>4, AddedSettles
<1>6. GraphOK(prog, h, {}) /\ Appended(g, h, l)
  BY <1>1, <1>3, LabelAppends
<1> HIDE DEF h
<1>7. d1.x.graph = h /\ d1.x.workqueue = d.x.workqueue
  BY <1>1 DEF SetGraph, ContextOK, ExecOK
<1> HIDE DEF d1, c
<1>8. \A e \in B : e \in Events(h) /\ h.lab[e].typ = "B"
  BY <1>6, WaitersGo
<1>9. Shrunk(h, k, K) /\ \A e \in K : k.lab[e] = h.lab[e]
  BY <1>6, WaitersGo
<1> HIDE DEF k
<1>10. c.x.graph = k /\ c.x.workqueue = d.x.workqueue
  BY <1>1, <1>2 DEF SetGraph, ContextOK, ExecOK
<1>11. Keeps(h, k, K) /\ Events(k) = K
  BY <1>6, <1>9, ShrunkKeeps DEF Shrunk
<1>12. Stays(h, k)
  <2>1. SettledOK(h)
    BY <1>5, <1>7 DEF Settles, ExecSettled
  <2> HIDE DEF B
  <2>2. Events(k) \subseteq Events(h) /\ \A e \in Events(h) \ Events(k) : h.lab[e].typ = "B"
    BY <1>8, <1>11
  <2> QED BY <1>9, <1>11, <2>1, <2>2, BlocksGo
<1>13. Settles(d1.x, c.x)
  <2>1. ItemsOK(h, d.x.workqueue) /\ ExecSettled(d1.x)
    BY <1>1, <1>3, <1>5, <1>6, AppendedExec DEF Settles
  <2>2. \A e \in Events(h) \ K : h.lab[e].typ = "B"
    BY <1>8
  <2> HIDE DEF K
  <2> QED BY <1>6, <1>7, <1>10, <1>11, <1>12, <2>1, <2>2, KeptSettled
<1> QED BY <1>5, <1>13, SettlesTrans DEF c

(*************************** The execution stack ***************************)

(* A step leaves what is settled in the executions that remain. *)
StackStays(s, u) ==
    StackSettled(u) /\ \A i \in DOMAIN s \cap DOMAIN u : Stays(s[i].graph, u[i].graph)

(* The top execution changes. *)
LEMMA TopStays ==
  ASSUME NEW p, NEW s, StackOK(p, s), s # <<>>, StackSettled(s), NEW y, Settles(Last(s), y)
  PROVE  StackStays(s, WithTop(s, y))
<1> DEFINE u == WithTop(s, y)
           n == Len(s)
<1>1. n \in Nat \ {0} /\ DOMAIN s = 1 .. n /\ Last(s) = s[n]
  BY LastExecution
<1>2. DOMAIN u = DOMAIN s /\ u[n] = y /\ \A i \in DOMAIN s : i # n => u[i] = s[i]
  BY <1>1 DEF WithTop
<1> HIDE DEF u, n
<1>3. ASSUME NEW i \in DOMAIN s PROVE ExecSettled(u[i]) /\ Stays(s[i].graph, u[i].graph)
  <2>1. CASE i = n
    BY <1>1, <1>2, <2>1 DEF Settles
  <2>2. CASE i # n
    BY <1>2, <2>2, StaysRefl DEF StackSettled
  <2> QED BY <2>1, <2>2
<1> QED BY <1>2, <1>3 DEF StackStays, StackSettled, u

(* popExecution(): the executions below are as they were. *)
LEMMA PopStays ==
  ASSUME NEW p, NEW s, StackOK(p, s), s # <<>>, StackSettled(s)
  PROVE  StackStays(s, Front(s))
<1> DEFINE u == Front(s)
           R == ToSet(s)
           n == Len(s)
<1>1. n \in Nat \ {0} /\ DOMAIN s = 1 .. n
  BY LastExecution
<1>2. s \in Seq(R)
  BY DEF StackOK, IsSeq
<1>3. u = SubSeq(s, 1, n - 1)
  BY DEF Front
<1> HIDE DEF u, R
<1>4. DOMAIN u = 1 .. n - 1 /\ \A i \in 1 .. n - 1 : u[i] = s[i]
  BY <1>1, <1>2, <1>3
<1>5. \A i \in DOMAIN u : i \in DOMAIN s /\ u[i] = s[i]
  BY <1>1, <1>4
<1> QED BY <1>5, StaysRefl DEF StackStays, StackSettled, u

(* pushExecution(): the execution with the item is cut, its copy is new. *)
LEMMA PushStays ==
  ASSUME NEW p, NEW s, StackOK(p, s), s # <<>>, StackSettled(s), NEW x, Settles(Last(s), x), NEW y, ExecSettled(y)
  PROVE  StackStays(s, Front(s) \o <<x, y>>)
<1> DEFINE f == Front(s)
           u == f \o <<x, y>>
           R == ToSet(s) \cup {x, y}
           n == Len(s)
<1>1. n \in Nat \ {0} /\ DOMAIN s = 1 .. n /\ Last(s) = s[n]
  BY LastExecution
<1>2. s \in Seq(R) /\ <<x, y>> \in Seq(R)
  <2>1. s \in Seq(ToSet(s))
    BY DEF StackOK, IsSeq
  <2>2. s \in Seq(R)
    BY <2>1
  <2>3. x \in R /\ y \in R
    OBVIOUS
  <2> HIDE DEF R
  <2> QED BY <2>2, <2>3
<1>3. f = SubSeq(s, 1, n - 1)
  BY DEF Front
<1> HIDE DEF f, R
<1>4. f \in Seq(R) /\ Len(f) = n - 1 /\ \A i \in 1 .. n - 1 : f[i] = s[i]
  BY <1>1, <1>2, <1>3
<1>5. DOMAIN u = 1 .. n + 1 /\ \A i \in 1 .. n - 1 : u[i] = s[i]
  BY <1>1, <1>2, <1>4
<1>6. u[n] = x /\ u[n + 1] = y
  BY <1>1, <1>2, <1>4
<1> HIDE DEF u, n
<1>7. ASSUME NEW i \in DOMAIN u PROVE ExecSettled(u[i])
  <2>1. i \in 1 .. n - 1 \/ i = n \/ i = n + 1
    BY <1>1, <1>5
  <2>2. i \in 1 .. n - 1 => i \in DOMAIN s
    BY <1>1
  <2> QED BY <1>5, <1>6, <2>1, <2>2 DEF StackSettled, Settles
<1>8. ASSUME NEW i \in DOMAIN s PROVE Stays(s[i].graph, u[i].graph)
  <2>1. i \in 1 .. n - 1 \/ i = n
    BY <1>1
  <2> QED BY <1>1, <1>5, <1>6, <2>1, StaysRefl DEF Settles
<1> QED BY <1>7, <1>8 DEF StackStays, StackSettled, u, f

(******************************* The actions *******************************)

(* The steps of the program leave what is settled. *)
LEMMA RunStepStays ==
  ASSUME CheckerOK, DriverInv, ProgramOK(prog), StackSettled(execStack), NEW t, RunStep(t)
  PROVE  StackStays(execStack, execStack')
<1>1. Scheduled(t)
  BY StepHandler
<1>2. PICK l, d : Handled(d) /\ (Access(l, d) \/ OtherEvent(l, d) \/ ThreadEvent(t, d))
  BY StepHandler
<1>3. execStack # <<>> /\ StackOK(prog, execStack)
  BY <1>1, TopOK DEF Scheduled
<1>4. Top = Last(execStack) /\ ExecSettled(Top)
  BY <1>3, LastExecution DEF Top, StackSettled
<1>5. /\ ContextOK(prog, Context) /\ ~Context.moot /\ Context.internal = NoError /\ NoDangling(Context.x.graph)
      /\ Context.x = Top /\ t \in ThreadIds(Context.x.graph) /\ isSchedulable(Context.x.graph, t)
      /\ ExecSettled(Context.x)
  BY <1>1, <1>4 DEF Scheduled
<1>6. Settles(Context.x, d.x)
  <2>1. CASE Access(l, d)
    BY <1>5, <2>1, LoadSettles, NALoadSettles, StoreSettles, NAStoreSettles, RMWSettles DEF Access, NextEvent
  <2>2. CASE OtherEvent(l, d)
    BY <1>5, <2>2, MallocSettles, FreeSettles, DummySettles DEF OtherEvent, NextEvent
  <2>3. CASE ThreadEvent(t, d)
    BY <1>5, <2>3, AssumeSettles, ThreadCreateSettles, ThreadJoinSettles, ThreadFinishSettles DEF ThreadEvent
  <2> QED BY <1>2, <2>1, <2>2, <2>3
<1>7. execStack' = WithTop(execStack, d.x)
  BY <1>2 DEF Handled, SetTop, WithTop
<1> QED BY <1>3, <1>4, <1>5, <1>6, <1>7, TopStays

(* The item that done() takes leaves what is settled when it cuts. *)
LEMMA TakenSettles ==
  ASSUME CheckerOK, DriverInv, StackSettled(execStack), NEW kind, NextItem(kind)
  PROVE  LET item == Last(Top.workqueue)
             y == CutAt(Top, CutEvent(item))
         IN Top = Last(execStack) /\ Settles(Top, y) /\ ItemSettled(y.graph, item) /\ ExecSettled(y)
<1> DEFINE item == Last(Top.workqueue)
           y == CutAt(Top, CutEvent(item))
<1>1. phase = "done" /\ Top.workqueue # <<>>
  BY DEF NextItem
<1>2. execStack # <<>> /\ ExecOK(prog, Top) /\ StackOK(prog, execStack)
  BY <1>1, TopOK
<1>3. Top = Last(execStack) /\ ExecSettled(Top)
  BY <1>2, LastExecution DEF Top, StackSettled
<1>4. Settles(Top, y) /\ ItemSettled(y.graph, item)
  BY <1>1, <1>2, <1>3, CutSettles
<1> HIDE DEF y, item
<1> QED BY <1>3, <1>4 DEF y, item, Settles

(* So does the forward revisit of a read. *)
LEMMA ForwardRevisitReadStays ==
  ASSUME CheckerOK, DriverInv, ProgramOK(prog), StackSettled(execStack), ForwardRevisitRead
  PROVE  StackStays(execStack, execStack')
<1> DEFINE item == Last(Top.workqueue)
           y == CutAt(Top, CutEvent(item))
           rv == revisitRead(y, item.pos, item.rev)
<1>1. NextItem("RF")
  BY DEF ForwardRevisitRead
<1>2. CutEvent(item) = item.pos
  BY <1>1 DEF NextItem, CutEvent
<1>3. Restricted(item.pos) = y
  BY <1>2 DEF Restricted, CutAt
<1>4. SetTop(rv.exec)
  BY <1>3 DEF ForwardRevisitRead
<1>5. /\ execStack # <<>> /\ StackOK(prog, execStack) /\ item.kind = "RF" /\ ExecOK(prog, y) /\ ItemOK(y.graph, item)
      /\ IsLast(y.graph, CutEvent(item)) /\ NoDangling(y.graph)
  BY <1>1, TakenItem
<1>6. Top = Last(execStack) /\ Settles(Top, y) /\ ItemSettled(y.graph, item) /\ ExecSettled(y)
  BY <1>1, TakenSettles
<1> HIDE DEF item, y
<1>7. /\ item.pos \in Events(y.graph) /\ y.graph.lab[item.pos].typ = "R" /\ IsLast(y.graph, item.pos)
      /\ item.rev \in StoresOf(y.graph, item.pos) /\ item.pos \notin Settled(y.graph)
  BY <1>2, <1>5, <1>6 DEF ItemOK, ItemSettled
<1>8. Settles(y, rv.exec)
  BY <1>5, <1>6, <1>7, RevisitReadSettles
<1> HIDE DEF rv
<1>9. execStack' = WithTop(execStack, rv.exec)
  BY <1>4 DEF SetTop, WithTop
<1>10. Settles(Last(execStack), rv.exec)
  BY <1>6, <1>8, SettlesTrans
<1> QED BY <1>5, <1>9, <1>10, TopStays

(* And the forward revisit of a write. *)
LEMMA ForwardRevisitWriteStays ==
  ASSUME CheckerOK, DriverInv, ProgramOK(prog), StackSettled(execStack), ForwardRevisitWrite
  PROVE  StackStays(execStack, execStack')
<1> DEFINE item == Last(Top.workqueue)
           y == CutAt(Top, CutEvent(item))
           rv == revisitWrite(y, item.pos, item.rev)
<1>1. NextItem("CO")
  BY DEF ForwardRevisitWrite
<1>2. CutEvent(item) = item.pos
  BY <1>1 DEF NextItem, CutEvent
<1>3. Restricted(item.pos) = y
  BY <1>2 DEF Restricted, CutAt
<1>4. SetTop(rv.exec)
  BY <1>3 DEF ForwardRevisitWrite
<1>5. /\ execStack # <<>> /\ StackOK(prog, execStack) /\ item.kind = "CO" /\ ExecOK(prog, y) /\ ItemOK(y.graph, item)
      /\ Youngest(y.graph, CutEvent(item)) /\ NoDangling(y.graph)
  BY <1>1, TakenItem
<1>6. Top = Last(execStack) /\ Settles(Top, y) /\ ItemSettled(y.graph, item) /\ ExecSettled(y)
  BY <1>1, TakenSettles
<1> HIDE DEF item, y
<1>7. /\ item.pos \in Events(y.graph) /\ y.graph.lab[item.pos].typ = "W" /\ Youngest(y.graph, item.pos)
      /\ item.pos \in StoresOf(y.graph, item.pos) /\ item.rev \in StoresOf(y.graph, item.pos) \ {item.pos}
      /\ item.pos \notin Settled(y.graph)
  BY <1>2, <1>5, <1>6 DEF ItemOK, ItemSettled
<1>8. Settles(y, rv.exec)
  BY <1>5, <1>6, <1>7, RevisitWriteSettles
<1> HIDE DEF rv
<1>9. execStack' = WithTop(execStack, rv.exec)
  BY <1>4 DEF SetTop, WithTop
<1>10. Settles(Last(execStack), rv.exec)
  BY <1>6, <1>8, SettlesTrans
<1> QED BY <1>5, <1>9, <1>10, TopStays

(* backwardRevisit() leaves what is settled in the execution that it takes  *)
(* its item from, and in the copy.                                          *)
LEMMA BackwardRevisitStays ==
  ASSUME CheckerOK, DriverInv, ProgramOK(prog), StackSettled(execStack), BackwardRevisit
  PROVE  StackStays(execStack, execStack')
<1> DEFINE item == Last(Top.workqueue)
           x == CutAt(Top, CutEvent(item))
           y == Copied(x.graph, item)
           rv == revisitRead(y, item.pos, item.rev)
<1>1. NextItem("BR")
  BY DEF BackwardRevisit
<1>2. CutEvent(item) = item.rev
  BY <1>1 DEF NextItem, CutEvent
<1>3. Restricted(item.rev) = x
  BY <1>2 DEF Restricted, CutAt
<1>4. execStack' = Front(execStack) \o <<x, rv.exec>>
  BY <1>3 DEF BackwardRevisit
<1>5. /\ execStack # <<>> /\ StackOK(prog, execStack) /\ item.kind = "BR"
      /\ ExecOK(prog, x) /\ ItemOK(x.graph, item) /\ NoDangling(x.graph)
  BY <1>1, TakenItem
<1>6. Top = Last(execStack) /\ Settles(Top, x) /\ ItemSettled(x.graph, item) /\ ExecSettled(x)
  BY <1>1, TakenSettles
<1> HIDE DEF item, x
<1>7. /\ ExecOK(prog, y) /\ NoDangling(y.graph)
      /\ item.pos \in Events(y.graph) /\ y.graph.lab[item.pos].typ = "R" /\ IsLast(y.graph, item.pos)
      /\ item.rev \in StoresOf(y.graph, item.pos)
  BY <1>5, CopiedOK DEF ExecOK
<1>8. ExecSettled(y) /\ item.pos \notin Settled(y.graph)
  BY <1>5, <1>6, CopySettles DEF ExecOK, ExecSettled
<1> HIDE DEF y
<1>9. Settles(y, rv.exec)
  BY <1>7, <1>8, RevisitReadSettles
<1> DEFINE z == rv.exec
<1> HIDE DEF rv
<1>10. ExecSettled(z) /\ execStack' = Front(execStack) \o <<x, z>>
  BY <1>4, <1>9 DEF Settles
<1> HIDE DEF z
<1> QED BY <1>5, <1>6, <1>10, PushStays

(* And the replay of an error or a warning. *)
LEMMA ErrorReplayStays ==
  ASSUME CheckerOK, DriverInv, StackSettled(execStack), ErrorReplay
  PROVE  StackStays(execStack, execStack')
<1> DEFINE item == Last(Top.workqueue)
           y == CutAt(Top, CutEvent(item))
<1>1. PICK kind \in {"WARN", "ERROR"} : NextItem(kind)
  BY DEF ErrorReplay
<1>2. CutEvent(item) = item.pos
  BY <1>1 DEF NextItem, CutEvent
<1>3. Restricted(item.pos) = y
  BY <1>2 DEF Restricted, CutAt
<1>4. SetTop(y)
  BY <1>3 DEF ErrorReplay
<1>5. execStack # <<>> /\ StackOK(prog, execStack)
  BY <1>1, TakenItem
<1>6. Top = Last(execStack) /\ Settles(Top, y)
  BY <1>1, TakenSettles
<1> HIDE DEF item, y
<1>7. execStack' = WithTop(execStack, y)
  BY <1>4 DEF SetTop, WithTop
<1> QED BY <1>5, <1>6, <1>7, TopStays

(* Every step of the driver leaves what is settled. *)
LEMMA StepStays ==
  ASSUME CheckerOK, \A p \in Programs : ProgramOK(p), DriverInv, StackSettled(execStack), [Next]_vars
  PROVE  StackStays(execStack, execStack')
<1>1. ProgramOK(prog)
  BY DEF DriverInv
<1>2. CASE \E t \in ThreadIds(Top.graph) : RunStep(t)
  BY <1>1, <1>2, RunStepStays
<1>3. CASE execStack' = execStack
  BY <1>3, StaysRefl DEF StackStays
<1>4. CASE HandleExecutionEnd
  BY <1>3, <1>4 DEF HandleExecutionEnd
<1>5. CASE RevisitStep
  <2>1. CASE ForwardRevisitRead
    BY <1>1, <2>1, ForwardRevisitReadStays
  <2>2. CASE ForwardRevisitWrite
    BY <1>1, <2>2, ForwardRevisitWriteStays
  <2>3. CASE BackwardRevisit
    BY <1>1, <2>3, BackwardRevisitStays
  <2>4. CASE ErrorReplay
    BY <2>4, ErrorReplayStays
  <2>5. CASE PopExecution
    <3>1. execStack # <<>> /\ StackOK(prog, execStack) /\ execStack' = Front(execStack)
      BY <2>5, TopOK DEF PopExecution
    <3> QED BY <3>1, PopStays
  <2> QED BY <1>5, <2>1, <2>2, <2>3, <2>4, <2>5 DEF RevisitStep
<1>6. CASE UNCHANGED vars
  BY <1>3, <1>6 DEF vars
<1> QED BY <1>2, <1>4, <1>5, <1>6 DEF Next, Terminated

(******************************* The theorems ******************************)

(* What revisits have settled is closed under what it reads, in every       *)
(* execution on the stack, and it is not newer than any event at which an   *)
(* item of that execution cuts (restrict()), nor left out by the copies     *)
(* that its backward revisits make (backwardRevisit()).                     *)
THEOREM SettledInvariant ==
  ASSUME CheckerOK, \A p \in Programs : ProgramOK(p)
  PROVE  Spec => []SettledInv
<1>1. Init => SettledInv
  <2> DEFINE x == [graph |-> EmptyGraph, workqueue |-> <<>>]
  <2>1. Settled(x.graph) = {}
    BY DEF EmptyGraph, Settled, Events, NewLabel
  <2>2. ExecSettled(x)
    BY <2>1 DEF ExecSettled, SettledOK
  <2> HIDE DEF x
  <2>3. ASSUME Init PROVE execStack = <<x>>
    BY <2>3 DEF Init, x
  <2> QED BY <2>2, <2>3 DEF SettledInv, StackSettled
<1>2. DriverInv /\ SettledInv /\ [Next]_vars => SettledInv'
  BY StepStays DEF SettledInv, StackStays
<1> QED BY <1>1, <1>2, DriverInvariant, PTL DEF Spec

(* What a revisiting write depends on is settled (copyGraph() marks it not  *)
(* revisitable): as long as the execution stays on the stack no cut, no     *)
(* other revisit and no handler removes these events or changes their       *)
(* labels.                                                                  *)
THEOREM SettledStay ==
  ASSUME CheckerOK, \A p \in Programs : ProgramOK(p) /\ AtomicLoads(p)
  PROVE  Spec => SettledEventsStay
<1> DEFINE A == \A i \in DOMAIN execStack \cap DOMAIN execStack' :
                  \A e \in Events(execStack[i].graph) :
                     ~execStack[i].graph.lab[e].revisitable =>
                         /\ e \in Events(execStack'[i].graph)
                         /\ execStack'[i].graph.lab[e] = execStack[i].graph.lab[e]
<1>1. \A p \in Programs : ProgramOK(p)
  OBVIOUS
<1>2. ASSUME DriverInv, SettledInv, [Next]_vars PROVE A
  <2>1. StackStays(execStack, execStack')
    BY <1>1, <1>2, StepStays DEF SettledInv
  <2> SUFFICES ASSUME NEW i \in DOMAIN execStack \cap DOMAIN execStack', NEW e \in Events(execStack[i].graph),
                      ~execStack[i].graph.lab[e].revisitable
               PROVE  /\ e \in Events(execStack'[i].graph)
                      /\ execStack'[i].graph.lab[e] = execStack[i].graph.lab[e]
    OBVIOUS
  <2> DEFINE g == execStack[i].graph
             h == execStack'[i].graph
  <2>2. Stays(g, h) /\ e \in Settled(g)
    BY <2>1 DEF StackStays, Settled
  <2>3. GraphOK(prog, g, {}) /\ prog \in Programs
    BY <1>2, InvParts DEF StackOK, ExecOK, FlagsOK
  <2> HIDE DEF g, h
  <2>4. ~NonAtomicRead(g.lab[e])
    BY <2>2, <2>3, ReadsAreAtomic DEF NonAtomicRead, Settled, Reads, OfType
  <2>5. e \in Events(h) /\ h.lab[e] = g.lab[e]
    BY <2>2, <2>4 DEF Stays, Settled
  <2> QED BY <2>5 DEF g, h
<1>3. DriverInv /\ SettledInv /\ [Next]_vars => [A]_vars
  BY <1>2
<1> HIDE DEF A
<1>4. Spec => [][A]_vars
  BY <1>1, <1>3, DriverInvariant, SettledInvariant, PTL DEF Spec
<1> QED BY <1>4 DEF A, SettledEventsStay
===============================================================================
