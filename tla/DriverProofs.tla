----------------------------- MODULE DriverProofs -----------------------------
(***************************************************************************)
(* Items and revisits: what a change of the graph leaves of the items that *)
(* were pushed before it, and that calcRevisits, done()'s cut,             *)
(* revisitRead, revisitWrite and the copy of a backward revisit keep an    *)
(* execution's invariant, ExecOK.  Then the handlers of the driver and the *)
(* steps of done(), which keep DriverInv, and what follows from it for     *)
(* every program, every schedule and every checker that CheckerOK admits.  *)
(***************************************************************************)
EXTENDS GraphProofs

(**************************** Items and revisits ***************************)

(* h still has what items say about the events T of g: their labels, the    *)
(* order of their stamps, their locations' stores, and the prefixes of      *)
(* writes.                                                                  *)
Keeps(g, h, T) ==
    /\ T \subseteq Events(g) /\ T \subseteq Events(h)
    /\ \A e \in T : h.lab[e].typ = g.lab[e].typ /\ h.lab[e].ins = g.lab[e].ins
    /\ \A d, e \in T : Stamp(g, d) <= Stamp(g, e) => Stamp(h, d) <= Stamp(h, e)
    /\ \A l \in Locs : ToSet(g.co[l]) \cap T \subseteq ToSet(h.co[l])
    /\ \A e \in T : g.lab[e].typ = "W" => FullPrefix(h, e) = FullPrefix(g, e)

(* Two changes one after the other. *)
LEMMA KeepsTrans ==
  ASSUME NEW g, NEW h, NEW k, NEW T, NEW S, Keeps(g, h, T), Keeps(h, k, S), T \subseteq S
  PROVE  Keeps(g, k, T)
BY DEF Keeps

(* Changes of reads keep everything. *)
LEMMA SameTextKeeps ==
  ASSUME NEW g, NEW h, SameText(g, h), \A l \in Locs : ToSet(g.co[l]) \subseteq ToSet(h.co[l]),
         \A e \in Events(g) : g.lab[e].typ = "W" => h.lab[e].prefix = g.lab[e].prefix
  PROVE  Keeps(g, h, Events(g))
BY DEF SameText, Keeps, Stamp, FullPrefix

(* Changes of flags keep everything. *)
LEMMA SameReadsKeeps ==
  ASSUME NEW g, NEW h, SameReads(g, h)
  PROVE  Keeps(g, h, Events(g))
BY SameTextKeeps DEF SameReads

(* Changes of coherence keep everything. *)
LEMMA CoGrowsKeeps ==
  ASSUME NEW g, NEW h, CoGrows(g, h)
  PROVE  Keeps(g, h, Events(g))
BY SameTextKeeps DEF CoGrows

(* New stores for last reads keep everything. *)
LEMMA RereadKeeps ==
  ASSUME NEW g, NEW h, NEW rf, Reread(g, h, rf), LastReads(g, rf)
  PROVE  Keeps(g, h, Events(g))
<1>1. \A e \in Events(g) : g.lab[e].typ = "W" => e \notin DOMAIN rf
  BY DEF LastReads, Reads, OfType
<1> QED BY <1>1, SameTextKeeps DEF Reread

(* So does setRf(). *)
LEMMA SetsRfKeeps ==
  ASSUME NEW g, NEW h, NEW r, NEW w, SetsRf(g, h, r, w), g.lab[r].typ = "R"
  PROVE  Keeps(g, h, Events(g))
<1>1. \A e \in Events(g) : g.lab[e].typ = "W" => h.lab[e].prefix = g.lab[e].prefix
  BY DEF SetsRf
<1> QED BY <1>1, SameTextKeeps DEF SetsRf

(* Adding a label keeps everything. *)
LEMMA AddedKeeps ==
  ASSUME NEW g, NEW h, NEW l, Added(g, h, l)
  PROVE  Keeps(g, h, Events(g))
BY DEF Added, Keeps, FullPrefix

(* A cut or a copy keeps what is left. *)
LEMMA ShrunkKeeps ==
  ASSUME NEW p, NEW g, NEW h, NEW K, GraphOK(p, g, {}), Shrunk(g, h, K)
  PROVE  Keeps(g, h, K)
<1>1. ASSUME NEW d \in K, NEW e \in K, Stamp(g, d) <= Stamp(g, e) PROVE Stamp(h, d) <= Stamp(h, e)
  <2>1. Stamp(g, d) \in Nat /\ Stamp(g, e) \in Nat /\ Stamp(h, d) \in Nat /\ Stamp(h, e) \in Nat
    BY DEF GraphOK, Stamps, Stamp, Shrunk
  <2>2. ~(Stamp(g, e) < Stamp(g, d))
    BY <1>1, <2>1
  <2>3. ~(Stamp(h, e) < Stamp(h, d))
    BY <2>2 DEF Shrunk
  <2> QED BY <2>1, <2>3
<1> QED BY <1>1 DEF Shrunk, Keeps, FullPrefix

(* An item whose events are kept is still right. *)
LEMMA KeptItem ==
  ASSUME NEW p, NEW g, NEW h, NEW T, NEW X, GraphOK(p, g, X), Keeps(g, h, T),
         NEW item, ItemOK(g, item), item.pos \in T, item.rev \in T
  PROVE  ItemOK(h, item)
<1> DEFINE pos == item.pos
           rev == item.rev
           cut == CutEvent(item)
<1>1. cut \in {pos, rev}
  BY DEF CutEvent
<1> HIDE DEF cut
<1>2. Loc(h, pos) = Loc(g, pos) /\ h.lab[pos].typ = g.lab[pos].typ /\ h.lab[rev].typ = g.lab[rev].typ
  BY DEF Loc, Keeps
<1>3. Stamp(h, pos) <= Stamp(h, cut) /\ (rev = InitEvent \/ Stamp(h, rev) <= Stamp(h, cut))
  <2>1. Stamp(g, pos) <= Stamp(g, cut) /\ (rev = InitEvent \/ Stamp(g, rev) <= Stamp(g, cut))
    BY DEF ItemOK, cut
  <2>2. cut \in T
    BY <1>1
  <2> QED BY <2>1, <2>2 DEF Keeps
<1>4. g.lab[pos].typ \in {"R", "W"} => Loc(g, pos) \in Locs
  BY DEF ItemOK, GraphOK, Texts, Loc
<1>5. g.lab[pos].typ \in {"R", "W"} => \A w \in T : w \in ToSet(g.co[Loc(g, pos)]) => w \in ToSet(h.co[Loc(h, pos)])
  BY <1>2, <1>4 DEF Keeps
<1>6. item.kind = "RF" => h.lab[pos].typ = "R" /\ rev \in StoresOf(h, pos)
  BY <1>2, <1>5 DEF ItemOK, StoresOf
<1>7. item.kind = "CO" => h.lab[pos].typ = "W" /\ pos \in StoresOf(h, pos) /\ rev \in StoresOf(h, pos) \ {pos}
  BY <1>2, <1>5 DEF ItemOK, StoresOf
<1>8. item.kind = "BR" => /\ h.lab[pos].typ = "R" /\ rev \in ToSet(h.co[Loc(h, pos)])
                          /\ pos \notin FullPrefix(h, rev)
  <2> HAVE item.kind = "BR"
  <2>1. g.lab[pos].typ = "R" /\ rev \in ToSet(g.co[Loc(g, pos)]) /\ pos \notin FullPrefix(g, rev)
    BY DEF ItemOK
  <2>2. g.lab[rev].typ = "W"
    BY <1>4, <2>1 DEF GraphOK, CoherenceOK
  <2>3. FullPrefix(h, rev) = FullPrefix(g, rev)
    BY <2>2 DEF Keeps
  <2> QED BY <1>2, <1>5, <2>1, <2>3
<1>9. {pos, rev} \subseteq Events(h)
  BY DEF Keeps
<1> QED BY <1>2, <1>3, <1>6, <1>7, <1>8, <1>9 DEF ItemOK, cut

(* The items refer to events of T only. *)
ItemsIn(items, T) == \A j \in DOMAIN items : items[j].pos \in T /\ items[j].rev \in T

(* Items whose events are kept are still right, and still sorted. *)
LEMMA KeptItems ==
  ASSUME NEW p, NEW g, NEW h, NEW T, NEW X, GraphOK(p, g, X), Keeps(g, h, T),
         NEW items, ItemsOK(g, items), ItemsIn(items, T)
  PROVE  ItemsOK(h, items)
<1>1. \A j \in DOMAIN items : ItemOK(h, items[j])
  BY KeptItem DEF ItemsOK, ItemsIn
<1>2. \A j \in DOMAIN items : CutEvent(items[j]) \in T
  BY DEF CutEvent, ItemsIn
<1>3. ASSUME NEW j \in DOMAIN items, NEW k \in 1 .. j
      PROVE  Stamp(h, CutEvent(items[k])) <= Stamp(h, CutEvent(items[j]))
  <2>1. k \in DOMAIN items
    BY DEF ItemsOK, IsSeq
  <2>2. Stamp(g, CutEvent(items[k])) <= Stamp(g, CutEvent(items[j]))
    BY DEF ItemsOK
  <2> QED BY <1>2, <2>1, <2>2 DEF Keeps
<1> QED BY <1>1, <1>3 DEF ItemsOK

(* If all events are kept, so are the items. *)
LEMMA KeptAll ==
  ASSUME NEW p, NEW g, NEW h, NEW X, GraphOK(p, g, X), Keeps(g, h, Events(g)),
         NEW items, ItemsOK(g, items)
  PROVE  ItemsOK(h, items)
<1>1. ItemsIn(items, Events(g))
  BY DEF ItemsOK, ItemOK, ItemsIn
<1> QED BY <1>1, KeptItems

(* Items do not refer to blocks, which come and go. *)
LEMMA ItemsNotBlocks ==
  ASSUME NEW p, NEW g, NEW X, GraphOK(p, g, X), NEW items, ItemsOK(g, items), NEW B,
         \A e \in B : g.lab[e].typ = "B"
  PROVE  ItemsIn(items, Events(g) \ B)
<1>1. g.lab[InitEvent].typ # "B"
  BY DEF GraphOK, Shape, Kinds
<1> QED BY <1>1 DEF ItemsOK, ItemOK, ItemsIn

(* The event at which an item cuts is an event of the graph. *)
LEMMA CutOfItem ==
  ASSUME NEW p, NEW g, NEW X, GraphOK(p, g, X), NEW item, ItemOK(g, item)
  PROVE  CutEvent(item) \in Events(g) /\ CutEvent(item)[2] > 0
<1>1. CASE item.kind = "BR"
  <2>1. CutEvent(item) = item.rev /\ item.rev \in ToSet(g.co[Loc(g, item.pos)]) /\ g.lab[item.pos].typ = "R"
        /\ item.pos \in Events(g) /\ item.rev \in Events(g)
    BY <1>1 DEF ItemOK, CutEvent
  <2>2. g.lab[item.rev].typ = "W"
    BY <2>1 DEF GraphOK, Texts, CoherenceOK, Loc
  <2>3. item.rev # InitEvent
    BY <2>1, <2>2 DEF GraphOK, Kinds, Shape
  <2> QED BY <2>1, <2>3 DEF ItemOK
<1>2. CASE item.kind # "BR"
  BY <1>2 DEF ItemOK, CutEvent
<1> QED BY <1>1, <1>2

(* New items that cut at the youngest event go on top. *)
LEMMA PushItems ==
  ASSUME NEW p, NEW g, NEW X, GraphOK(p, g, X), NEW items, ItemsOK(g, items), NEW more, IsSeq(more),
         NEW c, Youngest(g, c), \A j \in DOMAIN more : ItemOK(g, more[j]) /\ CutEvent(more[j]) = c
  PROVE  ItemsOK(g, items \o more)
<1> DEFINE all == items \o more
<1>1. items \in Seq(ToSet(items)) /\ more \in Seq(ToSet(more))
  BY DEF ItemsOK, IsSeq
<1>2. /\ Len(items) \in Nat /\ Len(more) \in Nat /\ DOMAIN items = 1 .. Len(items) /\ DOMAIN more = 1 .. Len(more)
      /\ DOMAIN all = 1 .. Len(items) + Len(more)
      /\ \A j \in DOMAIN all : all[j] = IF j <= Len(items) THEN items[j] ELSE more[j - Len(items)]
  BY <1>1
<1>3. all \in Seq(ToSet(all))
  <2>1. all \in Seq(ToSet(items) \cup ToSet(more))
    BY <1>1
  <2> HIDE DEF all
  <2>2. \A j \in 1 .. Len(all) : all[j] \in ToSet(all)
    BY <2>1 DEF ToSet
  <2> QED BY <2>1, <2>2
<1> HIDE DEF all
<1>4. ASSUME NEW j \in DOMAIN all
      PROVE  \/ j \in DOMAIN items /\ all[j] = items[j]
             \/ j > Len(items) /\ j - Len(items) \in DOMAIN more /\ all[j] = more[j - Len(items)]
  BY <1>2
<1>5. ASSUME NEW j \in DOMAIN all PROVE ItemOK(g, all[j])
  BY <1>4 DEF ItemsOK
<1>6. ASSUME NEW j \in DOMAIN all, NEW k \in 1 .. j
      PROVE  Stamp(g, CutEvent(all[k])) <= Stamp(g, CutEvent(all[j]))
  <2>1. k \in DOMAIN all
    BY <1>2
  <2>2. CASE j \in DOMAIN items /\ all[j] = items[j]
    <3>1. k \in DOMAIN items /\ all[k] = items[k]
      BY <1>2, <2>1, <2>2
    <3> QED BY <2>2, <3>1 DEF ItemsOK
  <2>3. CASE j > Len(items) /\ j - Len(items) \in DOMAIN more /\ all[j] = more[j - Len(items)]
    <3>1. CutEvent(all[j]) = c
      BY <2>3
    <3>2. CutEvent(all[k]) \in Events(g) /\ CutEvent(all[k])[2] > 0
      BY <1>5, <2>1, CutOfItem
    <3> QED BY <3>1, <3>2 DEF Youngest
  <2> QED BY <1>4, <2>2, <2>3
<1> QED BY <1>3, <1>5, <1>6 DEF ItemsOK, IsSeq, all

(* Less is claimed if more reads are left out. *)
LEMMA Weaken ==
  ASSUME NEW p, NEW g, NEW X, NEW Y, GraphOK(p, g, X), X \subseteq Y
  PROVE  GraphOK(p, g, Y)
BY DEF GraphOK, PrefixesOK

(* The function of a thread is a function of the program. *)
LEMMA CodeInProgram ==
  ASSUME NEW p, NEW g, NEW X, GraphOK(p, g, X), ProgramOK(p), NEW t \in ThreadIds(g)
  PROVE  /\ g.lab[<<t, 0>>].val + 1 \in DOMAIN p
         /\ t # 0 => g.lab[<<t, 0>>].val # 0
         /\ g.lab[<<t, 0>>].val \in Nat
<1>1. CASE t = 0
  <2>1. g.lab[<<t, 0>>].val = 0
    BY <1>1 DEF GraphOK, Threads, InitEvent
  <2>2. Len(p) >= 1
    BY DEF ProgramOK
  <2> QED BY <1>1, <2>1, <2>2 DEF ProgramOK
<1>2. CASE t # 0
  <2>1. g.lab[<<t, 0>>].val \in 1 .. Len(p) - 1
    BY <1>2 DEF GraphOK, Threads
  <2> QED BY <2>1 DEF ProgramOK
<1> QED BY <1>1, <1>2

(* The thread of an event. *)
LEMMA ThreadOf ==
  ASSUME NEW p, NEW g, NEW X, GraphOK(p, g, X), NEW e \in Events(g)
  PROVE  e[1] \in ThreadIds(g) /\ e[1] \in Nat /\ e[2] \in Nat /\ e = <<e[1], e[2]>> /\ <<e[1], 0>> \in Events(g)
<1>1. e \in Nat \X Nat
  BY DEF GraphOK, Shape
<1>2. e[1] \in 0 .. e[1]
  BY <1>1
<1>3. <<e[1], 0>> \in Events(g)
  BY <1>2 DEF GraphOK, Threads
<1> QED BY <1>1, <1>3 DEF ThreadIds

(* The instruction of a read is a load of the program. *)
LEMMA LoadText ==
  ASSUME NEW p, NEW g, NEW X, GraphOK(p, g, X), ProgramOK(p), NEW r \in Reads(g)
  PROVE  LET f == g.lab[<<r[1], 0>>].val + 1
         IN /\ f \in DOMAIN p /\ g.lab[r].ip \in DOMAIN p[f] /\ g.lab[r].ins = p[f][g.lab[r].ip]
            /\ g.lab[r].ins.op \in LoadOps
<1>1. r \in Events(g) /\ g.lab[r].typ = "R"
  BY DEF Reads, OfType
<1>2. r[1] \in ThreadIds(g)
  BY <1>1, ThreadOf
<1>3. g.lab[<<r[1], 0>>].val + 1 \in DOMAIN p
  BY <1>2, CodeInProgram
<1> QED BY <1>1, <1>3 DEF GraphOK, Texts, CodeOf

(* If all loads are atomic, so are all reads. *)
LEMMA ReadsAreAtomic ==
  ASSUME NEW p, NEW g, NEW X, GraphOK(p, g, X), AtomicLoads(p), ProgramOK(p), NEW r \in Reads(g)
  PROVE  g.lab[r].ins.mo # "na"
<1> DEFINE f == g.lab[<<r[1], 0>>].val + 1
           i == g.lab[r].ip
<1>1. f \in DOMAIN p /\ i \in DOMAIN p[f] /\ g.lab[r].ins = p[f][i] /\ g.lab[r].ins.op \in LoadOps
  BY LoadText
<1> HIDE DEF f, i
<1> QED BY <1>1 DEF AtomicLoads, IsAtomicLoad

(* With in-place revisits a read that fails its assume() has at most a      *)
(* block after it.                                                          *)
LEMMA BlockedRead ==
  ASSUME NEW p, NEW g, NEW X, GraphOK(p, g, X), ProgramOK(p), Ipr, NoDangling(g),
         NEW r \in Reads(g), ReadBlocks(g, r)
  PROVE  /\ g.lab[r].rf # Bottom
         /\ \A e \in Events(g) : e[1] = r[1] /\ e[2] > r[2] => g.lab[e].typ = "B"
<1> DEFINE f == g.lab[<<r[1], 0>>].val + 1
           i == g.lab[r].ip
<1>1. f \in DOMAIN p /\ i \in DOMAIN p[f] /\ g.lab[r].ins = p[f][i]
  BY LoadText
<1>2. g.lab[r].ins.op = "R" /\ g.lab[r].ins.annot # NoAnnot
  BY DEF ReadBlocks, Annotated
<1> HIDE DEF f, i
<1>3. g.lab[r].ins.mo # "na"
  BY <1>1, <1>2 DEF ProgramOK
<1>4. g.lab[r].rf # Bottom
  BY <1>3 DEF NoDangling
<1> QED BY <1>4 DEF GraphOK, Blocked

(* The blocks behind the reads go, then the reads get the new store. *)
InPlace(p, g, k, h, rf, K) ==
    /\ Shrunk(g, k, K) /\ GraphOK(p, k, {}) /\ k.co = g.co /\ \A e \in K : k.lab[e] = g.lab[e]
    /\ \A e \in Events(g) \ K : g.lab[e].typ = "B"
    /\ h = ReadMaximally(k, rf) /\ LastReads(k, rf) /\ GraphOK(p, h, {}) /\ Reread(k, h, rf)

(* revisitInPlace() is made of these steps. *)
LEMMA RevisitInPlaceSteps ==
  ASSUME CheckerOK, NEW p, ProgramOK(p), Ipr, NEW g, GraphOK(p, g, {}), NoDangling(g), NEW s \in Events(g),
         g.lab[s].typ = "W", s \in ToSet(g.co[Loc(g, s)]), NEW reads, reads \subseteq Reads(g),
         \A r \in reads : Loc(g, r) = Loc(g, s) /\ ReadBlocks(g, r)
  PROVE  \E k, K, rf : /\ InPlace(p, g, k, revisitInPlace(g, reads, s), rf, K)
                        /\ DOMAIN rf = reads /\ \A r \in reads : rf[r] = s
<1> DEFINE threads == {r[1] : r \in {q \in reads : po_imm_succ(g, q) # {}}}
           k == removeLast(g, threads)
           rf == [r \in reads |-> s]
           h == revisitInPlace(g, reads, s)
           K == Events(g) \ {<<t, LastIndex(g, t)>> : t \in threads}
<1>1. h = ReadMaximally(k, rf)
  BY DEF revisitInPlace
<1>2. ASSUME NEW r \in reads
      PROVE  /\ r \in Events(g) /\ g.lab[r].typ = "R"
             /\ \A e \in Events(g) : e[1] = r[1] /\ e[2] > r[2] => g.lab[e].typ = "B"
             /\ r[1] \in Nat /\ r[2] \in Nat
             /\ <<r[1], LastIndex(g, r[1])>> \in Events(g) /\ LastIndex(g, r[1]) \in Nat
             /\ IsLast(g, <<r[1], LastIndex(g, r[1])>>)
  <2>1. r \in Events(g) /\ g.lab[r].typ = "R"
    BY DEF Reads, OfType
  <2>2. r[1] \in Nat /\ r[2] \in Nat
    BY <2>1, ThreadOf
  <2>3. \A e \in Events(g) : e[1] = r[1] /\ e[2] > r[2] => g.lab[e].typ = "B"
    BY BlockedRead
  <2> QED BY <2>1, <2>2, <2>3, LastIndexIsLast
<1>3. ASSUME NEW t \in threads PROVE <<t, LastIndex(g, t)>> \in Events(g) /\ g.lab[<<t, LastIndex(g, t)>>].typ = "B"
  <2>1. PICK r \in reads : r[1] = t /\ po_imm_succ(g, r) # {}
    OBVIOUS
  <2> DEFINE b == <<t, LastIndex(g, t)>>
  <2>2. <<t, r[2] + 1>> \in Events(g)
    BY <2>1 DEF po_imm_succ
  <2>3. b \in Events(g) /\ IsLast(g, b) /\ b[1] = t /\ b[2] \in Nat /\ r[2] \in Nat
    BY <1>2, <2>1
  <2> HIDE DEF b
  <2>4. r[2] + 1 <= b[2]
    BY <2>2, <2>3 DEF IsLast
  <2>5. b[2] > r[2]
    BY <2>3, <2>4
  <2>6. \A e \in Events(g) : e[1] = r[1] /\ e[2] > r[2] => g.lab[e].typ = "B"
    BY <1>2
  <2>7. g.lab[b].typ = "B"
    BY <2>1, <2>3, <2>5, <2>6
  <2> QED BY <2>3, <2>7 DEF b
<1>4. /\ Shrunk(g, k, K) /\ GraphOK(p, k, {}) /\ k.co = g.co /\ \A e \in K : k.lab[e] = g.lab[e]
  <2> HIDE DEF threads
  <2> QED BY <1>3, RemoveLastOK
<1>5. \A e \in Events(g) \ K : g.lab[e].typ = "B"
  BY <1>3
<1>6. s \in K /\ \A r \in reads : r \in K
  BY <1>2, <1>5
<1>7. ASSUME NEW r \in reads PROVE IsLast(k, r)
  <2> SUFFICES ASSUME NEW e \in Events(k), e[1] = r[1], ~(e[2] <= r[2]) PROVE FALSE
    BY DEF IsLast
  <2>1. e \in K /\ e \in Events(g)
    BY <1>4 DEF Shrunk
  <2>2. e[1] \in Nat /\ e[2] \in Nat /\ r[2] \in Nat /\ e = <<e[1], e[2]>>
    BY <1>2, <2>1, ThreadOf
  <2>3. e[2] > r[2]
    BY <2>2
  <2>4. g.lab[e].typ = "B"
    BY <1>2, <2>1, <2>3
  <2>5. IsLast(g, e)
    BY <2>1, <2>4 DEF GraphOK, Kinds
  <2>6. e[2] = LastIndex(g, e[1])
    BY <2>1, <2>5, LastIndexIsLast
  <2>7. <<r[1], r[2] + 1>> \in Events(g)
    <3>1. CASE r[2] + 1 = e[2]
      BY <2>1, <2>2, <3>1
    <3>2. CASE r[2] + 1 # e[2]
      <4>1. r[2] + 1 \in 0 .. e[2] - 1
        BY <2>2, <2>3, <3>2
      <4> QED BY <2>1, <4>1 DEF GraphOK, PoOrder
    <3> QED BY <3>1, <3>2
  <2>8. r[1] \in threads
    BY <2>7 DEF po_imm_succ
  <2> QED BY <2>1, <2>2, <2>6, <2>8
<1> HIDE DEF K, k
<1>8. LastReads(k, rf)
  <2>1. \A r \in reads : r \in Reads(k) /\ Loc(k, r) = Loc(g, s)
    BY <1>2, <1>4, <1>6 DEF Shrunk, Reads, OfType, Loc
  <2>2. \A r \in reads : s \in StoresOf(k, r)
    BY <1>4, <2>1 DEF StoresOf
  <2> QED BY <1>7, <2>1, <2>2 DEF LastReads
<1>9. DOMAIN rf = reads /\ \A r \in reads : rf[r] = s
  OBVIOUS
<1> HIDE DEF rf
<1>10. GraphOK(p, h, {}) /\ Reread(k, h, rf)
  <2>1. GraphOK(p, k, DOMAIN rf)
    BY <1>4, Weaken
  <2> QED BY <1>1, <1>8, <2>1, ReadMaximallyOK, ReadMaximallyRereads
<1> HIDE DEF h
<1>11. InPlace(p, g, k, h, rf, K)
  BY <1>1, <1>4, <1>5, <1>8, <1>10 DEF InPlace
<1> HIDE DEF threads
<1> QED BY <1>9, <1>11 DEF h

(* revisitInPlace() keeps the invariant: it removes the block and changes a *)
(* last read.                                                               *)
LEMMA RevisitInPlaceOK ==
  ASSUME CheckerOK, NEW p, ProgramOK(p), Ipr, NEW g, GraphOK(p, g, {}), NoDangling(g), NEW s \in Events(g),
         g.lab[s].typ = "W", s \in ToSet(g.co[Loc(g, s)]), NEW reads, reads \subseteq Reads(g),
         \A r \in reads : Loc(g, r) = Loc(g, s) /\ ReadBlocks(g, r)
  PROVE  LET h == revisitInPlace(g, reads, s)
         IN /\ GraphOK(p, h, {}) /\ NoDangling(h) /\ (Joins(g) => Joins(h))
            /\ Events(h) \subseteq Events(g) /\ \A e \in Events(g) \ Events(h) : g.lab[e].typ = "B"
            /\ Keeps(g, h, Events(h))
<1> DEFINE h == revisitInPlace(g, reads, s)
<1>0. PICK k, K, rf : InPlace(p, g, k, h, rf, K) /\ DOMAIN rf = reads /\ \A r \in reads : rf[r] = s
  BY RevisitInPlaceSteps
<1> HIDE DEF h
<1>4. Shrunk(g, k, K) /\ GraphOK(p, k, {}) /\ k.co = g.co /\ \A e \in K : k.lab[e] = g.lab[e]
  BY <1>0 DEF InPlace
<1>5. \A e \in Events(g) \ K : g.lab[e].typ = "B"
  BY <1>0 DEF InPlace
<1>8. LastReads(k, rf)
  BY <1>0 DEF InPlace
<1>9. DOMAIN rf = reads /\ \A r \in reads : rf[r] = s
  BY <1>0
<1>10. GraphOK(p, h, {}) /\ Reread(k, h, rf)
  BY <1>0 DEF InPlace
<1>11. Events(h) = K /\ K \subseteq Events(g)
  BY <1>4, <1>10 DEF Reread, SameText, Shrunk
<1>12. Keeps(g, h, K)
  <2>1. Keeps(g, k, K)
    BY <1>4, ShrunkKeeps
  <2>2. Keeps(k, h, Events(k))
    BY <1>8, <1>10, RereadKeeps
  <2> QED BY <1>4, <2>1, <2>2, KeepsTrans DEF Shrunk
<1>13. NoDangling(h)
  <2> SUFFICES ASSUME NEW r \in Reads(h), h.lab[r].ins.mo # "na" PROVE h.lab[r].rf # Bottom
    BY DEF NoDangling
  <2>1. r \in K /\ r \in Events(k) /\ r \in Reads(g) /\ g.lab[r].ins.mo # "na"
    BY <1>4, <1>10, <1>11 DEF Reads, OfType, Reread, SameText, Shrunk
  <2>2. CASE r \in reads
    <3>1. r \in DOMAIN rf
      BY <1>9, <2>2
    <3>2. rf[r] # Bottom
      <4>1. r \in Events(k) /\ k.lab[r].typ = "R" /\ rf[r] \in StoresOf(k, r)
        BY <1>8, <3>1 DEF LastReads, Reads, OfType
      <4> QED BY <1>4, <4>1, StoresAre
    <3> QED BY <1>10, <3>1, <3>2 DEF Reread
  <2>3. CASE r \notin reads
    <3>1. h.lab[r].rf = k.lab[r].rf
      BY <1>9, <1>10, <2>1, <2>3 DEF Reread
    <3> QED BY <1>4, <2>1, <3>1 DEF NoDangling
  <2> QED BY <2>2, <2>3
<1>14. Joins(g) => Joins(h)
  BY <1>4, <1>10, ShrunkJoins, SameTextJoins DEF Reread
<1> QED BY <1>5, <1>10, <1>11, <1>12, <1>13, <1>14 DEF h

(* The minimum of a set of naturals. *)
LEMMA MinIn ==
  ASSUME NEW S, S \subseteq Nat, S # {}
  PROVE  Min(S) \in S /\ \A y \in S : Min(S) <= y
BY LeastNat DEF Min

(* Elements of a sequence. *)
LEMMA SeqFacts ==
  ASSUME NEW R, NEW s \in Seq(R)
  PROVE  IsSeq(s) /\ ToSet(s) \subseteq R /\ \A i \in DOMAIN s : s[i] \in ToSet(s)
<1>1. \A i \in DOMAIN s : s[i] \in R /\ s[i] \in ToSet(s)
  BY DEF ToSet
<1>2. s \in Seq(ToSet(s))
  BY <1>1
<1> QED BY <1>1, <1>2 DEF IsSeq, ToSet

(* The reads that a write may revisit. *)
LEMMA RevisitableReads ==
  ASSUME CheckerOK, NEW p, NEW g, NEW X, GraphOK(p, g, X), NEW s \in Events(g), g.lab[s].typ = "W"
  PROVE  LET loads == getRevisitableApproximation(g, s)
         IN /\ loads \in Seq(ToSet(loads))
            /\ \A r \in ToSet(loads) : r \in Reads(g) /\ Loc(g, r) = Loc(g, s) /\ r \notin FullPrefix(g, s)
<1> DEFINE all == getRevisitable(g, s)
           S == FilterCoherentRevisits(g, s, all)
           loads == getRevisitableApproximation(g, s)
<1>1. ASSUME NEW r \in all PROVE r \in Reads(g) /\ Loc(g, r) = Loc(g, s) /\ r \notin FullPrefix(g, s)
  <2>1. r \in Reads(g) /\ Loc(g, r) = Loc(g, s) /\ r \notin g.lab[s].prefix
    BY DEF getRevisitable, readers, getPrefixView
  <2>2. FullPrefix(g, s) = g.lab[s].prefix
    BY DEF GraphOK, PrefixesOK, FullPrefix
  <2> QED BY <2>1, <2>2
<1> HIDE DEF all
<1>2. S \subseteq all
  <2>1. PICK hb : \A x, w, y : FilterCoherentRevisits(x, w, y) = CoherentRevisits(x, w, y, hb, FALSE)
    BY DEF CheckerOK
  <2> QED BY <2>1 DEF CoherentRevisits
<1>3. S \subseteq Events(g)
  BY <1>1, <1>2 DEF Reads, OfType
<1>4. loads = NewestFirst(g, S)
  BY DEF getRevisitableApproximation, all
<1> HIDE DEF S, loads
<1>5. loads \in Seq(S)
  BY <1>3, <1>4, NewestFirstIsSeq DEF GraphOK, Shape
<1>6. IsSeq(loads) /\ ToSet(loads) \subseteq S
  BY <1>5, SeqFacts
<1> QED BY <1>1, <1>2, <1>6 DEF IsSeq, loads

(* What calcRevisits leaves of a graph. *)
Revisited(g, h, s) ==
    /\ Events(h) \subseteq Events(g) /\ \A e \in Events(g) \ Events(h) : g.lab[e].typ = "B"
    /\ Keeps(g, h, Events(h))

(* tryOptimizeIPRs() keeps the invariant, and leaves reads of the location  *)
(* to revisit.                                                              *)
LEMMA OptimizeOK ==
  ASSUME CheckerOK, NEW p, ProgramOK(p), NEW g, GraphOK(p, g, {}), Ipr => NoDangling(g), NEW s \in Events(g),
         g.lab[s].typ = "W", s \in ToSet(g.co[Loc(g, s)]), NEW loads, loads \in Seq(ToSet(loads)),
         \A r \in ToSet(loads) : r \in Reads(g) /\ Loc(g, r) = Loc(g, s)
  PROVE  LET o == tryOptimizeIPRs(g, s, loads)
         IN /\ DOMAIN o = {"graph", "loads"}
            /\ GraphOK(p, o.graph, {}) /\ Revisited(g, o.graph, s)
            /\ NoDangling(g) => NoDangling(o.graph)
            /\ Joins(g) => Joins(o.graph)
            /\ o.loads \in Seq(ToSet(o.loads)) /\ ToSet(o.loads) \subseteq ToSet(loads)
<1> DEFINE o == tryOptimizeIPRs(g, s, loads)
           blocked == {r \in ToSet(loads) : ReadBlocks(g, r)}
           h == revisitInPlace(g, blocked, s)
<1>1. CASE ~Ipr
  <2>1. o = [graph |-> g, loads |-> loads]
    BY <1>1 DEF tryOptimizeIPRs
  <2>2. Keeps(g, g, Events(g))
    BY DEF Keeps
  <2> QED BY <2>1, <2>2 DEF Revisited
<1>2. CASE Ipr
  <2> DEFINE rest == Kept(loads, ToSet(loads) \ blocked)
             last == filterConflictingIPRs(h, s, rest)
  <2>1. o = [graph |-> h, loads |-> last]
    BY <1>2 DEF tryOptimizeIPRs, WithIPRs
  <2>2. blocked \subseteq Reads(g) /\ \A r \in blocked : Loc(g, r) = Loc(g, s) /\ ReadBlocks(g, r)
    OBVIOUS
  <2> HIDE DEF blocked
  <2>3. /\ GraphOK(p, h, {}) /\ NoDangling(h) /\ (Joins(g) => Joins(h))
        /\ Events(h) \subseteq Events(g) /\ \A e \in Events(g) \ Events(h) : g.lab[e].typ = "B"
        /\ Keeps(g, h, Events(h))
    BY <1>2, <2>2, RevisitInPlaceOK
  <2> HIDE DEF h
  <2>4. IsSeq(rest) /\ ToSet(rest) \subseteq ToSet(loads)
    <3>1. rest \in Seq(ToSet(loads) \cap (ToSet(loads) \ blocked))
      BY KeptProperties
    <3> HIDE DEF rest
    <3> QED BY <3>1, SeqFacts
  <2> HIDE DEF rest
  <2>5. IsSeq(last) /\ ToSet(last) \subseteq ToSet(rest)
    <3> DEFINE T == {r \in ToSet(rest) : ~isConflictingIPR(h, s, r)}
    <3>1. last = Kept(rest, T)
      BY DEF filterConflictingIPRs
    <3> HIDE DEF T, last
    <3>2. last \in Seq(ToSet(rest) \cap T)
      BY <2>4, <3>1, KeptProperties DEF IsSeq
    <3> QED BY <3>2, SeqFacts
  <2> HIDE DEF last
  <2> QED BY <2>1, <2>3, <2>4, <2>5 DEF Revisited, IsSeq
<1> QED BY <1>1, <1>2

(* calcRevisits() keeps the invariant of an execution: the revisits cut at  *)
(* the write that was added last.                                           *)
LEMMA CalcRevisitsOK ==
  ASSUME CheckerOK, NEW p, ProgramOK(p), NEW x, ExecOK(p, x), Ipr => NoDangling(x.graph), NEW s \in Events(x.graph),
         x.graph.lab[s].typ = "W", s \in ToSet(x.graph.co[Loc(x.graph, s)]), Youngest(x.graph, s)
  PROVE  LET y == calcRevisits(x, s)
         IN /\ ExecOK(p, y) /\ Revisited(x.graph, y.graph, s)
            /\ NoDangling(x.graph) => NoDangling(y.graph)
<1> DEFINE g == x.graph
           loads == getRevisitableApproximation(g, s)
           o == tryOptimizeIPRs(g, s, loads)
           h == o.graph
           bad == {i \in DOMAIN o.loads : ~isMaximalExtension(h, o.loads[i], s)}
           n == Min(bad \cup {Len(o.loads) + 1}) - 1
           more == [i \in 1 .. n |-> Item("BR", o.loads[i], s)]
           y == calcRevisits(x, s)
<1>1. y = [graph |-> h, workqueue |-> x.workqueue \o more]
  BY DEF calcRevisits, pushRevisits
<1>2. GraphOK(p, g, {}) /\ Joins(g) /\ ItemsOK(g, x.workqueue)
  BY DEF ExecOK
<1>3. /\ loads \in Seq(ToSet(loads))
      /\ \A r \in ToSet(loads) : r \in Reads(g) /\ Loc(g, r) = Loc(g, s) /\ r \notin FullPrefix(g, s)
  BY <1>2, RevisitableReads
<1> HIDE DEF loads
<1>4. /\ DOMAIN o = {"graph", "loads"}
      /\ GraphOK(p, h, {}) /\ Revisited(g, h, s)
      /\ NoDangling(g) => NoDangling(h)
      /\ Joins(h)
      /\ o.loads \in Seq(ToSet(o.loads)) /\ ToSet(o.loads) \subseteq ToSet(loads)
  BY <1>2, <1>3, OptimizeOK
<1> HIDE DEF o
<1>5. n \in Nat /\ n <= Len(o.loads) /\ Len(o.loads) \in Nat /\ DOMAIN o.loads = 1 .. Len(o.loads)
  <2>1. Len(o.loads) \in Nat /\ DOMAIN o.loads = 1 .. Len(o.loads)
    BY <1>4
  <2> DEFINE S == bad \cup {Len(o.loads) + 1}
  <2>2. S \subseteq Nat /\ S # {} /\ \A i \in S : i >= 1
    BY <2>1
  <2>3. Len(o.loads) + 1 \in S
    OBVIOUS
  <2> HIDE DEF S
  <2>4. Min(S) \in S /\ Min(S) <= Len(o.loads) + 1
    BY <2>2, <2>3, MinIn
  <2> QED BY <2>1, <2>2, <2>4 DEF S
<1> HIDE DEF n
<1>6. /\ s \in Events(h) /\ h.lab[s].typ = "W" /\ Loc(h, s) = Loc(g, s) /\ FullPrefix(h, s) = FullPrefix(g, s)
      /\ s \in ToSet(h.co[Loc(g, s)])
  <2>1. s \in Events(h)
    BY <1>4 DEF Revisited
  <2>2. Loc(g, s) \in Locs
    BY <1>2 DEF GraphOK, Texts, Loc
  <2> QED BY <1>4, <2>1, <2>2 DEF Revisited, Keeps, Loc
<1>7. Youngest(h, s)
  <2>1. \A e \in Events(h) : e \in Events(g)
    BY <1>4 DEF Revisited
  <2> QED BY <1>4, <1>6, <2>1 DEF Revisited, Keeps, Youngest
<1>8. ItemsOK(h, x.workqueue)
  <2> DEFINE B == Events(g) \ Events(h)
  <2>1. \A e \in B : g.lab[e].typ = "B"
    BY <1>4 DEF Revisited
  <2>2. Events(g) \ B = Events(h)
    BY <1>4 DEF Revisited
  <2> HIDE DEF B
  <2>3. ItemsIn(x.workqueue, Events(h))
    BY <1>2, <2>1, <2>2, ItemsNotBlocks
  <2> QED BY <1>2, <1>4, <2>3, KeptItems DEF Revisited
<1>9. ASSUME NEW i \in DOMAIN more PROVE ItemOK(h, more[i]) /\ CutEvent(more[i]) = s
  <2> DEFINE r == o.loads[i]
             item == more[i]
  <2>1. i \in DOMAIN o.loads
    BY <1>5
  <2>2. r \in ToSet(loads)
    BY <1>4, <2>1, SeqFacts
  <2>3. r \in Events(g) /\ g.lab[r].typ = "R" /\ Loc(g, r) = Loc(g, s) /\ r \notin FullPrefix(g, s)
    BY <1>3, <2>2 DEF Reads, OfType
  <2>4. r \in Events(h)
    BY <1>4, <2>3 DEF Revisited
  <2>5. h.lab[r].typ = "R" /\ Loc(h, r) = Loc(g, s) /\ r \notin FullPrefix(h, s)
    BY <1>4, <1>6, <2>3, <2>4 DEF Revisited, Keeps, Loc
  <2>6. r[2] > 0 /\ s[2] > 0
    <3>1. r[2] # 0 /\ s[2] # 0
      BY <1>4, <1>6, <2>4, <2>5 DEF GraphOK, Kinds
    <3>2. r[2] \in Nat /\ s[2] \in Nat
      BY <1>4, <1>6, <2>4, ThreadOf
    <3> QED BY <3>1, <3>2
  <2>7. Stamp(h, r) <= Stamp(h, s) /\ Stamp(h, s) <= Stamp(h, s)
    BY <1>6, <1>7, <2>4, <2>6 DEF Youngest
  <2> HIDE DEF r
  <2>8. item = Item("BR", r, s)
    BY DEF r
  <2>9. item.kind = "BR" /\ item.pos = r /\ item.rev = s
    BY <2>8 DEF Item
  <2> HIDE DEF item
  <2>10. CutEvent(item) = s
    BY <2>9 DEF CutEvent
  <2>11. ItemOK(h, item)
    BY <1>6, <2>4, <2>5, <2>6, <2>7, <2>9, <2>10 DEF ItemOK, ItemKinds
  <2> QED BY <2>10, <2>11 DEF item
<1>10. IsSeq(more)
  <2> DEFINE R == {Item("BR", o.loads[i], s) : i \in 1 .. n}
  <2>1. \A i \in 1 .. n : Item("BR", o.loads[i], s) \in R
    OBVIOUS
  <2> HIDE DEF R
  <2>2. more \in Seq(R)
    BY <1>5, <2>1
  <2> HIDE DEF more
  <2> QED BY <2>2, SeqFacts
<1> HIDE DEF more
<1>11. ItemsOK(h, x.workqueue \o more)
  BY <1>4, <1>7, <1>8, <1>9, <1>10, PushItems
<1> HIDE DEF h
<1> QED BY <1>1, <1>4, <1>11 DEF ExecOK

(* The top execution x cut to an event, without its last item. *)
CutAt(x, event) == [graph |-> repairDanglingReads(cutToStamp(x.graph, Stamp(x.graph, event))),
                    workqueue |-> Front(x.workqueue)]

(* Taking the last item. *)
LEMMA FrontItems ==
  ASSUME NEW g, NEW items, ItemsOK(g, items), items # <<>>
  PROVE  ItemsOK(g, Front(items)) /\ Last(items) = items[Len(items)] /\ Len(items) \in DOMAIN items
         /\ \A j \in DOMAIN Front(items) : j \in DOMAIN items /\ Front(items)[j] = items[j]
<1> DEFINE n == Len(items)
           f == Front(items)
<1>1. items \in Seq(ToSet(items)) /\ n \in Nat /\ n # 0 /\ DOMAIN items = 1 .. n
  BY DEF ItemsOK, IsSeq
<1>2. f = SubSeq(items, 1, n - 1)
  BY DEF Front
<1>3. f \in Seq(ToSet(items)) /\ DOMAIN f = 1 .. n - 1 /\ \A j \in 1 .. n - 1 : f[j] = items[j]
  BY <1>1, <1>2
<1> HIDE DEF f
<1>4. IsSeq(f)
  BY <1>3, SeqFacts
<1>5. \A j \in DOMAIN f : j \in DOMAIN items /\ f[j] = items[j] /\ \A k \in 1 .. j : k \in DOMAIN f
  BY <1>1, <1>3
<1>6. \A j \in DOMAIN f : ItemOK(g, f[j])
  BY <1>5 DEF ItemsOK
<1>7. ASSUME NEW j \in DOMAIN f, NEW k \in 1 .. j PROVE Stamp(g, CutEvent(f[k])) <= Stamp(g, CutEvent(f[j]))
  <2>1. f[k] = items[k] /\ f[j] = items[j] /\ j \in DOMAIN items
    BY <1>5
  <2> QED BY <2>1 DEF ItemsOK
<1>8. ItemsOK(g, f)
  BY <1>4, <1>6, <1>7 DEF ItemsOK
<1>9. Last(items) = items[n] /\ n \in DOMAIN items
  BY <1>1 DEF Last
<1> QED BY <1>5, <1>8, <1>9 DEF f

(* Nothing after an event is older. *)
LEMMA StampNext ==
  ASSUME NEW p, NEW g, NEW X, GraphOK(p, g, X), NEW e \in Events(g)
  PROVE  NextOf(e) \notin getViewFromStamp(g, Stamp(g, e))
<1> DEFINE f == NextOf(e)
<1> SUFFICES ASSUME f \in Events(g), Stamp(g, f) <= Stamp(g, e) PROVE FALSE
  BY DEF getViewFromStamp
<1>1. e[1] \in Nat /\ e[2] \in Nat /\ e = <<e[1], e[2]>>
  BY ThreadOf
<1>2. f[1] = e[1] /\ e[2] \in 0 .. f[2] - 1
  BY <1>1 DEF NextOf
<1>3. Stamp(g, e) < Stamp(g, f)
  BY <1>1, <1>2 DEF GraphOK, PoOrder
<1> HIDE DEF f
<1>4. Stamp(g, e) \in Nat /\ Stamp(g, f) \in Nat
  BY StampFacts
<1> QED BY <1>3, <1>4

(* Cutting a graph to a view and repairing it. *)
LEMMA ShrinkAndRepair ==
  ASSUME CheckerOK, NEW p, NEW g, NEW k, NEW v, GraphOK(p, g, {}), ViewOK(g, v), PrefixView(g, v),
         Shrunk(g, k, KeptEvents(g, v))
  PROVE  LET h == repairDanglingReads(k)
         IN /\ GraphOK(p, h, {}) /\ (Joins(g) => Joins(h))
            /\ Events(h) = KeptEvents(g, v) /\ Keeps(g, h, Events(h))
            /\ Lossless(g, v) /\ NoDangling(g) => NoDangling(h)
            /\ \A e \in v : NextOf(e) \notin v => e \in Events(h) /\ IsLast(h, e)
<1> DEFINE h == repairDanglingReads(k)
           K == KeptEvents(g, v)
<1>1. GraphOK(p, k, LostReads(k))
  BY ShrunkToView
<1>2. /\ GraphOK(p, h, {})
      /\ \E rf : Reread(k, h, rf) /\ DOMAIN rf = LostReads(k) /\ LastReads(k, rf)
      /\ (\A r \in Reads(k) : k.lab[r].ins.mo # "na" => k.lab[r].rf # Bottom \/ IsLast(k, r)) => NoDangling(h)
  BY <1>1, RepairOK
<1>3. PICK rf : Reread(k, h, rf) /\ LastReads(k, rf)
  BY <1>2
<1>4. \A e \in v : NextOf(e) \notin v => e \in Events(k) /\ IsLast(k, e)
  BY LastInView
<1>5. \A e \in K : e \in Events(g) /\ (e[2] > 0 <=> e \in v)
  BY ViewClosed DEF KeptEvents
<1>6. v \subseteq K /\ InitEvent \in K
  BY ViewClosed DEF KeptEvents, Closed
<1> HIDE DEF h, K
<1>7. Events(k) = K /\ Events(h) = K /\ SameText(k, h)
  BY <1>3 DEF Shrunk, Reread, SameText, K
<1>8. Keeps(g, h, K)
  <2>1. Keeps(g, k, K)
    BY ShrunkKeeps DEF K
  <2>2. Keeps(k, h, Events(k))
    BY <1>3, RereadKeeps
  <2> QED BY <1>7, <2>1, <2>2, KeepsTrans
<1>9. Joins(g) => Joins(h)
  BY <1>7, ShrunkJoins, SameTextJoins
<1>10. ASSUME Lossless(g, v), NoDangling(g) PROVE NoDangling(h)
  <2> SUFFICES ASSUME NEW r \in Reads(k), k.lab[r].ins.mo # "na", k.lab[r].rf = Bottom PROVE IsLast(k, r)
    BY <1>2
  <2> DEFINE w == g.lab[r].rf
  <2>1. r \in K /\ r \in Events(g) /\ g.lab[r].typ = "R" /\ g.lab[r].ins.mo # "na" /\ r \in Reads(g)
    BY <1>5, <1>7 DEF Shrunk, Reads, OfType, K
  <2>2. w # Bottom
    BY <1>10, <2>1 DEF NoDangling
  <2>3. w \notin K
    BY <2>1, <2>2 DEF Shrunk, K
  <2>4. w \notin v /\ w # InitEvent
    BY <1>6, <2>3
  <2>5. r[2] > 0
    <3>1. r[2] # 0
      BY <2>1 DEF GraphOK, Kinds
    <3>2. r[2] \in Nat
      BY <2>1, ThreadOf
    <3> QED BY <3>1, <3>2
  <2>6. r \in v
    BY <1>5, <2>1, <2>5
  <2>7. NextOf(r) \notin v
    BY <1>10, <2>1, <2>2, <2>4, <2>6 DEF Lossless
  <2> QED BY <1>4, <2>6, <2>7
<1>11. \A e \in v : NextOf(e) \notin v => e \in Events(h) /\ IsLast(h, e)
  BY <1>4, <1>7 DEF IsLast
<1> QED BY <1>2, <1>7, <1>8, <1>9, <1>10, <1>11 DEF h, K

(* Taking an item and cutting at its event keeps the invariant: the older   *)
(* items refer to what is kept, and so does the item, whose event is now    *)
(* the youngest.                                                            *)
LEMMA CutAtOK ==
  ASSUME CheckerOK, NEW p, NEW x, ExecOK(p, x), x.workqueue # <<>>
  PROVE  LET item == Last(x.workqueue)
             y == CutAt(x, CutEvent(item))
         IN /\ ExecOK(p, y) /\ ItemOK(y.graph, item)
            /\ NoDangling(x.graph) => NoDangling(y.graph)
            /\ Youngest(y.graph, CutEvent(item)) /\ IsLast(y.graph, CutEvent(item))
<1> DEFINE g == x.graph
           item == Last(x.workqueue)
           c == CutEvent(item)
           n == Stamp(g, c)
           v == getViewFromStamp(g, n)
           k == cutToStamp(g, n)
           h == repairDanglingReads(k)
           y == CutAt(x, c)
<1>1. GraphOK(p, g, {}) /\ Joins(g) /\ ItemsOK(g, x.workqueue)
  BY DEF ExecOK
<1>2. /\ ItemsOK(g, Front(x.workqueue)) /\ item = x.workqueue[Len(x.workqueue)]
      /\ Len(x.workqueue) \in DOMAIN x.workqueue
      /\ \A j \in DOMAIN Front(x.workqueue) : j \in DOMAIN x.workqueue /\ Front(x.workqueue)[j] = x.workqueue[j]
  BY <1>1, FrontItems
<1>3. ItemOK(g, item)
  BY <1>1, <1>2 DEF ItemsOK
<1>4. c \in Events(g) /\ c[2] > 0
  BY <1>1, <1>3, CutOfItem
<1>5. y = [graph |-> h, workqueue |-> Front(x.workqueue)]
  BY DEF CutAt
<1> HIDE DEF c
<1>6. \A e \in Events(g) : Stamp(g, e) \in Nat
  BY <1>1, StampFacts
<1>7. n \in Nat
  BY <1>4, <1>6
<1>8. \A e : e \in v <=> e \in Events(g) /\ e[2] > 0 /\ Stamp(g, e) <= n
  BY DEF getViewFromStamp
<1>9. c \in v /\ NextOf(c) \notin v
  <2>1. n <= n
    BY <1>7
  <2>2. NextOf(c) \notin v
    BY <1>1, <1>4, StampNext
  <2> QED BY <1>4, <1>8, <2>1, <2>2
<1> HIDE DEF n
<1>10. ViewOK(g, v) /\ PrefixView(g, v) /\ Lossless(g, v)
  BY <1>1, <1>7, StampView
<1>11. Shrunk(g, k, KeptEvents(g, v))
  BY <1>1, <1>10, CutShrinks
<1> HIDE DEF v, k
<1>12. /\ GraphOK(p, h, {}) /\ Joins(h)
       /\ Events(h) = KeptEvents(g, v) /\ Keeps(g, h, Events(h))
       /\ NoDangling(g) => NoDangling(h)
       /\ \A e \in v : NextOf(e) \notin v => e \in Events(h) /\ IsLast(h, e)
  BY <1>1, <1>10, <1>11, ShrinkAndRepair
<1>13. v \subseteq Events(h) /\ InitEvent \in Events(h) /\ \A e \in Events(h) : e \in Events(g) /\ (e[2] > 0 <=> e \in v)
  BY <1>1, <1>10, <1>12, ViewClosed DEF KeptEvents, Closed
<1> HIDE DEF h
<1>14. ASSUME NEW j \in DOMAIN x.workqueue PROVE x.workqueue[j].pos \in Events(h) /\ x.workqueue[j].rev \in Events(h)
  <2> DEFINE it == x.workqueue[j]
             d == CutEvent(it)
  <2>1. ItemOK(g, it)
    BY <1>1 DEF ItemsOK
  <2>2. Stamp(g, d) <= n
    <3>1. j \in 1 .. Len(x.workqueue)
      BY <1>1 DEF ItemsOK, IsSeq
    <3> QED BY <1>1, <1>2, <3>1 DEF ItemsOK, n, c
  <2>3. d \in Events(g)
    BY <1>1, <2>1, CutOfItem
  <2> HIDE DEF d
  <2>4. ASSUME NEW e, e \in Events(g), e[2] > 0, Stamp(g, e) <= Stamp(g, d) PROVE e \in Events(h)
    <3>1. Stamp(g, e) <= n
      BY <1>6, <1>7, <2>2, <2>3, <2>4
    <3> QED BY <1>8, <1>13, <2>4, <3>1
  <2>5. it.pos \in Events(g) /\ it.pos[2] > 0 /\ Stamp(g, it.pos) <= Stamp(g, d)
    BY <2>1 DEF ItemOK, d
  <2>6. it.rev = InitEvent \/ (it.rev \in Events(g) /\ it.rev[2] > 0 /\ Stamp(g, it.rev) <= Stamp(g, d))
    BY <2>1 DEF ItemOK, d
  <2> QED BY <1>13, <2>4, <2>5, <2>6
<1>15. ItemOK(h, item)
  BY <1>1, <1>2, <1>3, <1>12, <1>14, KeptItem
<1>16. ItemsOK(h, Front(x.workqueue))
  <2>1. ItemsIn(Front(x.workqueue), Events(h))
    BY <1>2, <1>14 DEF ItemsIn
  <2> QED BY <1>1, <1>2, <1>12, <2>1, KeptItems
<1>17. Youngest(h, c)
  <2>1. c \in Events(h)
    BY <1>9, <1>13
  <2>2. ASSUME NEW e \in Events(h), e[2] > 0 PROVE Stamp(h, e) <= Stamp(h, c)
    <3>1. Stamp(g, e) <= Stamp(g, c)
      BY <1>8, <1>13, <2>2 DEF n
    <3> QED BY <1>12, <2>1, <3>1 DEF Keeps
  <2> QED BY <2>1, <2>2 DEF Youngest
<1>18. IsLast(h, c)
  BY <1>9, <1>12
<1> QED BY <1>5, <1>12, <1>15, <1>16, <1>17, <1>18 DEF ExecOK, c

(* e was added last. *)
IsNewest(g, e) == e \in Events(g) /\ \A d \in Events(g) : Stamp(g, d) <= Stamp(g, e)

(* h is g with a label added, whatever its views. *)
Appended(g, h, l) ==
    /\ l.pos \notin Events(g) /\ Events(h) = Events(g) \cup {l.pos}
    /\ h.co = g.co
    /\ \A e \in Events(g) : h.lab[e] = g.lab[e]
    /\ h.lab[l.pos].typ = l.typ /\ h.lab[l.pos].ip = l.ip /\ h.lab[l.pos].ins = l.ins
    /\ h.lab[l.pos].val = l.val /\ h.lab[l.pos].rf = l.rf
    /\ IsNewest(h, l.pos)
    /\ Keeps(g, h, Events(g))

(* Adding a label appends it. *)
LEMMA AddedAppends ==
  ASSUME NEW p, NEW g, NEW h, NEW l, NEW m, GraphOK(p, g, {}), GraphOK(p, h, {}), Added(g, h, m),
         m.pos = l.pos, m.typ = l.typ, m.ip = l.ip, m.ins = l.ins, m.val = l.val, m.rf = l.rf
  PROVE  Appended(g, h, l)
<1>1. \A e \in Events(h) : Stamp(h, e) <= Stamp(h, m.pos)
  BY AddedNewest DEF GraphOK
<1>2. Keeps(g, h, Events(g))
  BY AddedKeeps
<1>3. IsNewest(h, l.pos)
  BY <1>1 DEF IsNewest, Added
<1> QED BY <1>2, <1>3 DEF Added, Appended

(* addLabelToGraph() appends a label and keeps the invariant. *)
LEMMA LabelAppends ==
  ASSUME CheckerOK, NEW p, NEW g, NEW l, GraphOK(p, g, {}), LabelOK(p, g, l), l.pos \notin Events(g),
         Extends(p, g, l) \/ Starts(p, g, l), l.typ # "B"
  PROVE  GraphOK(p, addLabelToGraph(g, l), {}) /\ Appended(g, addLabelToGraph(g, l), l)
<1> DEFINE h == addLabelToGraph(g, l)
           m == [l EXCEPT !.views = CalculateViews(add(g, l), l.pos),
                          !.prefix = CalculatePrefixView(add(g, l), l.pos)]
<1>1. GraphOK(p, h, {}) /\ Added(g, h, m)
  BY AddLabelOK
<1>2. m.pos = l.pos /\ m.typ = l.typ /\ m.ip = l.ip /\ m.ins = l.ins /\ m.val = l.val /\ m.rf = l.rf
  BY LabelFieldsAre DEF LabelOK
<1> HIDE DEF h, m
<1>3. Appended(g, h, l)
  BY <1>1, <1>2, AddedAppends
<1> QED BY <1>1, <1>3 DEF h

(* So does blockThread(). *)
LEMMA BlockAppends ==
  ASSUME NEW p, NEW g, NEW l, GraphOK(p, g, {}), LabelOK(p, g, l), l.pos \notin Events(g),
         Extends(p, g, l), l.typ = "B"
  PROVE  GraphOK(p, add(g, l), {}) /\ Appended(g, add(g, l), l)
<1>1. GraphOK(p, add(g, l), {}) /\ Added(g, add(g, l), l)
  BY AddBlockOK
<1> QED BY <1>1, AddedAppends

(* So do the probes of handleMalloc() and handleFree(). *)
LEMMA ProbeAppends ==
  ASSUME NEW p, NEW g, NEW l, NEW b, GraphOK(p, g, {}), LabelOK(p, g, l), l.pos \notin Events(g),
         Extends(p, g, l), l.typ \in {"M", "D", "RET"}, b = <<l.pos[1], l.pos[2] - 1>>
  PROVE  GraphOK(p, add(g, Probe(g.lab[b], l)), {}) /\ Appended(g, add(g, Probe(g.lab[b], l)), l)
<1> DEFINE m == Probe(g.lab[b], l)
           h == add(g, m)
<1>1. GraphOK(p, h, {}) /\ Added(g, h, m)
  BY AddProbeOK
<1>2. m.pos = l.pos /\ m.typ = l.typ /\ m.ip = l.ip /\ m.ins = l.ins /\ m.val = l.val /\ m.rf = l.rf
  BY LabelFieldsAre DEF LabelOK, Probe
<1> HIDE DEF h, m
<1>3. Appended(g, h, l)
  BY <1>1, <1>2, AddedAppends
<1> QED BY <1>1, <1>3 DEF h, m

(* The items of an execution do not change when a label is added. A join or *)
(* a finish may end a wait, a read has no store yet.                        *)
LEMMA AppendedExec ==
  ASSUME NEW p, NEW x, NEW h, NEW l, ExecOK(p, x), GraphOK(p, h, {}), Appended(x.graph, h, l)
  PROVE  /\ ItemsOK(h, x.workqueue)
         /\ l.typ # "TF" /\ (l.typ = "B" => l.ins.op # "JOIN") => Joins(h)
         /\ l.typ # "R" /\ NoDangling(x.graph) => NoDangling(h)
<1> DEFINE g == x.graph
<1>1. GraphOK(p, g, {}) /\ Joins(g) /\ ItemsOK(g, x.workqueue)
  BY DEF ExecOK
<1>2. ItemsOK(h, x.workqueue)
  BY <1>1, KeptAll DEF Appended
<1>3. l.typ # "TF" /\ (l.typ = "B" => l.ins.op # "JOIN") => Joins(h)
  BY <1>1 DEF Joins, Appended
<1>4. l.typ # "R" /\ NoDangling(g) => NoDangling(h)
  BY DEF NoDangling, Appended, Reads, OfType
<1> QED BY <1>2, <1>3, <1>4

(* What was added to a thread is its last event. *)
LEMMA AppendedLast ==
  ASSUME NEW p, NEW g, NEW h, NEW l, Extends(p, g, l), Appended(g, h, l), GraphOK(p, g, {})
  PROVE  IsLast(h, l.pos) /\ l.pos[2] > 0
<1> DEFINE b == <<l.pos[1], l.pos[2] - 1>>
<1>1. l.pos[1] \in Nat /\ l.pos[2] \in Nat \ {0} /\ b \in Events(g) /\ IsLast(g, b)
  BY DEF Extends
<1>2. ASSUME NEW d \in Events(h), d[1] = l.pos[1] PROVE d[2] <= l.pos[2]
  <2>1. CASE d = l.pos
    BY <1>1, <2>1
  <2>2. CASE d \in Events(g)
    <3>1. d[2] <= l.pos[2] - 1
      BY <1>1, <1>2, <2>2 DEF IsLast
    <3>2. d[2] \in Nat
      BY <2>2, ThreadOf
    <3> QED BY <1>1, <3>1, <3>2
  <2> QED BY <2>1, <2>2 DEF Appended
<1> QED BY <1>1, <1>2 DEF IsLast

(* What was added last is younger than everything that can be cut. *)
LEMMA NewestYoungest ==
  ASSUME NEW g, NEW e, IsNewest(g, e)
  PROVE  Youngest(g, e)
BY DEF IsNewest, Youngest

(* The write that completes an RMW can be added after its read. *)
LEMMA WriteAfterRead ==
  ASSUME NEW p, NEW g, NEW r \in Events(g), GraphOK(p, g, {}), g.lab[r].typ = "R", IsLast(g, r),
         g.lab[r].ins.op # "R"
  PROVE  LET l == RMWWriteLabel(g, r)
         IN /\ LabelOK(p, g, l) /\ Extends(p, g, l) /\ l.pos \notin Events(g) /\ l.typ = "W"
            /\ l.pos = <<r[1], r[2] + 1>> /\ l.ins = g.lab[r].ins /\ l.val = l.val
<1> DEFINE l == RMWWriteLabel(g, r)
           q == <<r[1], r[2] + 1>>
<1>1. /\ DOMAIN l = LabelFields
      /\ l.pos = q /\ l.typ = "W" /\ l.ip = g.lab[r].ip /\ l.ins = g.lab[r].ins /\ l.rf = Bottom
  BY LabelFieldsAre DEF RMWWriteLabel, NewLabel
<1> HIDE DEF l
<1>2. r[1] \in Nat /\ r[2] \in Nat /\ r = <<r[1], r[2]>>
  BY ThreadOf
<1>3. q \notin Events(g)
  <2>1. q \in Events(g) => r[2] + 1 <= r[2]
    BY DEF IsLast
  <2> QED BY <1>2, <2>1
<1>4. <<q[1], q[2] - 1>> = r /\ q = <<q[1], q[2]>> /\ q[1] = r[1] /\ q[2] \in Nat \ {0}
  BY <1>2
<1>5. LabelOK(p, g, l)
  BY <1>1 DEF LabelOK, GraphOK, Texts
<1>6. ~ReadBlocks(g, r)
  BY DEF ReadBlocks
<1>7. Extends(p, g, l)
  <2> HIDE DEF q
  <2> QED BY <1>1, <1>2, <1>4, <1>6 DEF Extends, EventTypes
<1> QED BY <1>1, <1>3, <1>5, <1>7 DEF l

(* h is the graph of x, with r reading from w. *)
StoreRead(p, x, h, r, w) ==
    /\ GraphOK(p, h, {}) /\ Joins(h) /\ ItemsOK(h, x.workqueue)
    /\ SameText(x.graph, h) /\ h.co = x.graph.co
    /\ h.lab[r].rf = w /\ w # Bottom
    /\ \A e \in Events(x.graph) \ {r} : h.lab[e].rf = x.graph.lab[e].rf

(* A load that is the last event of its thread reads a store. *)
LEMMA ReadStoreOK ==
  ASSUME CheckerOK, NEW p, NEW x, ExecOK(p, x), NEW r \in Events(x.graph),
         x.graph.lab[r].typ = "R", IsLast(x.graph, r), NEW w, w \in StoresOf(x.graph, r)
  PROVE  StoreRead(p, x, updateLabelViews(setRf(x.graph, r, w), r), r, w)
<1> DEFINE g == x.graph
           rf == [e \in {r} |-> w]
           h == updateLabelViews(setRf(g, r, w), r)
<1>1. GraphOK(p, g, {}) /\ Joins(g) /\ ItemsOK(g, x.workqueue)
  BY DEF ExecOK
<1>2. LastReads(g, rf) /\ DOMAIN rf = {r} /\ rf[r] = w
  BY DEF LastReads, Reads, OfType
<1> HIDE DEF rf
<1>3. Reread(g, h, rf)
  BY <1>1, <1>2, ReadFromRereads
<1>4. GraphOK(p, h, {})
  <2>1. GraphOK(p, g, DOMAIN rf)
    BY <1>1, Weaken
  <2> QED BY <1>2, <1>3, <2>1, RereadOK
<1> HIDE DEF h
<1>5. Joins(h) /\ ItemsOK(h, x.workqueue) /\ SameText(g, h) /\ h.co = g.co
  <2>1. SameText(g, h) /\ h.co = g.co
    BY <1>3 DEF Reread
  <2>2. Keeps(g, h, Events(g))
    BY <1>2, <1>3, RereadKeeps
  <2> QED BY <1>1, <2>1, <2>2, SameTextJoins, KeptAll
<1>6. w # Bottom
  BY <1>1, StoresAre
<1>7. h.lab[r].rf = w /\ \A e \in Events(g) \ {r} : h.lab[e].rf = g.lab[e].rf
  BY <1>2, <1>3 DEF Reread
<1>8. StoreRead(p, x, h, r, w)
  BY <1>4, <1>5, <1>6, <1>7 DEF StoreRead
<1> QED BY <1>8 DEF h

(* What revisitRead() does: the read gets the store; if that makes its RMW  *)
(* succeed the RMW's write is added (k) and put after the store (m).        *)
ReadCompletes(p, h, r, w, l, k, m) ==
    /\ l = RMWWriteLabel(h, r) /\ l.pos = NextOf(r) /\ l.typ = "W" /\ l.ins = h.lab[r].ins /\ l.pos \notin Events(h)
    /\ LabelOK(p, h, l) /\ Extends(p, h, l)
    /\ k = addLabelToGraph(h, l) /\ GraphOK(p, k, {}) /\ Appended(h, k, l)
    /\ l.pos \notin ToSet(k.co[Loc(k, l.pos)]) /\ w \in StoresOf(k, l.pos)
    /\ m = addCo(k, l.pos, w) /\ GraphOK(p, m, {}) /\ CoGrows(k, m) /\ m.lab = k.lab
    /\ l.pos \in Events(m) /\ m.lab[l.pos].typ = "W" /\ l.pos \in ToSet(m.co[Loc(m, l.pos)])
    /\ Youngest(m, l.pos)
RevisitCompletes(p, x, h, r, w, rv) ==
    \E l, k, m, y :
        /\ ReadCompletes(p, h, r, w, l, k, m)
        /\ y.graph = m /\ y.workqueue = x.workqueue /\ ExecOK(p, y)
        /\ rv.exec = calcRevisits(y, l.pos) /\ rv.ok = ~violatesAtomicity(rv.exec.graph, l.pos)
        /\ NoDangling(h) => NoDangling(m)

(* revisitRead() is made of these steps. *)
LEMMA RevisitReadSteps ==
  ASSUME CheckerOK, NEW p, ProgramOK(p), NEW x, ExecOK(p, x), Ipr => NoDangling(x.graph), NEW r \in Events(x.graph),
         x.graph.lab[r].typ = "R", IsLast(x.graph, r), NEW w, w \in StoresOf(x.graph, r)
  PROVE  LET h == updateLabelViews(setRf(x.graph, r, w), r)
             rv == revisitRead(x, r, w)
         IN /\ StoreRead(p, x, h, r, w)
            /\ IF valueMakesRMWSucceed(h, r, ValueOf(h, w)) THEN RevisitCompletes(p, x, h, r, w, rv)
               ELSE rv.exec = [graph |-> h, workqueue |-> x.workqueue] /\ rv.ok
<1> DEFINE g == x.graph
           h == updateLabelViews(setRf(g, r, w), r)
           rv == revisitRead(x, r, w)
<1>1. GraphOK(p, g, {}) /\ Joins(g) /\ ItemsOK(g, x.workqueue) /\ DOMAIN x = {"graph", "workqueue"}
  BY DEF ExecOK
<1>2. rv = ReadRevisited(x, h, r, w)
  BY DEF revisitRead
<1>3. StoreRead(p, x, h, r, w)
  BY ReadStoreOK
<1> HIDE DEF h
<1>4. GraphOK(p, h, {}) /\ Joins(h) /\ ItemsOK(h, x.workqueue) /\ SameText(g, h) /\ h.co = g.co
  BY <1>3 DEF StoreRead
<1>5. h.lab[r].rf = w /\ w # Bottom /\ \A e \in Events(g) \ {r} : h.lab[e].rf = g.lab[e].rf
  BY <1>3 DEF StoreRead
<1>6. CASE ~valueMakesRMWSucceed(h, r, ValueOf(h, w))
  <2>1. rv.exec = [x EXCEPT !.graph = h] /\ rv.ok
    BY <1>2, <1>6 DEF ReadRevisited
  <2>2. rv.exec = [graph |-> h, workqueue |-> x.workqueue]
    BY <1>1, <2>1
  <2> QED BY <1>3, <1>6, <2>1, <2>2 DEF h
<1>7. CASE valueMakesRMWSucceed(h, r, ValueOf(h, w))
  <2> DEFINE l == RMWWriteLabel(h, r)
             s == <<r[1], r[2] + 1>>
             k == addLabelToGraph(h, l)
             m == addCo(k, s, w)
             y == [x EXCEPT !.graph = m]
  <2>1. rv.exec = calcRevisits(y, s) /\ rv.ok = ~violatesAtomicity(rv.exec.graph, s)
    BY <1>2, <1>7 DEF ReadRevisited, AtomicAt, completeRevisitedRMW
  <2>2. r \in Events(h) /\ h.lab[r].typ = "R" /\ IsLast(h, r) /\ h.lab[r].ins.op # "R"
    BY <1>4, <1>7 DEF SameText, IsLast, valueMakesRMWSucceed
  <2>3. /\ LabelOK(p, h, l) /\ Extends(p, h, l) /\ l.pos \notin Events(h) /\ l.typ = "W"
        /\ l.pos = s /\ l.ins = h.lab[r].ins
    BY <1>4, <2>2, WriteAfterRead
  <2> HIDE DEF l, s
  <2>4. GraphOK(p, k, {}) /\ Appended(h, k, l)
    BY <1>4, <2>3, LabelAppends
  <2> HIDE DEF k
  <2> DEFINE z == [graph |-> h, workqueue |-> x.workqueue]
  <2>5. z.graph = h /\ z.workqueue = x.workqueue /\ ExecOK(p, z)
    BY <1>4 DEF ExecOK
  <2> HIDE DEF z
  <2>6. ItemsOK(k, x.workqueue) /\ Joins(k) /\ (NoDangling(h) => NoDangling(k))
    BY <2>3, <2>4, <2>5, AppendedExec
  <2>7. s \in Events(k) /\ k.lab[s].typ = "W" /\ Loc(k, s) = Loc(g, r) /\ k.co = g.co /\ Loc(g, r) \in Locs
    <3>1. k.lab[s].ins = h.lab[r].ins /\ h.lab[r].ins = g.lab[r].ins
      BY <1>4, <2>3, <2>4 DEF Appended, SameText
    <3>2. Loc(g, r) \in Locs
      BY <1>1 DEF GraphOK, Texts, Loc
    <3> QED BY <1>4, <2>3, <2>4, <3>1, <3>2 DEF Appended, Loc
  <2>8. s \notin ToSet(k.co[Loc(k, s)])
    <3>1. g.co[Loc(g, r)] \in Seq(Events(g))
      BY <1>1, <2>7 DEF GraphOK, CoherenceOK
    <3>2. ToSet(g.co[Loc(g, r)]) \subseteq Events(g)
      BY <3>1, SeqFacts
    <3>3. s \notin Events(g)
      BY <1>4, <2>3 DEF SameText
    <3> QED BY <2>7, <3>2, <3>3
  <2>9. w \in StoresOf(k, s)
    BY <2>7 DEF StoresOf
  <2>10. CoGrows(k, m) /\ GraphOK(p, m, {}) /\ s \in ToSet(m.co[Loc(k, s)]) /\ m.lab = k.lab
    BY <2>4, <2>7, <2>8, <2>9, AddCoOK
  <2> HIDE DEF m
  <2>11. Joins(m) /\ ItemsOK(m, x.workqueue)
    <3>1. SameText(k, m)
      BY <2>10 DEF CoGrows
    <3>2. Keeps(k, m, Events(k))
      BY <2>10, CoGrowsKeeps
    <3> QED BY <2>4, <2>6, <3>1, <3>2, SameTextJoins, KeptAll
  <2>12. y = [graph |-> m, workqueue |-> x.workqueue]
    BY <1>1
  <2> HIDE DEF y
  <2>13. ExecOK(p, y) /\ y.graph = m
    BY <2>10, <2>11, <2>12 DEF ExecOK
  <2>14. Youngest(m, s)
    <3>1. IsNewest(k, s)
      BY <2>3, <2>4 DEF Appended
    <3>2. IsNewest(m, s)
      BY <2>10, <3>1 DEF IsNewest, CoGrows, SameText, Stamp
    <3> QED BY <3>2, NewestYoungest
  <2>16. s \in Events(m) /\ m.lab[s].typ = "W" /\ s \in ToSet(m.co[Loc(m, s)])
    BY <2>7, <2>10 DEF Loc, Events
  <2>17. ReadCompletes(p, h, r, w, l, k, m)
    <3>1. k = addLabelToGraph(h, l) /\ m = addCo(k, s, w) /\ s = NextOf(r) /\ l = RMWWriteLabel(h, r)
      BY DEF k, m, s, l, NextOf
    <3> QED BY <2>3, <2>4, <2>8, <2>9, <2>10, <2>14, <2>16, <3>1 DEF ReadCompletes
  <2>18. NoDangling(h) => NoDangling(m)
    BY <2>6, <2>10 DEF NoDangling, Reads, OfType, Events
  <2>19. y.graph = m /\ y.workqueue = x.workqueue
    BY <2>12
  <2> HIDE DEF rv
  <2>20. RevisitCompletes(p, x, h, r, w, rv)
    BY <2>1, <2>3, <2>13, <2>17, <2>18, <2>19 DEF RevisitCompletes
  <2> QED BY <1>3, <1>7, <2>20 DEF h, rv
<1> QED BY <1>6, <1>7

(* revisitRead(), with the write that a read needs if it becomes an RMW,    *)
(* keeps the invariant of an execution.                                     *)
LEMMA RevisitReadOK ==
  ASSUME CheckerOK, NEW p, ProgramOK(p), NEW x, ExecOK(p, x), Ipr => NoDangling(x.graph), NEW r \in Events(x.graph),
         x.graph.lab[r].typ = "R", IsLast(x.graph, r), NEW w, w \in StoresOf(x.graph, r)
  PROVE  LET rv == revisitRead(x, r, w)
         IN /\ ExecOK(p, rv.exec)
            /\ NoDangling(x.graph) => NoDangling(rv.exec.graph)
<1> DEFINE g == x.graph
           h == updateLabelViews(setRf(g, r, w), r)
           rv == revisitRead(x, r, w)
<1>1. /\ StoreRead(p, x, h, r, w)
      /\ IF valueMakesRMWSucceed(h, r, ValueOf(h, w)) THEN RevisitCompletes(p, x, h, r, w, rv)
         ELSE rv.exec = [graph |-> h, workqueue |-> x.workqueue] /\ rv.ok
  BY RevisitReadSteps
<1> HIDE DEF h, rv
<1>4. GraphOK(p, h, {}) /\ Joins(h) /\ ItemsOK(h, x.workqueue) /\ SameText(g, h) /\ h.co = g.co
  BY <1>1 DEF StoreRead
<1>5. h.lab[r].rf = w /\ w # Bottom /\ \A e \in Events(g) \ {r} : h.lab[e].rf = g.lab[e].rf
  BY <1>1 DEF StoreRead
<1>6. NoDangling(g) => NoDangling(h)
  BY <1>4, <1>5 DEF NoDangling, SameText, Reads, OfType
<1>7. CASE ~valueMakesRMWSucceed(h, r, ValueOf(h, w))
  <2>1. rv.exec = [graph |-> h, workqueue |-> x.workqueue]
    BY <1>1, <1>7
  <2> QED BY <1>4, <1>6, <2>1 DEF ExecOK, rv
<1>8. CASE valueMakesRMWSucceed(h, r, ValueOf(h, w))
  <2>1. PICK l, k, m, y :
          /\ ReadCompletes(p, h, r, w, l, k, m)
          /\ y.graph = m /\ y.workqueue = x.workqueue /\ ExecOK(p, y)
          /\ rv.exec = calcRevisits(y, l.pos)
          /\ (NoDangling(h) => NoDangling(m))
    BY <1>1, <1>8 DEF RevisitCompletes
  <2>2. /\ l.pos \in Events(y.graph) /\ y.graph.lab[l.pos].typ = "W"
        /\ l.pos \in ToSet(y.graph.co[Loc(y.graph, l.pos)]) /\ Youngest(y.graph, l.pos)
    BY <2>1 DEF ReadCompletes
  <2>3. Ipr => NoDangling(y.graph)
    BY <1>6, <2>1
  <2>4. ExecOK(p, calcRevisits(y, l.pos)) /\ (NoDangling(y.graph) => NoDangling(calcRevisits(y, l.pos).graph))
    BY <2>1, <2>2, <2>3, CalcRevisitsOK
  <2> QED BY <1>6, <2>1, <2>4 DEF rv
<1> QED BY <1>7, <1>8

(* revisitWrite() keeps the invariant of an execution. *)
LEMMA RevisitWriteOK ==
  ASSUME CheckerOK, NEW p, ProgramOK(p), NEW x, ExecOK(p, x), Ipr => NoDangling(x.graph), NEW w \in Events(x.graph),
         x.graph.lab[w].typ = "W", w \in StoresOf(x.graph, w), NEW pred, pred \in StoresOf(x.graph, w) \ {w},
         Youngest(x.graph, w)
  PROVE  LET rv == revisitWrite(x, w, pred)
         IN /\ ExecOK(p, rv.exec)
            /\ NoDangling(x.graph) => NoDangling(rv.exec.graph)
<1> DEFINE g == x.graph
           h == moveCo(g, w, pred)
           y == [x EXCEPT !.graph = h]
           rv == revisitWrite(x, w, pred)
<1>1. GraphOK(p, g, {}) /\ Joins(g) /\ ItemsOK(g, x.workqueue) /\ DOMAIN x = {"graph", "workqueue"}
  BY DEF ExecOK
<1>2. w \in ToSet(g.co[Loc(g, w)]) /\ Loc(g, w) \in Locs
  <2>1. w # InitEvent
    BY <1>1 DEF GraphOK, Kinds, Shape
  <2> QED BY <1>1, <2>1 DEF StoresOf, GraphOK, Texts, Loc
<1>3. CoGrows(g, h) /\ GraphOK(p, h, {})
  BY <1>1, <1>2, MoveCoOK
<1>4. rv.exec = calcRevisits(y, w)
  BY DEF revisitWrite, AtomicAt
<1> HIDE DEF h
<1>5. Joins(h) /\ ItemsOK(h, x.workqueue) /\ SameText(g, h)
  <2>1. SameText(g, h)
    BY <1>3 DEF CoGrows
  <2>2. Keeps(g, h, Events(g))
    BY <1>3, CoGrowsKeeps
  <2> QED BY <1>1, <2>1, <2>2, SameTextJoins, KeptAll
<1>6. y = [graph |-> h, workqueue |-> x.workqueue]
  BY <1>1
<1> HIDE DEF y
<1>7. ExecOK(p, y) /\ y.graph = h
  BY <1>3, <1>5, <1>6 DEF ExecOK
<1>8. Youngest(h, w)
  BY <1>5 DEF Youngest, SameText, Stamp
<1>9. NoDangling(g) => NoDangling(h)
  BY <1>3 DEF NoDangling, Reads, OfType, CoGrows, SameText
<1>10. w \in Events(h) /\ h.lab[w].typ = "W" /\ w \in ToSet(h.co[Loc(h, w)])
  BY <1>2, <1>3 DEF CoGrows, SameText, Loc
<1>11. ExecOK(p, calcRevisits(y, w)) /\ (NoDangling(h) => NoDangling(calcRevisits(y, w).graph))
  BY <1>7, <1>8, <1>9, <1>10, CalcRevisitsOK
<1> QED BY <1>4, <1>9, <1>11

(* Clearing the flags of a copy's prefix changes nothing else. *)
LEMMA SettleShrunk ==
  ASSUME NEW g, NEW k, NEW K, NEW S, Shrunk(g, k, K), DOMAIN g = {"stamp", "lab", "co", "lin"},
         \A e \in K : DOMAIN g.lab[e] = LabelFields
  PROVE  Shrunk(g, Settle(k, S), K)
<1> DEFINE h == Settle(k, S)
           lab == [e \in Events(k) |-> [k.lab[e] EXCEPT !.revisitable = @ /\ ~InView(S, e)]]
<1>1. DOMAIN k = {"stamp", "lab", "co", "lin"}
  BY DEF Shrunk
<1>2. h = [k EXCEPT !.lab = lab]
  BY DEF Settle
<1>3. DOMAIN h = DOMAIN k /\ h.lab = lab /\ h.stamp = k.stamp /\ h.co = k.co
  BY <1>1, <1>2
<1>4. Events(h) = Events(k)
  BY <1>3 DEF Events
<1>5. ASSUME NEW e \in K
      PROVE  /\ DOMAIN h.lab[e] = DOMAIN k.lab[e] /\ h.lab[e].typ = k.lab[e].typ /\ h.lab[e].ip = k.lab[e].ip
             /\ h.lab[e].ins = k.lab[e].ins /\ h.lab[e].val = k.lab[e].val /\ h.lab[e].createId = k.lab[e].createId
             /\ h.lab[e].prefix = k.lab[e].prefix /\ h.lab[e].rf = k.lab[e].rf
  <2>1. e \in Events(k) /\ DOMAIN k.lab[e] = LabelFields
    BY DEF Shrunk
  <2>2. h.lab[e] = [k.lab[e] EXCEPT !.revisitable = @ /\ ~InView(S, e)]
    BY <1>3, <2>1
  <2> QED BY <2>1, <2>2, LabelFieldsAre
<1> HIDE DEF h
<1> QED BY <1>3, <1>4, <1>5 DEF Shrunk, Stamp, h

(* The copy of a backward revisit is a right execution: the revisited read  *)
(* is last in its thread and the write is still a store of its location.    *)
LEMMA CopiedOK ==
  ASSUME CheckerOK, NEW p, NEW g, GraphOK(p, g, {}), Joins(g), NEW item, ItemOK(g, item), item.kind = "BR"
  PROVE  LET y == Copied(g, item)
         IN /\ ExecOK(p, y)
            /\ NoDangling(g) => NoDangling(y.graph)
            /\ item.pos \in Events(y.graph) /\ y.graph.lab[item.pos].typ = "R" /\ IsLast(y.graph, item.pos)
            /\ item.rev \in StoresOf(y.graph, item.pos)
<1> DEFINE r == item.pos
           s == item.rev
           v == getRevisitView(g, r, s)
           c == getCopyUpTo(g, v)
           k == Settle(c, getPrefixView(g, s))
           h == repairDanglingReads(k)
           y == Copied(g, item)
<1>1. y = [graph |-> h, workqueue |-> <<>>]
  BY DEF Copied, copyGraph
<1>2. /\ r \in Events(g) /\ r[2] > 0 /\ g.lab[r].typ = "R" /\ s \in Events(g)
      /\ s \in ToSet(g.co[Loc(g, r)]) /\ r \notin FullPrefix(g, s)
  BY DEF ItemOK
<1>3. Loc(g, r) \in Locs /\ g.lab[s].typ = "W"
  BY <1>2 DEF GraphOK, Texts, Loc, CoherenceOK
<1>4. ViewOK(g, v) /\ PrefixView(g, v) /\ Lossless(g, v) /\ r \in v /\ s \in v /\ NextOf(r) \notin v
  BY <1>2, <1>3, RevisitView DEF CheckerOK
<1> HIDE DEF v
<1>5. Shrunk(g, c, KeptEvents(g, v))
  BY <1>4, CopyShrinks
<1> HIDE DEF c
<1>6. Shrunk(g, k, KeptEvents(g, v))
  <2>1. \A e \in KeptEvents(g, v) : DOMAIN g.lab[e] = LabelFields
    BY <1>5 DEF Shrunk, GraphOK, Shape
  <2> QED BY <1>5, <2>1, SettleShrunk DEF GraphOK, Shape
<1> HIDE DEF k
<1>7. /\ GraphOK(p, h, {}) /\ Joins(h)
      /\ Events(h) = KeptEvents(g, v) /\ Keeps(g, h, Events(h))
      /\ NoDangling(g) => NoDangling(h)
      /\ \A e \in v : NextOf(e) \notin v => e \in Events(h) /\ IsLast(h, e)
  BY <1>4, <1>6, ShrinkAndRepair
<1>8. r \in Events(h) /\ s \in Events(h) /\ IsLast(h, r)
  BY <1>4, <1>7, ViewClosed DEF KeptEvents
<1> HIDE DEF h
<1>9. h.lab[r].typ = "R" /\ Loc(h, r) = Loc(g, r) /\ s \in ToSet(h.co[Loc(g, r)])
  BY <1>2, <1>3, <1>7, <1>8 DEF Keeps, Loc
<1>10. ItemsOK(h, <<>>)
  BY DEF ItemsOK, IsSeq, ToSet
<1> QED BY <1>1, <1>7, <1>8, <1>9, <1>10 DEF ExecOK, StoresOf

(**************************** Handlers and steps ***************************)

(* A new item that cuts at the youngest event goes on top. *)
LEMMA PushItem ==
  ASSUME NEW p, NEW g, NEW X, GraphOK(p, g, X), NEW items, ItemsOK(g, items), NEW item,
         ItemOK(g, item), Youngest(g, CutEvent(item))
  PROVE  ItemsOK(g, Append(items, item)) /\ Append(items, item) # <<>> /\ Last(Append(items, item)) = item
<1> DEFINE more == <<item>>
           all == Append(items, item)
<1>1. more \in Seq({item}) /\ DOMAIN more = {1} /\ more[1] = item
  OBVIOUS
<1>2. items \in Seq(ToSet(items)) /\ Len(items) \in Nat
  BY DEF ItemsOK, IsSeq
<1>3. all = items \o more
  <2>1. items \in Seq(ToSet(items) \cup {item})
    BY <1>2
  <2>2. all \in Seq(ToSet(items) \cup {item}) /\ items \o more \in Seq(ToSet(items) \cup {item})
    BY <1>1, <2>1
  <2>3. Len(all) = Len(items \o more)
    BY <1>2
  <2>4. \A i \in 1 .. Len(all) : all[i] = (items \o more)[i]
    BY <1>2
  <2> QED BY <2>2, <2>3, <2>4
<1>4. IsSeq(more)
  BY <1>1, SeqFacts
<1>5. all # <<>> /\ Last(all) = item
  <2>1. Len(all) = Len(items) + 1 /\ all[Len(items) + 1] = item
    BY <1>2
  <2> QED BY <1>2, <2>1 DEF Last
<1> HIDE DEF more
<1>6. ItemsOK(g, items \o more)
  BY <1>1, <1>4, PushItems
<1> QED BY <1>3, <1>5, <1>6

(* The context of a handler. *)
ContextOK(p, d) ==
    /\ DOMAIN d = {"x", "st", "moot", "warned", "internal"}
    /\ ExecOK(p, d.x)
    /\ d.moot \in BOOLEAN /\ d.warned \in BOOLEAN
(* The next item is the replay of an error. *)
ErrorLast(x) == x.workqueue # <<>> /\ Last(x.workqueue).kind = "ERROR"

(* A context after the checks of an event. *)
Reported(p, d, c) ==
    /\ ContextOK(p, c)
    /\ SameReads(d.x.graph, c.x.graph)
    /\ c.internal = d.internal
    /\ c.moot = d.moot \/ ErrorLast(c.x)

(* The event that a handler has just added. *)
AtHand(g, e) == IsNewest(g, e) /\ e[2] > 0 /\ g.lab[e].typ # "B"

(* The event that was added last, where initiateErrorReplay() cuts. *)
LEMMA NewestIs ==
  ASSUME NEW p, NEW g, NEW X, GraphOK(p, g, X), NEW e, IsNewest(g, e)
  PROVE  Newest(g) = e
<1> DEFINE n == Newest(g)
<1>1. n \in Events(g) /\ \A d \in Events(g) : Stamp(g, d) <= Stamp(g, n)
  BY DEF Newest, IsNewest
<1> HIDE DEF n
<1>2. Stamp(g, n) <= Stamp(g, e) /\ Stamp(g, e) <= Stamp(g, n) /\ e \in Events(g)
  BY <1>1 DEF IsNewest
<1>3. Stamp(g, n) \in Nat /\ Stamp(g, e) \in Nat
  BY <1>1, <1>2, StampFacts
<1>4. Stamp(g, n) = Stamp(g, e)
  BY <1>2, <1>3
<1> QED BY <1>1, <1>2, <1>4 DEF GraphOK, Stamps, n

(* Nothing changes. *)
LEMMA SameReadsRefl ==
  ASSUME NEW g
  PROVE  SameReads(g, g)
BY DEF SameReads, SameText

(* Changes of flags keep the invariant of an execution. *)
LEMMA SameReadsExec ==
  ASSUME NEW p, NEW x, ExecOK(p, x), NEW h, SameReads(x.graph, h)
  PROVE  GraphOK(p, h, {}) /\ Joins(h) /\ ItemsOK(h, x.workqueue)
<1>1. GraphOK(p, x.graph, {}) /\ Joins(x.graph) /\ ItemsOK(x.graph, x.workqueue)
  BY DEF ExecOK
<1>2. Keeps(x.graph, h, Events(x.graph))
  BY SameReadsKeeps
<1> QED BY <1>1, <1>2, SameReadsOK, SameTextJoins, KeptAll DEF SameReads

(* The item that initiateErrorReplay() pushes is right. *)
LEMMA ReplayItemOK ==
  ASSUME NEW p, NEW g, NEW X, GraphOK(p, g, X), NEW e, AtHand(g, e), NEW kind \in {"WARN", "ERROR"},
         kind = "WARN" => g.lab[e].typ = "W", NEW err, err # NoError
  PROVE  LET item == ReplayItem(kind, e, err)
         IN ItemOK(g, item) /\ CutEvent(item) = e /\ Youngest(g, e) /\ item.kind = kind
<1> DEFINE item == ReplayItem(kind, e, err)
<1>1. item.kind = kind /\ item.pos = e /\ item.rev = InitEvent /\ item.err = err
  BY DEF ReplayItem, Item
<1> HIDE DEF item
<1>2. CutEvent(item) = e
  BY <1>1 DEF CutEvent
<1>3. e \in Events(g) /\ InitEvent \in Events(g) /\ Stamp(g, e) <= Stamp(g, e)
  BY DEF AtHand, IsNewest, GraphOK, Shape
<1>4. ItemOK(g, item)
  BY <1>1, <1>2, <1>3 DEF ItemOK, ItemKinds, AtHand
<1> QED BY <1>1, <1>2, <1>4, NewestYoungest DEF AtHand, item

(* reportError() gives the execution up and pushes a replay. *)
LEMMA ReportErrorOK ==
  ASSUME NEW p, NEW d, ContextOK(p, d), NEW e, AtHand(d.x.graph, e), NEW err, err # NoError
  PROVE  LET c == reportError(d, err)
         IN /\ ContextOK(p, c) /\ c.x.graph = d.x.graph /\ c.internal = d.internal /\ c.moot /\ ErrorLast(c.x)
            /\ c.st = d.st /\ c.warned = d.warned
<1> DEFINE g == d.x.graph
           item == ReplayItem("ERROR", Newest(g), err)
           c == reportError(d, err)
           q == Append(d.x.workqueue, item)
<1>1. GraphOK(p, g, {}) /\ Joins(g) /\ ItemsOK(g, d.x.workqueue) /\ DOMAIN d.x = {"graph", "workqueue"}
  BY DEF ContextOK, ExecOK
<1>2. Newest(g) = e
  BY <1>1, NewestIs DEF AtHand
<1>3. ItemOK(g, item) /\ CutEvent(item) = e /\ Youngest(g, e) /\ item.kind = "ERROR"
  BY <1>1, <1>2, ReplayItemOK
<1>4. c = [Push(d, item) EXCEPT !.moot = TRUE]
  BY DEF reportError
<1> HIDE DEF item
<1>5. ItemsOK(g, q) /\ q # <<>> /\ Last(q) = item
  BY <1>1, <1>3, PushItem
<1>6. Push(d, item) = [d EXCEPT !.x = [d.x EXCEPT !.workqueue = q]]
  BY DEF Push
<1> HIDE DEF q
<1>7. /\ DOMAIN c = {"x", "st", "moot", "warned", "internal"} /\ c.x = [d.x EXCEPT !.workqueue = q]
      /\ c.st = d.st /\ c.moot = TRUE /\ c.warned = d.warned /\ c.internal = d.internal
  BY <1>4, <1>6 DEF ContextOK
<1> HIDE DEF c
<1>8. DOMAIN c.x = {"graph", "workqueue"} /\ c.x.graph = g /\ c.x.workqueue = q
  BY <1>1, <1>7
<1>9. ExecOK(p, c.x)
  BY <1>1, <1>5, <1>8 DEF ExecOK
<1>10. ErrorLast(c.x)
  BY <1>3, <1>5, <1>8 DEF ErrorLast
<1> QED BY <1>7, <1>8, <1>9, <1>10 DEF ContextOK, c

(* Marking a racy write is a change of a flag. *)
LEMMA SetRacy ==
  ASSUME NEW g, Shape(g), NEW e \in Events(g)
  PROVE  SameReads(g, [g EXCEPT !.lab[e].wwRacy = TRUE])
<1> DEFINE l == [g.lab[e] EXCEPT !.wwRacy = TRUE]
           h == [g EXCEPT !.lab[e].wwRacy = TRUE]
<1>1. DOMAIN g = {"stamp", "lab", "co", "lin"} /\ DOMAIN g.lab[e] = LabelFields /\ e \in DOMAIN g.lab
  BY DEF Shape, Events
<1>2. /\ DOMAIN l = DOMAIN g.lab[e] /\ l.typ = g.lab[e].typ /\ l.ip = g.lab[e].ip /\ l.ins = g.lab[e].ins
      /\ l.val = g.lab[e].val /\ l.createId = g.lab[e].createId /\ l.rf = g.lab[e].rf /\ l.prefix = g.lab[e].prefix
  BY <1>1, LabelFieldsAre
<1>3. h.lab = [g.lab EXCEPT ![e] = l] /\ DOMAIN h = DOMAIN g /\ h.stamp = g.stamp /\ h.co = g.co
  BY <1>1
<1> HIDE DEF h, l
<1>4. DOMAIN h.lab = DOMAIN g.lab /\ h.lab[e] = l /\ \A c \in DOMAIN g.lab : c # e => h.lab[c] = g.lab[c]
  BY <1>1, <1>3
<1>5. InitEvent \in DOMAIN g.lab
  BY DEF Shape, Events
<1> QED BY <1>2, <1>3, <1>4, <1>5 DEF SameReads, SameText, Events, h

(* reportWarningOnce() pushes a replay, or reports an error in its place. *)
LEMMA WarningOK ==
  ASSUME NEW p, NEW d, ContextOK(p, d), NEW e, AtHand(d.x.graph, e), d.x.graph.lab[e].typ = "W"
  PROVE  Reported(p, d, reportWarningOnce(d, e))
<1> DEFINE g == d.x.graph
           item == ReplayItem("WARN", e, "WWRace")
           h == [g EXCEPT !.lab[e].wwRacy = TRUE]
           c == reportWarningOnce(d, e)
           rep == IF UpgradeWarning(g, e) THEN reportError(d, "WWRace")
                  ELSE IF ~d.warned THEN Push(d, item) ELSE d
<1>1. GraphOK(p, g, {}) /\ ItemsOK(g, d.x.workqueue) /\ DOMAIN d.x = {"graph", "workqueue"}
  BY DEF ContextOK, ExecOK
<1>2. "WWRace" # NoError
  BY DEF NoError
<1>3. /\ ContextOK(p, rep) /\ rep.x.graph = g /\ rep.internal = d.internal
      /\ rep.moot = d.moot \/ ErrorLast(rep.x)
  <2>1. CASE UpgradeWarning(g, e)
    BY <1>2, <2>1, ReportErrorOK
  <2>2. CASE ~UpgradeWarning(g, e) /\ ~d.warned
    <3> DEFINE q == Append(d.x.workqueue, item)
    <3>1. rep = [d EXCEPT !.x = [d.x EXCEPT !.workqueue = q]]
      BY <2>2 DEF Push
    <3>2. ItemOK(g, item) /\ CutEvent(item) = e /\ Youngest(g, e)
      BY <1>1, <1>2, ReplayItemOK
    <3> HIDE DEF item
    <3>3. ItemsOK(g, q)
      BY <1>1, <3>2, PushItem
    <3> HIDE DEF q, rep
    <3>4. /\ DOMAIN rep = {"x", "st", "moot", "warned", "internal"} /\ rep.x = [d.x EXCEPT !.workqueue = q]
          /\ rep.moot = d.moot /\ rep.warned = d.warned /\ rep.internal = d.internal
      BY <3>1 DEF ContextOK
    <3>5. DOMAIN rep.x = {"graph", "workqueue"} /\ rep.x.graph = g /\ rep.x.workqueue = q
      BY <1>1, <3>4
    <3> QED BY <3>3, <3>4, <3>5 DEF ContextOK, ExecOK
  <2>3. CASE ~UpgradeWarning(g, e) /\ d.warned
    BY <2>3
  <2> QED BY <2>1, <2>2, <2>3 DEF ContextOK
<1>4. c = [rep EXCEPT !.warned = TRUE, !.x.graph.lab[e].wwRacy = TRUE]
  BY DEF reportWarningOnce
<1> HIDE DEF rep
<1>5. SameReads(g, h)
  BY <1>1, SetRacy DEF GraphOK, AtHand, IsNewest
<1>6. /\ DOMAIN c = {"x", "st", "moot", "warned", "internal"} /\ c.x = [rep.x EXCEPT !.graph = h]
      /\ c.moot = rep.moot /\ c.warned = TRUE /\ c.internal = rep.internal
  BY <1>3, <1>4 DEF ContextOK
<1> HIDE DEF c, h
<1>7. DOMAIN c.x = {"graph", "workqueue"} /\ c.x.graph = h /\ c.x.workqueue = rep.x.workqueue
  BY <1>3, <1>6 DEF ContextOK, ExecOK
<1>8. GraphOK(p, h, {}) /\ Joins(h) /\ ItemsOK(h, rep.x.workqueue)
  <2>1. ExecOK(p, rep.x) /\ SameReads(rep.x.graph, h)
    BY <1>3, <1>5 DEF ContextOK
  <2> QED BY <2>1, SameReadsExec
<1>9. ErrorLast(rep.x) => ErrorLast(c.x)
  BY <1>7 DEF ErrorLast
<1> QED BY <1>3, <1>5, <1>6, <1>7, <1>8, <1>9 DEF Reported, ContextOK, ExecOK, c

(* Nothing is reported. *)
LEMMA NothingReported ==
  ASSUME NEW p, NEW d, ContextOK(p, d)
  PROVE  Reported(p, d, d)
BY SameReadsRefl DEF Reported

(* checkForRaces() changes nothing but flags, and gives the execution up    *)
(* only with an error on top.                                               *)
LEMMA RacesOK ==
  ASSUME CheckerOK, NEW p, NEW d, ContextOK(p, d), NEW e, AtHand(d.x.graph, e)
  PROVE  Reported(p, d, checkForRaces(d, e))
<1> DEFINE err == CheckErrors(d.x.graph, d.st, e)
<1>1. CASE ~RaceDetection
  BY <1>1, NothingReported DEF checkForRaces
<1>2. CASE RaceDetection /\ err # NoError
  <2>1. checkForRaces(d, e) = reportError(d, err)
    BY <1>2 DEF checkForRaces, RaceOrWarning
  <2> HIDE DEF err
  <2> QED BY <1>2, <2>1, ReportErrorOK, SameReadsRefl DEF Reported
<1>3. CASE RaceDetection /\ err = NoError
  <2>1. checkForRaces(d, e) = checkForWarnings(d, e)
    BY <1>3 DEF checkForRaces, RaceOrWarning
  <2>2. CASE CheckWarnings(d.x.graph, d.st, e, d.warned) # {}
    <3>1. d.x.graph.lab[e].typ = "W" /\ checkForWarnings(d, e) = reportWarningOnce(d, e)
      BY <2>2 DEF CheckerOK, checkForWarnings
    <3> QED BY <2>1, <3>1, WarningOK
  <2>3. CASE CheckWarnings(d.x.graph, d.st, e, d.warned) = {}
    <3>1. checkForWarnings(d, e) = d
      BY <2>3 DEF checkForWarnings
    <3> QED BY <2>1, <3>1, NothingReported
  <2> QED BY <2>2, <2>3
<1> QED BY <1>1, <1>2, <1>3

(* So do the checks of an access that come before it. *)
LEMMA CheckedOK ==
  ASSUME CheckerOK, NEW p, NEW d, ContextOK(p, d), NEW e, AtHand(d.x.graph, e), NEW err
  PROVE  Reported(p, d, Checked(d, e, err))
<1>1. CASE err # NoError
  <2>1. Checked(d, e, err) = reportError(d, err)
    BY <1>1 DEF Checked
  <2> QED BY <1>1, <2>1, ReportErrorOK, SameReadsRefl DEF Reported
<1>2. CASE err = NoError
  <2>1. Checked(d, e, err) = checkForRaces(d, e)
    BY <1>2 DEF Checked
  <2> QED BY <2>1, RacesOK
<1> QED BY <1>1, <1>2

(******************************* The program *******************************)

(* The last event of a thread. *)
LEMMA ThreadEnd ==
  ASSUME NEW p, NEW g, NEW X, GraphOK(p, g, X), NEW t \in ThreadIds(g)
  PROVE  LET n == LastIndex(g, t)
         IN /\ t \in Nat /\ n \in Nat
            /\ <<t, n>> \in Events(g) /\ IsLast(g, <<t, n>>) /\ <<t, n + 1>> \notin Events(g)
<1> DEFINE n == LastIndex(g, t)
<1>1. PICK e \in Events(g) : e[1] = t
  BY DEF ThreadIds
<1>2. n \in Nat /\ <<t, n>> \in Events(g) /\ IsLast(g, <<t, n>>) /\ t \in Nat
  BY <1>1, LastIndexIsLast, ThreadOf
<1> HIDE DEF n
<1>3. <<t, n + 1>> \in Events(g) => n + 1 <= n
  BY <1>2 DEF IsLast
<1> QED BY <1>2, <1>3 DEF n

(* Without holes a thread goes on at its end. *)
LEMMA NextIndexIs ==
  ASSUME NEW p, NEW g, NEW X, GraphOK(p, g, X), NEW t \in ThreadIds(g)
  PROVE  NextIndex(g, t) = LastIndex(g, t) + 1
<1> DEFINE n == LastIndex(g, t)
           holes == {e[2] : e \in {d \in ThreadEvents(g, t) : g.lab[d].typ = "E"}}
<1>1. n \in Nat
  BY ThreadEnd
<1>2. holes = {}
  BY DEF ThreadEvents, GraphOK, Kinds, EventTypes
<1> HIDE DEF n, holes
<1>3. {n + 1} \subseteq Nat /\ {n + 1} # {}
  BY <1>1
<1>4. Min({n + 1}) \in {n + 1}
  BY <1>3, MinIn
<1>5. holes \cup {n + 1} = {n + 1}
  BY <1>2
<1> QED BY <1>4, <1>5 DEF NextIndex, n, holes

(* The next instruction of a thread is an instruction of its function, or   *)
(* its end.                                                                 *)
LEMMA NextIpIs ==
  ASSUME NEW g, NEW X, GraphOK(prog, g, X), ProgramOK(prog), NEW t \in ThreadIds(g)
  PROVE  LET f == g.lab[<<t, 0>>].val + 1
         IN /\ NextIp(g, t) \in Nat
            /\ f \in DOMAIN prog
            /\ NextIns(g, t).op # "FINISH" => /\ NextIp(g, t) \in DOMAIN prog[f]
                                               /\ NextIns(g, t) = prog[f][NextIp(g, t)]
            /\ CodeOf(prog, g, t) = prog[f] /\ Code(g, t) = prog[f]
<1> DEFINE f == g.lab[<<t, 0>>].val + 1
           code == prog[f]
           n == LastIndex(g, t)
           ip == g.lab[<<t, n>>].ip + 1
           np == NextIp(g, t)
<1>1. f \in DOMAIN prog
  BY CodeInProgram
<1>2. Len(code) \in Nat /\ DOMAIN code = 1 .. Len(code)
  BY <1>1 DEF ProgramOK
<1>3. CodeOf(prog, g, t) = code /\ Code(g, t) = code
  BY DEF CodeOf, Code
<1> HIDE DEF code, f
<1>4. n \in Nat /\ <<t, n>> \in Events(g)
  BY ThreadEnd
<1>5. NextIndex(g, t) - 1 = n
  BY <1>4, NextIndexIs
<1>6. ip \in Nat \ {0}
  BY <1>4 DEF GraphOK, Texts
<1>7. np = SkipLocal(g, t, ip)
  BY <1>5 DEF NextIp
<1> HIDE DEF ip
<1>8. np \in {ip, ip + 1, Len(code) + 1}
  BY <1>3, <1>7 DEF SkipLocal
<1>9. np \in Nat \ {0}
  BY <1>2, <1>6, <1>8
<1> HIDE DEF np
<1>10. NextIns(g, t) = InsAt(code, np)
  BY <1>3 DEF NextIns, np
<1>11. ASSUME NextIns(g, t).op # "FINISH" PROVE np \in DOMAIN code /\ NextIns(g, t) = code[np]
  <2>1. FinishIns.op = "FINISH"
    BY DEF FinishIns, NoInstr, Instr
  <2>2. ~(np > Len(code))
    BY <1>10, <1>11, <2>1 DEF InsAt
  <2>3. np \in DOMAIN code
    BY <1>2, <1>9, <2>2
  <2> QED BY <1>10, <2>2, <2>3 DEF InsAt
<1> QED BY <1>1, <1>3, <1>9, <1>11 DEF f, code, np

(* With in-place revisits, a thread whose last load fails its assume() is  *)
(* at that assume().                                                       *)
LEMMA BlockedNext ==
  ASSUME NEW g, NEW X, GraphOK(prog, g, X), ProgramOK(prog), NEW t \in ThreadIds(g),
         NEW r, r = <<t, LastIndex(g, t)>>, g.lab[r].typ = "R", ReadBlocks(g, r)
  PROVE  NextIns(g, t).op = "ASSUME"
<1> DEFINE f == g.lab[<<t, 0>>].val + 1
           code == prog[f]
           i == g.lab[r].ip
<1>1. r \in Events(g) /\ IsLast(g, r) /\ LastIndex(g, t) \in Nat /\ t \in Nat /\ r[1] = t
  BY ThreadEnd
<1>2. r \in Reads(g)
  BY <1>1 DEF Reads, OfType
<1>3. f \in DOMAIN prog /\ i \in DOMAIN code /\ g.lab[r].ins = code[i]
  BY <1>1, <1>2, LoadText
<1>4. g.lab[r].ins.op = "R" /\ g.lab[r].ins.annot # NoAnnot /\ ReadValue(g, r) # g.lab[r].ins.annot
  BY DEF ReadBlocks, Annotated
<1>5. /\ i < Len(code) /\ code[i + 1].op = "ASSUME" /\ code[i + 1].exp = g.lab[r].ins.annot
      /\ Len(code) \in Nat /\ DOMAIN code = 1 .. Len(code)
  BY <1>3, <1>4 DEF ProgramOK
<1>6. Code(g, t) = code
  BY DEF Code
<1> HIDE DEF code, f
<1>7. i \in Nat /\ ~(i + 1 > Len(code))
  BY <1>3, <1>5
<1>8. NextIndex(g, t) - 1 = LastIndex(g, t)
  BY <1>1, NextIndexIs
<1>9. NextIp(g, t) = SkipLocal(g, t, i + 1)
  BY <1>8 DEF NextIp
<1>10. InsAt(code, i + 1) = code[i + 1]
  BY <1>7 DEF InsAt
<1>11. LastLoad(g, t, i + 1) = {r}
  <2> DEFINE loads == {e \in Reads(g) : e[1] = t /\ g.lab[e].ip < i + 1}
  <2>1. r \in loads
    BY <1>1, <1>2, <1>7
  <2>2. \A e \in loads : e \in Events(g) /\ e[1] = t /\ e[2] <= r[2]
    BY <1>1 DEF IsLast, Reads, OfType
  <2>3. \A e \in loads : r[2] <= e[2] => e = r
    <3> TAKE e \in loads
    <3> HAVE r[2] <= e[2]
    <3>1. e \in Events(g) /\ e[1] = t /\ e[2] <= r[2]
      BY <2>2
    <3>2. e[2] \in Nat /\ r[2] \in Nat /\ e = <<e[1], e[2]>> /\ r = <<r[1], r[2]>>
      BY <1>1, <3>1, ThreadOf
    <3>3. e[2] = r[2]
      BY <3>1, <3>2
    <3> QED BY <1>1, <3>1, <3>2, <3>3
  <2> QED BY <2>1, <2>2, <2>3 DEF LastLoad
<1>12. LoadedValue(g, t, i + 1) = ReadValue(g, r)
  <2>1. (CHOOSE q \in {r} : TRUE) = r
    OBVIOUS
  <2> QED BY <1>11, <2>1 DEF LoadedValue
<1>13. SkipLocal(g, t, i + 1) = i + 1
  BY <1>4, <1>5, <1>6, <1>10, <1>12 DEF SkipLocal
<1> QED BY <1>5, <1>6, <1>9, <1>10, <1>13 DEF NextIns

(* A label for the end of a thread that is scheduled. *)
LEMMA ExtendsThread ==
  ASSUME NEW g, GraphOK(prog, g, {}), ProgramOK(prog), NEW t \in ThreadIds(g), isSchedulable(g, t),
         NEW l, l.pos = <<t, LastIndex(g, t) + 1>>, l.typ \in EventTypes \ {"INIT", "TS"},
         l.typ = "B" \/ NextIns(g, t).op # "ASSUME"
  PROVE  Extends(prog, g, l) /\ l.pos \notin Events(g)
<1> DEFINE n == LastIndex(g, t)
           b == <<t, n>>
<1>1. t \in Nat /\ n \in Nat /\ b \in Events(g) /\ IsLast(g, b) /\ <<t, n + 1>> \notin Events(g)
  BY ThreadEnd
<1>2. g.lab[b].typ \notin {"B", "TF"}
  BY DEF isSchedulable, LastLabel
<1>3. g.lab[b].typ = "R" /\ ReadBlocks(g, b) => l.typ = "B"
  BY BlockedNext
<1> HIDE DEF n
<1>4. l.pos[1] = t /\ l.pos[2] = n + 1 /\ l.pos[2] - 1 = n /\ l.pos = <<l.pos[1], l.pos[2]>> /\ n + 1 \in Nat \ {0}
  BY <1>1 DEF n
<1>5. <<l.pos[1], l.pos[2] - 1>> = b
  BY <1>4
<1> HIDE DEF b
<1> QED BY <1>1, <1>2, <1>3, <1>4, <1>5 DEF Extends, n

(* The next label of a schedulable thread can be added. *)
LEMMA NextLabelOK ==
  ASSUME NEW g, GraphOK(prog, g, {}), ProgramOK(prog), NEW t \in ThreadIds(g), isSchedulable(g, t),
         NEW typ \in EventTypes \ {"INIT", "TS"}, NEW val,
         NextIns(g, t).op # "ASSUME",
         typ = "R" => NextIns(g, t).op \in LoadOps,
         typ = "W" => NextIns(g, t).op \in {"W", "COPY"}
  PROVE  LET l == NextLabel(g, t, typ, val)
         IN /\ LabelOK(prog, g, l) /\ Extends(prog, g, l) /\ l.pos \notin Events(g)
            /\ l.typ = typ /\ l.val = val /\ l.ins = NextIns(g, t) /\ l.ip = NextIp(g, t) /\ l.rf = Bottom
            /\ l.pos = <<t, LastIndex(g, t) + 1>>
<1> DEFINE l == NextLabel(g, t, typ, val)
           ins == NextIns(g, t)
           np == NextIp(g, t)
           f == g.lab[<<t, 0>>].val + 1
<1>1. NextPos(g, t) = <<t, LastIndex(g, t) + 1>>
  BY NextIndexIs DEF NextPos
<1>2. /\ DOMAIN l = LabelFields /\ l.typ = typ /\ l.val = val /\ l.ins = ins /\ l.ip = np
      /\ l.rf = Bottom /\ l.pos = <<t, LastIndex(g, t) + 1>>
  BY <1>1, LabelFieldsAre DEF NextLabel, NewLabel
<1> HIDE DEF l
<1>3. Extends(prog, g, l) /\ l.pos \notin Events(g)
  BY <1>2, ExtendsThread
<1>4. /\ np \in Nat /\ f \in DOMAIN prog
      /\ ins.op # "FINISH" => np \in DOMAIN prog[f] /\ ins = prog[f][np]
      /\ CodeOf(prog, g, t) = prog[f]
  BY NextIpIs
<1> HIDE DEF ins, np, f
<1>5. typ \in {"R", "W"} => ins.op \in AccessOps /\ ins.op # "FINISH"
  BY DEF AccessOps, LoadOps, ins
<1>6. typ \in {"R", "W"} => ins.loc \in Locs
  BY <1>4, <1>5 DEF ProgramOK
<1>7. l.pos[1] = t
  BY <1>2
<1>8. typ = "R" => ins.op \in LoadOps
  BY DEF ins
<1>9. LabelOK(prog, g, l)
  BY <1>2, <1>4, <1>5, <1>6, <1>7, <1>8 DEF LabelOK
<1> QED BY <1>2, <1>3, <1>9 DEF l, ins, np

(* A schedulable thread can be blocked. *)
LEMMA BlockLabelOK ==
  ASSUME NEW g, GraphOK(prog, g, {}), ProgramOK(prog), NEW t \in ThreadIds(g), isSchedulable(g, t),
         NEW ip \in Nat, NEW ins, NEW val
  PROVE  LET l == NewLabel(<<t, LastIndex(g, t) + 1>>, "B", ip, ins, val)
         IN /\ GraphOK(prog, blockThread(g, t, ip, ins, val), {})
            /\ Appended(g, blockThread(g, t, ip, ins, val), l)
            /\ l.typ = "B" /\ l.ins = ins /\ l.val = val
<1> DEFINE l == NewLabel(<<t, LastIndex(g, t) + 1>>, "B", ip, ins, val)
<1>1. /\ DOMAIN l = LabelFields /\ l.typ = "B" /\ l.val = val /\ l.ins = ins /\ l.ip = ip
      /\ l.rf = Bottom /\ l.pos = <<t, LastIndex(g, t) + 1>>
  BY LabelFieldsAre DEF NewLabel
<1>2. blockThread(g, t, ip, ins, val) = add(g, l)
  BY DEF blockThread
<1> HIDE DEF l
<1>3. Extends(prog, g, l) /\ l.pos \notin Events(g)
  BY <1>1, ExtendsThread DEF EventTypes
<1>4. LabelOK(prog, g, l)
  BY <1>1 DEF LabelOK
<1>5. GraphOK(prog, add(g, l), {}) /\ Appended(g, add(g, l), l)
  BY <1>1, <1>3, <1>4, BlockAppends
<1> QED BY <1>1, <1>2, <1>5 DEF l

(************************ What the checker proposes ************************)

(* The maximum of a bounded set of naturals. *)
LEMMA MaxIn0 ==
  ASSUME NEW n \in Nat, NEW S, S \subseteq 0 .. n, S # {}
  PROVE  Max(S) \in S
<1>1. PICK m \in S : \A k \in S : k <= m
  BY GreatestNat
<1>2. \A k \in S : m >= k
  BY <1>1
<1> QED BY <1>2 DEF Max

(* The coherence of an access's location. *)
LEMMA CoOf ==
  ASSUME NEW p, NEW g, NEW X, GraphOK(p, g, X), NEW e \in Events(g), g.lab[e].typ \in {"R", "W"}
  PROVE  LET s == g.co[Loc(g, e)]
         IN /\ Loc(g, e) \in Locs
            /\ s \in Seq(ToSet(s)) /\ Len(s) \in Nat /\ DOMAIN s = 1 .. Len(s) /\ ToSet(s) \subseteq Events(g)
            /\ \A i \in DOMAIN s : s[i] \in ToSet(s)
            /\ \A w \in ToSet(s) : g.lab[w].typ = "W" /\ Loc(g, w) = Loc(g, e) /\ w # InitEvent
<1>1. Loc(g, e) \in Locs
  BY DEF GraphOK, Texts, Loc
<1>2. g.co[Loc(g, e)] \in Seq(Events(g))
  BY <1>1 DEF GraphOK, CoherenceOK
<1>3. \A w \in ToSet(g.co[Loc(g, e)]) : g.lab[w].typ = "W" /\ Loc(g, w) = Loc(g, e)
  BY <1>1 DEF GraphOK, CoherenceOK
<1>4. g.lab[InitEvent].typ # "W"
  BY DEF GraphOK, Kinds, Shape
<1> HIDE <1>1
<1> DEFINE s == g.co[Loc(g, e)]
<1> HIDE DEF s
<1>5. IsSeq(s) /\ ToSet(s) \subseteq Events(g) /\ \A i \in DOMAIN s : s[i] \in ToSet(s)
  BY <1>2, SeqFacts DEF s
<1>6. Len(s) \in Nat /\ DOMAIN s = 1 .. Len(s)
  BY <1>5 DEF IsSeq
<1>7. \A w \in ToSet(s) : g.lab[w].typ = "W" /\ Loc(g, w) = Loc(g, e) /\ w # InitEvent
  BY <1>3, <1>4 DEF s
<1> QED BY <1>1, <1>5, <1>6, <1>7 DEF IsSeq, s

(* splitLocMOBefore() is a place in coherence. *)
LEMMA SplitIn ==
  ASSUME NEW g, NEW loc, NEW e, NEW hb, Len(g.co[loc]) \in Nat, DOMAIN g.co[loc] = 1 .. Len(g.co[loc])
  PROVE  splitLocMOBefore(g, loc, e, hb) \in 0 .. Len(g.co[loc])
<1> DEFINE n == Len(g.co[loc])
           S == {0} \cup {i \in DOMAIN g.co[loc] : isWriteRfBefore(g, g.co[loc][i], g.lab[e].views[hb])}
<1>1. n \in Nat /\ S \subseteq 0 .. n /\ S # {}
  OBVIOUS
<1>2. splitLocMOBefore(g, loc, e, hb) = Max(S)
  BY DEF splitLocMOBefore
<1> HIDE DEF n, S
<1>3. Max(S) \in S
  BY <1>1, MaxIn0
<1> QED BY <1>1, <1>2, <1>3 DEF n

(* The stores a load may read are those of its location. *)
LEMMA CoherentStoresOK ==
  ASSUME CheckerOK, NEW p, NEW g, NEW X, GraphOK(p, g, X), NEW r \in Events(g), g.lab[r].typ = "R"
  PROVE  StoresToRead(g, r) \in Seq(StoresOf(g, r))
<1> DEFINE s == g.co[Loc(g, r)]
           R == StoresOf(g, r)
           all == GetCoherentStores(g, r)
<1>1. PICK hb : \A x, e : GetCoherentStores(x, e) = CoherentStores(x, e, hb, FALSE)
  BY DEF CheckerOK
<1>2. /\ s \in Seq(ToSet(s)) /\ Len(s) \in Nat /\ DOMAIN s = 1 .. Len(s)
      /\ \A i \in DOMAIN s : s[i] \in ToSet(s)
  BY CoOf
<1> DEFINE n == splitLocMOBefore(g, Loc(g, r), r, hb)
           max == co_max(g, Loc(g, r))
<1>3. n \in 0 .. Len(s)
  BY <1>2, SplitIn
<1>4. all = IF max[1] = r[1] /\ max[2] < r[2] THEN <<max>> ELSE StoresFrom(s, n, Len(s))
  BY <1>1 DEF CoherentStores
<1>5. max \in R
  BY CoMaxIsStore
<1>6. InitEvent \in R /\ ToSet(s) \subseteq R
  BY DEF StoresOf
<1> HIDE DEF n, max, s, R
<1>7. StoresFrom(s, n, Len(s)) \in Seq(R)
  <2> DEFINE a == IF n = 0 THEN InitEvent ELSE s[n]
             b == SubSeq(s, n + 1, Len(s))
  <2>1. a \in R
    BY <1>2, <1>3, <1>6
  <2>2. b \in Seq(ToSet(s))
    BY <1>2, <1>3
  <2>3. b \in Seq(R)
    BY <1>6, <2>2
  <2>4. StoresFrom(s, n, Len(s)) = <<a>> \o b
    BY DEF StoresFrom
  <2> HIDE DEF a, b
  <2> QED BY <2>1, <2>3, <2>4
<1>8. all \in Seq(R)
  BY <1>4, <1>5, <1>7
<1> HIDE DEF all
<1> DEFINE T == {w \in ToSet(all) : ~(valueMakesRMWSucceed(g, r, ValueOf(g, w)) /\
                    \E q \in readers(g, w, Loc(g, r)) :
                        IsRMWRead(g, q) /\ (~g.lab[q].revisitable \/ q \in getPrefixView(g, r)))}
           some == getRfsApproximation(g, r)
<1>9. some = Kept(all, T)
  BY DEF getRfsApproximation, all
<1> HIDE DEF T, some
<1>10. some \in Seq(R)
  <2>1. some \in Seq(R \cap T)
    BY <1>8, <1>9, KeptProperties
  <2> QED BY <2>1
<1> DEFINE U == {w \in ToSet(some) : \/ ~Annotated(g.lab[r])
                                     \/ w \in {Last(some), co_max(g, Loc(g, r))}
                                     \/ ValueOf(g, w) = g.lab[r].ins.annot}
<1>11. StoresToRead(g, r) = Kept(some, U)
  BY DEF StoresToRead, filterValuesFromAnnotSAVER, some
<1> HIDE DEF U
<1>12. Kept(some, U) \in Seq(R \cap U)
  BY <1>10, KeptProperties
<1> QED BY <1>11, <1>12 DEF R

(* The predecessor of a store in coherence is a store of the location. *)
LEMMA CoBeforeIn ==
  ASSUME NEW p, NEW g, NEW X, GraphOK(p, g, X), NEW e \in Events(g), g.lab[e].typ \in {"R", "W"},
         NEW w \in ToSet(g.co[Loc(g, e)])
  PROVE  CoBefore(g, w) \in StoresOf(g, e)
<1> DEFINE l == Loc(g, e)
           i == CoIndex(g, w, l)
<1>1. /\ g.co[l] \in Seq(ToSet(g.co[l])) /\ Len(g.co[l]) \in Nat /\ DOMAIN g.co[l] = 1 .. Len(g.co[l])
      /\ \A j \in DOMAIN g.co[l] : g.co[l][j] \in ToSet(g.co[l])
      /\ Loc(g, w) = l /\ w # InitEvent
  BY CoOf
<1>2. CoBefore(g, w) = IF i = 1 THEN InitEvent ELSE g.co[l][i - 1]
  BY <1>1 DEF CoBefore
<1> HIDE DEF l
<1>3. i \in DOMAIN g.co[l]
  BY <1>1, CoIndexIn DEF l
<1> HIDE DEF i
<1>4. i # 1 => i - 1 \in DOMAIN g.co[l]
  BY <1>1, <1>3
<1> QED BY <1>1, <1>2, <1>4 DEF StoresOf, l

(* The places of a write in coherence. *)
LEMMA PlacingsOK ==
  ASSUME CheckerOK, NEW p, NEW g, NEW X, GraphOK(p, g, X), NEW w \in Events(g), g.lab[w].typ = "W",
         IsRMWOp(g.lab[w].ins) => g.lab[<<w[1], w[2] - 1>>].rf \in StoresOf(g, w)
  PROVE  LET cos == GetCoherentPlacings(g, w)
         IN cos \in Seq(StoresOf(g, w)) /\ cos # <<>>
<1> DEFINE s == g.co[Loc(g, w)]
           R == StoresOf(g, w)
           cos == GetCoherentPlacings(g, w)
<1>1. PICK hb : \A x, e : GetCoherentPlacings(x, e) = CoherentPlacings(x, e, hb, FALSE)
  BY DEF CheckerOK
<1>2. /\ s \in Seq(ToSet(s)) /\ Len(s) \in Nat /\ DOMAIN s = 1 .. Len(s)
      /\ \A i \in DOMAIN s : s[i] \in ToSet(s)
  BY CoOf
<1> DEFINE n == splitLocMOBefore(g, Loc(g, w), w, hb)
           range == SubSeq(s, n + 1, Len(s))
           plain == Kept(range, {e \in ToSet(range) : ~IsRMWWrite(g, e)})
           last == IF Len(s) = 0 THEN InitEvent ELSE s[Len(s)]
<1>3. n \in 0 .. Len(s)
  BY <1>2, SplitIn
<1>4. cos = IF IsRMWWrite(g, w) THEN <<g.lab[<<w[1], w[2] - 1>>].rf>> ELSE RightBefore(g, plain) \o <<last>>
  BY <1>1 DEF CoherentPlacings
<1>5. CASE IsRMWWrite(g, w)
  <2>1. g.lab[<<w[1], w[2] - 1>>].rf \in R
    BY <1>5 DEF IsRMWWrite
  <2> HIDE DEF R
  <2> QED BY <1>4, <1>5, <2>1 DEF R
<1>6. CASE ~IsRMWWrite(g, w)
  <2>1. last \in R
    BY <1>2 DEF StoresOf
  <2>2. \A e \in ToSet(s) : CoBefore(g, e) \in R
    BY CoBeforeIn
  <2> HIDE DEF n, s, R, last
  <2>3. range \in Seq(ToSet(s))
    BY <1>2, <1>3
  <2> DEFINE T == {e \in ToSet(range) : ~IsRMWWrite(g, e)}
  <2> HIDE DEF range, T
  <2>4. plain \in Seq(ToSet(s))
    <3>1. Kept(range, T) \in Seq(ToSet(s) \cap T)
      BY <2>3, KeptProperties
    <3> QED BY <3>1 DEF T
  <2> HIDE DEF plain
  <2>5. RightBefore(g, plain) \in Seq(R)
    <3>1. \A i \in DOMAIN plain : CoBefore(g, plain[i]) \in R
      BY <2>2, <2>4
    <3>2. DOMAIN plain = 1 .. Len(plain) /\ Len(plain) \in Nat
      BY <2>4
    <3> QED BY <3>1, <3>2 DEF RightBefore
  <2> DEFINE a == RightBefore(g, plain)
  <2> HIDE DEF a
  <2>6. a \in Seq(R) /\ cos = a \o <<last>>
    BY <1>4, <1>6, <2>5 DEF a
  <2>7. cos \in Seq(R) /\ Len(cos) = Len(a) + 1 /\ Len(a) \in Nat
    BY <2>1, <2>6
  <2>8. cos # <<>>
    BY <2>7
  <2> QED BY <2>7, <2>8 DEF R
<1> QED BY <1>5, <1>6

(* The items for the choices. *)
LEMMA AlternativesAre ==
  ASSUME NEW kind, NEW e, NEW R, NEW choices \in Seq(R)
  PROVE  LET q == Alternatives(kind, e, choices)
         IN IsSeq(q) /\ \A j \in DOMAIN q : q[j].kind = kind /\ q[j].pos = e
<1> DEFINE q == Alternatives(kind, e, choices)
           n == Len(choices)
<1>1. n \in Nat /\ q = [j \in 1 .. n |-> Item(kind, e, choices[j])]
  BY DEF Alternatives
<1> HIDE DEF q, n
<1>2. DOMAIN q = 1 .. n
  BY <1>1
<1>3. q = [j \in 1 .. n |-> q[j]] /\ \A j \in 1 .. n : q[j] \in ToSet(q)
  BY <1>1, <1>2 DEF ToSet
<1>4. IsSeq(q)
  BY <1>1, <1>3 DEF IsSeq
<1>5. \A j \in DOMAIN q : q[j].kind = kind /\ q[j].pos = e
  BY <1>1 DEF Item
<1> QED BY <1>4, <1>5 DEF q

(* Pushing the alternatives of a load or a store. *)
LEMMA PushAlternatives ==
  ASSUME NEW p, NEW g, NEW X, GraphOK(p, g, X), NEW items, ItemsOK(g, items), NEW kind \in {"RF", "CO"}, NEW e,
         Youngest(g, e), NEW R, NEW choices \in Seq(R), \A w \in R : ItemOK(g, Item(kind, e, w))
  PROVE  ItemsOK(g, items \o Alternatives(kind, e, choices))
<1> DEFINE more == Alternatives(kind, e, choices)
           M == {Item(kind, e, w) : w \in R}
<1>1. DOMAIN choices = 1 .. Len(choices) /\ Len(choices) \in Nat
  OBVIOUS
<1>2. more = [j \in 1 .. Len(choices) |-> Item(kind, e, choices[j])]
  BY <1>1 DEF Alternatives
<1>3. \A j \in 1 .. Len(choices) : Item(kind, e, choices[j]) \in M
  BY <1>1
<1>4. \A i \in M : ItemOK(g, i) /\ CutEvent(i) = e
  BY DEF CutEvent, Item
<1> HIDE DEF M, more
<1>5. more \in Seq(M)
  BY <1>1, <1>2, <1>3
<1>6. IsSeq(more) /\ \A j \in DOMAIN more : ItemOK(g, more[j]) /\ CutEvent(more[j]) = e
  BY <1>4, <1>5, SeqFacts
<1> QED BY <1>6, PushItems DEF more

(******************************* The handlers ******************************)

(* What a handler leaves behind. *)
Handles(p, c) ==
    /\ ContextOK(p, c)
    /\ c.internal = NoError => NoDangling(c.x.graph) \/ (c.moot /\ ErrorLast(c.x))

(* A handler goes on with another graph. *)
LEMMA SetGraphOK ==
  ASSUME NEW p, NEW d, ContextOK(p, d), NEW h, GraphOK(p, h, {}), Joins(h), ItemsOK(h, d.x.workqueue)
  PROVE  LET c == SetGraph(d, h)
         IN /\ ContextOK(p, c) /\ c.x.graph = h /\ c.x.workqueue = d.x.workqueue
            /\ c.moot = d.moot /\ c.internal = d.internal /\ c.st = d.st /\ c.warned = d.warned
<1> DEFINE c == SetGraph(d, h)
<1>1. DOMAIN d.x = {"graph", "workqueue"} /\ DOMAIN d = {"x", "st", "moot", "warned", "internal"}
  BY DEF ContextOK, ExecOK
<1>2. c = [d EXCEPT !.x = [d.x EXCEPT !.graph = h]]
  BY DEF SetGraph
<1>3. [d.x EXCEPT !.graph = h] = [graph |-> h, workqueue |-> d.x.workqueue]
  BY <1>1
<1>4. /\ c.x = [graph |-> h, workqueue |-> d.x.workqueue] /\ DOMAIN c = DOMAIN d
      /\ c.moot = d.moot /\ c.internal = d.internal /\ c.st = d.st /\ c.warned = d.warned
  BY <1>1, <1>2, <1>3
<1> HIDE DEF c
<1>5. c.x.graph = h /\ c.x.workqueue = d.x.workqueue /\ DOMAIN c.x = {"graph", "workqueue"}
  BY <1>4
<1> QED BY <1>1, <1>4, <1>5 DEF ContextOK, ExecOK, c

(* A read that has a store and nothing after it. *)
ReadAtEnd(g, r, ins) ==
    /\ r \in Events(g) /\ g.lab[r].typ = "R" /\ IsLast(g, r)
    /\ g.lab[r].ins = ins /\ g.lab[r].rf \in StoresOf(g, r)

(* The store that a load reads, and the items for the others. *)
Choice(p, x, r, stores, i, h, q) ==
    /\ h = updateLabelViews(setRf(x.graph, r, stores[i]), r) /\ StoreRead(p, x, h, r, stores[i])
    /\ r \in Events(h) /\ h.lab[r].typ = "R" /\ IsLast(h, r) /\ IsNewest(h, r)
    /\ h.lab[r].ins = x.graph.lab[r].ins /\ StoresOf(h, r) = StoresOf(x.graph, r)
    /\ q = Alternatives("RF", r, Reverse(SubSeq(stores, i + 1, Len(stores))))
    /\ IsSeq(q) /\ \A j \in DOMAIN q : q[j].kind = "RF" /\ q[j].pos = r
    /\ ItemsOK(h, x.workqueue \o q)
    /\ readOneOf(x, r, stores, i) = [graph |-> BlockIfAnnotFails(h, r), workqueue |-> x.workqueue \o q]

(* readOneOf() makes such a choice. *)
LEMMA ReadChoice ==
  ASSUME CheckerOK, NEW p, NEW x, ExecOK(p, x), NEW r, IsNewest(x.graph, r), r[2] > 0,
         x.graph.lab[r].typ = "R", IsLast(x.graph, r),
         NEW stores \in Seq(StoresOf(x.graph, r)), NEW i \in DOMAIN stores
  PROVE  \E h, q : Choice(p, x, r, stores, i, h, q)
<1> DEFINE g == x.graph
           R == StoresOf(g, r)
           w == stores[i]
           h == updateLabelViews(setRf(g, r, w), r)
           choices == Reverse(SubSeq(stores, i + 1, Len(stores)))
           q == Alternatives("RF", r, choices)
<1>1. readOneOf(x, r, stores, i) = [graph |-> BlockIfAnnotFails(h, r), workqueue |-> x.workqueue \o q]
  BY DEF readOneOf, ReadFrom
<1>2. GraphOK(p, g, {}) /\ Joins(g) /\ ItemsOK(g, x.workqueue) /\ r \in Events(g)
  BY DEF ExecOK, IsNewest
<1>3. w \in StoresOf(x.graph, r)
  OBVIOUS
<1>4. choices \in Seq(R)
  <2> DEFINE s == SubSeq(stores, i + 1, Len(stores))
  <2>1. s \in Seq(R)
    OBVIOUS
  <2>2. choices = [k \in 1 .. Len(s) |-> s[Len(s) - k + 1]]
    BY DEF Reverse
  <2> HIDE DEF s, R, choices
  <2>3. \A k \in 1 .. Len(s) : s[Len(s) - k + 1] \in R
    <3>1. DOMAIN s = 1 .. Len(s) /\ Len(s) \in Nat
      BY <2>1
    <3> TAKE k \in 1 .. Len(s)
    <3>2. Len(s) - k + 1 \in DOMAIN s
      BY <3>1
    <3> QED BY <2>1, <3>2
  <2>4. Len(s) \in Nat
    BY <2>1
  <2> QED BY <2>3, <2>2, <2>4
<1> HIDE DEF w, choices
<1>5. StoreRead(p, x, h, r, w)
  BY <1>2, <1>3, ReadStoreOK
<1>6. h = updateLabelViews(setRf(x.graph, r, stores[i]), r)
  BY DEF w
<1> HIDE DEF h
<1>7. GraphOK(p, h, {}) /\ ItemsOK(h, x.workqueue) /\ SameText(g, h) /\ h.co = g.co
  BY <1>5 DEF StoreRead
<1>8. /\ r \in Events(h) /\ h.lab[r].typ = "R" /\ IsLast(h, r) /\ IsNewest(h, r)
      /\ h.lab[r].ins = g.lab[r].ins /\ StoresOf(h, r) = R
  BY <1>2, <1>7 DEF SameText, IsLast, IsNewest, Stamp, StoresOf, Loc
<1>9. ItemsOK(h, x.workqueue \o q)
  <2>1. Youngest(h, r)
    BY <1>8, NewestYoungest
  <2>2. ASSUME NEW s \in R PROVE ItemOK(h, Item("RF", r, s))
    <3> DEFINE item == Item("RF", r, s)
    <3>1. item.kind = "RF" /\ item.pos = r /\ item.rev = s
      BY DEF Item
    <3> HIDE DEF item
    <3>2. CutEvent(item) = r
      BY <3>1 DEF CutEvent
    <3>3. /\ s \in Events(h)
          /\ s = InitEvent \/ (h.lab[s].typ = "W" /\ s[2] > 0)
      BY <1>7, <1>8, <2>2, StoresAre
    <3>4. Stamp(h, r) <= Stamp(h, r) /\ Stamp(h, s) <= Stamp(h, r)
      BY <1>8, <3>3 DEF IsNewest
    <3> HIDE DEF R
    <3> QED BY <1>8, <2>2, <3>1, <3>2, <3>3, <3>4 DEF ItemOK, ItemKinds, item
  <2> HIDE DEF R, q
  <2>3. ItemsOK(h, x.workqueue \o Alternatives("RF", r, choices))
    BY <1>4, <1>7, <2>1, <2>2, PushAlternatives
  <2> QED BY <2>3 DEF q
<1>10. IsSeq(q) /\ \A j \in DOMAIN q : q[j].kind = "RF" /\ q[j].pos = r
  BY <1>4, AlternativesAre
<1>11. q = Alternatives("RF", r, Reverse(SubSeq(stores, i + 1, Len(stores))))
  BY DEF choices
<1> HIDE DEF q
<1>12. Choice(p, x, r, stores, i, h, q)
  BY <1>1, <1>5, <1>6, <1>8, <1>9, <1>10, <1>11 DEF Choice, w
<1> QED BY <1>12

(* A load whose value fails its assume() blocks its thread. *)
BlockedBy(p, g, h, l) ==
    /\ GraphOK(p, h, {}) /\ Appended(g, h, l) /\ h = add(g, l)
    /\ DOMAIN l = LabelFields /\ l.typ = "B" /\ l.ins.op = "R" /\ l.revisitable

(* BlockIfAnnotFails blocks the thread like this or does nothing. *)
LEMMA BlockedAfterRead ==
  ASSUME NEW p, NEW g, GraphOK(p, g, {}), NEW r \in Events(g), g.lab[r].typ = "R", IsLast(g, r)
  PROVE  LET h == BlockIfAnnotFails(g, r)
         IN h = g \/ (g.lab[r].ins.op = "R" /\ \E l : BlockedBy(p, g, h, l))
<1> DEFINE h == BlockIfAnnotFails(g, r)
           ins == g.lab[r].ins
           l == NewLabel(<<r[1], r[2] + 1>>, "B", g.lab[r].ip + 1, ins, 0)
<1>1. CASE ~(Ipr /\ ReadBlocks(g, r))
  BY <1>1 DEF BlockIfAnnotFails
<1>2. CASE Ipr /\ ReadBlocks(g, r)
  <2>1. r[2] = LastIndex(g, r[1]) /\ r[1] \in Nat /\ r[2] \in Nat /\ r = <<r[1], r[2]>>
    BY LastIndexIsLast, ThreadOf
  <2>2. h = add(g, l)
    BY <1>2, <2>1 DEF BlockIfAnnotFails, blockThread
  <2>3. /\ DOMAIN l = LabelFields /\ l.typ = "B" /\ l.ins = ins /\ l.ip = g.lab[r].ip + 1
        /\ l.rf = Bottom /\ l.pos = <<r[1], r[2] + 1>> /\ l.revisitable
    BY LabelFieldsAre DEF NewLabel
  <2>4. ins.op = "R" /\ g.lab[r].ip \in Nat
    BY <1>2 DEF ReadBlocks, GraphOK, Texts
  <2> HIDE DEF l, ins
  <2>5. l.pos[1] = r[1] /\ l.pos[2] = r[2] + 1 /\ <<l.pos[1], l.pos[2] - 1>> = r /\ l.pos = <<l.pos[1], l.pos[2]>>
    BY <2>1, <2>3
  <2>6. l.pos \notin Events(g)
    <3>1. l.pos \in Events(g) => r[2] + 1 <= r[2]
      BY <2>5 DEF IsLast
    <3> QED BY <2>1, <3>1
  <2>7. Extends(p, g, l)
    <3> DEFINE before == <<l.pos[1], l.pos[2] - 1>>
    <3>1. before = r
      BY <2>5
    <3>2. l.pos[1] \in Nat /\ l.pos[2] \in Nat \ {0}
      BY <2>1, <2>5
    <3> HIDE DEF before
    <3>3. before \in Events(g) /\ IsLast(g, before) /\ g.lab[before].typ \notin {"B", "TF"}
      BY <3>1
    <3> QED BY <2>3, <2>5, <3>2, <3>3 DEF Extends, EventTypes, before
  <2>8. LabelOK(p, g, l)
    BY <2>3, <2>4 DEF LabelOK
  <2>9. GraphOK(p, h, {}) /\ Appended(g, h, l)
    BY <2>2, <2>3, <2>6, <2>7, <2>8, BlockAppends
  <2> HIDE DEF h
  <2>10. BlockedBy(p, g, h, l)
    BY <2>2, <2>3, <2>4, <2>9 DEF BlockedBy
  <2> QED BY <2>4, <2>10 DEF h, ins
<1> QED BY <1>1, <1>2

(* A load reads one of its stores and the others are pushed. *)
LEMMA ReadOneOfOK ==
  ASSUME CheckerOK, NEW p, NEW x, ExecOK(p, x), NEW r, IsNewest(x.graph, r), r[2] > 0,
         x.graph.lab[r].typ = "R", IsLast(x.graph, r),
         NEW stores \in Seq(StoresOf(x.graph, r)), NEW i \in DOMAIN stores, NEW w, w = stores[i],
         \A e \in Reads(x.graph) \ {r} : x.graph.lab[e].ins.mo # "na" => x.graph.lab[e].rf # Bottom
  PROVE  LET y == readOneOf(x, r, stores, i)
         IN /\ ExecOK(p, y) /\ NoDangling(y.graph)
            /\ x.graph.lab[r].ins.op # "R" => ReadAtEnd(y.graph, r, x.graph.lab[r].ins)
<1> DEFINE g == x.graph
           y == readOneOf(x, r, stores, i)
<1>1. PICK h, q : Choice(p, x, r, stores, i, h, q)
  BY ReadChoice
<1> DEFINE b == BlockIfAnnotFails(h, r)
<1>2. y.graph = b /\ y.workqueue = x.workqueue \o q /\ DOMAIN y = {"graph", "workqueue"}
  <2>1. y = [graph |-> b, workqueue |-> x.workqueue \o q]
    BY <1>1 DEF Choice
  <2> HIDE DEF y, b
  <2> QED BY <2>1
<1>3. /\ GraphOK(p, h, {}) /\ Joins(h) /\ ItemsOK(h, x.workqueue \o q) /\ SameText(g, h)
      /\ h.lab[r].rf = w /\ w # Bottom
      /\ \A e \in Events(g) \ {r} : h.lab[e].rf = g.lab[e].rf
  BY <1>1 DEF Choice, StoreRead
<1>4. /\ r \in Events(h) /\ h.lab[r].typ = "R" /\ IsLast(h, r)
      /\ h.lab[r].ins = g.lab[r].ins /\ StoresOf(h, r) = StoresOf(g, r)
  BY <1>1 DEF Choice
<1>5. NoDangling(h)
  <2>1. h.lab[r].rf = w /\ w # Bottom /\ \A e \in Events(g) \ {r} : h.lab[e].rf = g.lab[e].rf
    BY <1>3
  <2> QED BY <1>3, <2>1 DEF NoDangling, SameText, Reads, OfType
<1>6. b = h \/ (h.lab[r].ins.op = "R" /\ \E l : BlockedBy(p, h, b, l))
  BY <1>3, <1>4, BlockedAfterRead
<1> HIDE DEF b, y
<1>7. CASE b = h
  <2>1. w \in StoresOf(g, r)
    OBVIOUS
  <2>2. ExecOK(p, y) /\ NoDangling(y.graph)
    BY <1>2, <1>3, <1>5, <1>7 DEF ExecOK
  <2>3. ReadAtEnd(y.graph, r, g.lab[r].ins)
    BY <1>2, <1>3, <1>4, <1>7, <2>1 DEF ReadAtEnd
  <2> QED BY <2>2, <2>3 DEF y
<1>8. CASE h.lab[r].ins.op = "R" /\ \E l : BlockedBy(p, h, b, l)
  <2>1. PICK l : BlockedBy(p, h, b, l)
    BY <1>8
  <2> DEFINE z == [graph |-> h, workqueue |-> x.workqueue \o q]
  <2>2. z.graph = h /\ z.workqueue = x.workqueue \o q /\ ExecOK(p, z)
    BY <1>3 DEF ExecOK
  <2> HIDE DEF z
  <2>3. GraphOK(p, b, {}) /\ Appended(z.graph, b, l) /\ l.typ = "B" /\ l.ins.op = "R"
    BY <2>1, <2>2 DEF BlockedBy
  <2>4. ItemsOK(b, z.workqueue) /\ Joins(b) /\ NoDangling(b)
    BY <1>5, <2>2, <2>3, AppendedExec
  <2>5. ExecOK(p, y) /\ NoDangling(y.graph)
    BY <1>2, <2>2, <2>3, <2>4 DEF ExecOK
  <2> QED BY <1>4, <1>8, <2>5 DEF y
<1> QED BY <1>6, <1>7, <1>8

(* findConsistentRf() chooses one of the stores. *)
LEMMA FindConsistentRfIn ==
  ASSUME NEW g, NEW r, NEW R, NEW stores \in Seq(R), stores # <<>>
  PROVE  findConsistentRf(g, r, stores) \in DOMAIN stores
<1> DEFINE S == {i \in DOMAIN stores : i = Len(stores) \/ isExecutionValid(setRf(g, r, stores[i]), r)}
<1>1. Len(stores) \in Nat \ {0} /\ DOMAIN stores = 1 .. Len(stores)
  OBVIOUS
<1>2. Len(stores) \in S /\ S \subseteq Nat
  BY <1>1
<1>3. findConsistentRf(g, r, stores) = Min(S)
  BY DEF findConsistentRf
<1> DEFINE D == DOMAIN stores
<1>4. S \subseteq D
  OBVIOUS
<1> HIDE DEF S
<1>5. Min(S) \in S
  BY <1>2, MinIn
<1> QED BY <1>3, <1>4, <1>5

(* A label is added to the graph. *)
LEMMA AddedContext ==
  ASSUME NEW p, NEW d, ContextOK(p, d), NEW h, NEW l, GraphOK(p, h, {}), Appended(d.x.graph, h, l),
         l.typ # "TF", l.typ = "B" => l.ins.op # "JOIN"
  PROVE  LET c == SetGraph(d, h)
         IN /\ ContextOK(p, c) /\ c.x.graph = h
            /\ c.moot = d.moot /\ c.internal = d.internal /\ c.st = d.st /\ c.warned = d.warned
            /\ l.typ # "R" /\ NoDangling(d.x.graph) => NoDangling(h)
<1> DEFINE c == SetGraph(d, h)
<1>1. ExecOK(p, d.x)
  BY DEF ContextOK
<1>2. ItemsOK(h, d.x.workqueue) /\ Joins(h) /\ (l.typ # "R" /\ NoDangling(d.x.graph) => NoDangling(h))
  BY <1>1, AppendedExec
<1>3. /\ ContextOK(p, c) /\ c.x.graph = h
      /\ c.moot = d.moot /\ c.internal = d.internal /\ c.st = d.st /\ c.warned = d.warned
  BY <1>2, SetGraphOK
<1> HIDE DEF c
<1> QED BY <1>2, <1>3 DEF c

(* A load is added to the graph and checked. *)
AddedLoad(d, l) ==
    LET d1 == SetGraph(d, addLabelToGraph(d.x.graph, l))
    IN Checked(d1, l.pos, LoadError(d1.x.graph, d1.st, l.pos))
(* The load of label l was added last and has no store; all other atomic    *)
(* loads have one.                                                          *)
LoadAtHand(g, l) ==
    /\ IsNewest(g, l.pos) /\ l.pos[2] > 0 /\ IsLast(g, l.pos)
    /\ g.lab[l.pos].typ = "R" /\ g.lab[l.pos].ins = l.ins /\ g.lab[l.pos].rf = Bottom
    /\ \A e \in Reads(g) \ {l.pos} : g.lab[e].ins.mo # "na" => g.lab[e].rf # Bottom

(* A load's label is added and checked. *)
LEMMA LoadCheckedOK ==
  ASSUME CheckerOK, NEW p, NEW d, ContextOK(p, d), ~d.moot, NoDangling(d.x.graph),
         NEW l, LabelOK(p, d.x.graph, l), Extends(p, d.x.graph, l), l.pos \notin Events(d.x.graph), l.typ = "R"
  PROVE  LET c == AddedLoad(d, l)
         IN /\ ContextOK(p, c) /\ c.internal = d.internal
            /\ c.moot => ErrorLast(c.x)
            /\ LoadAtHand(c.x.graph, l)
<1> DEFINE r == l.pos
           g == d.x.graph
           h == addLabelToGraph(g, l)
           d1 == SetGraph(d, h)
           c == Checked(d1, r, LoadError(d1.x.graph, d1.st, r))
           k == c.x.graph
<1>1. GraphOK(p, g, {}) /\ d.moot \in BOOLEAN
  BY DEF ContextOK, ExecOK
<1>2. GraphOK(p, h, {}) /\ Appended(g, h, l)
  BY <1>1, LabelAppends
<1>3. IsLast(h, r) /\ r[2] > 0
  BY <1>1, <1>2, AppendedLast
<1> HIDE DEF h
<1>4. /\ IsNewest(h, r) /\ h.lab[r].typ = "R" /\ h.lab[r].ins = l.ins /\ h.lab[r].rf = Bottom
      /\ \A e \in Events(h) \ {r} : e \in Events(g) /\ h.lab[e] = g.lab[e]
  BY <1>2 DEF Appended, LabelOK
<1>5. \A e \in Reads(h) \ {r} : h.lab[e].ins.mo # "na" => h.lab[e].rf # Bottom
  BY <1>4 DEF NoDangling, Reads, OfType
<1>6. /\ ContextOK(p, d1) /\ d1.x.graph = h /\ d1.moot = d.moot /\ d1.internal = d.internal
  BY <1>2, AddedContext
<1> HIDE DEF d1
<1>7. AtHand(d1.x.graph, r)
  BY <1>3, <1>4, <1>6 DEF AtHand
<1>8. Reported(p, d1, c)
  BY <1>6, <1>7, CheckedOK
<1> HIDE DEF c
<1>9. ContextOK(p, c) /\ SameReads(h, k) /\ c.internal = d.internal /\ (c.moot => ErrorLast(c.x))
  BY <1>1, <1>6, <1>8 DEF Reported
<1> HIDE DEF k
<1>10. /\ IsNewest(k, r) /\ IsLast(k, r)
       /\ k.lab[r].typ = "R" /\ k.lab[r].ins = l.ins /\ k.lab[r].rf = Bottom
       /\ \A e \in Reads(k) \ {r} : k.lab[e].ins.mo # "na" => k.lab[e].rf # Bottom
  BY <1>3, <1>4, <1>5, <1>9 DEF SameReads, SameText, IsNewest, IsLast, Stamp, Reads, OfType
<1> QED BY <1>3, <1>9, <1>10 DEF AddedLoad, LoadAtHand, c, d1, h, k

(* handleLoad() keeps the invariant. An RMW's read has a store unless the   *)
(* execution was given up.                                                  *)
LEMMA LoadOK ==
  ASSUME CheckerOK, NEW p, NEW d, ContextOK(p, d), ~d.moot, d.internal = NoError, NoDangling(d.x.graph),
         NEW l, LabelOK(p, d.x.graph, l), Extends(p, d.x.graph, l), l.pos \notin Events(d.x.graph), l.typ = "R"
  PROVE  LET c == handleLoad(d, l)
             g == c.x.graph
         IN /\ Handles(p, c)
            /\ ~c.moot /\ c.internal = NoError /\ l.ins.op # "R" => NoDangling(g) /\ ReadAtEnd(g, l.pos, l.ins)
<1> DEFINE r == l.pos
           d2 == AddedLoad(d, l)
           c == handleLoad(d, l)
<1>1. /\ ContextOK(p, d2) /\ d2.internal = NoError /\ (d2.moot => ErrorLast(d2.x))
      /\ IsNewest(d2.x.graph, r) /\ r[2] > 0 /\ IsLast(d2.x.graph, r)
      /\ d2.x.graph.lab[r].typ = "R" /\ d2.x.graph.lab[r].ins = l.ins
      /\ \A e \in Reads(d2.x.graph) \ {r} : d2.x.graph.lab[e].ins.mo # "na" => d2.x.graph.lab[e].rf # Bottom
  BY LoadCheckedOK DEF LoadAtHand
<1>2. c = LoadChecked(d2, r)
  BY DEF handleLoad, LoadAdded, AddedLoad
<1> HIDE DEF d2, c
<1>3. CASE d2.moot
  <2>1. c = d2
    BY <1>2, <1>3 DEF LoadChecked
  <2> QED BY <1>1, <1>3, <2>1 DEF Handles, c
<1>4. CASE ~d2.moot
  <2> DEFINE stores == StoresToRead(d2.x.graph, r)
             st == onATLoad(d2.st, r, Loc(d2.x.graph, r), HbView(d2.x.graph, r))
             d3 == [d2 EXCEPT !.st = st]
             y == readOneOf(d2.x, r, stores, findConsistentRf(d2.x.graph, r, stores))
  <2>1. c = ReadConsistent(d3, r, stores)
    BY <1>2, <1>4 DEF LoadChecked
  <2> HIDE DEF stores, st
  <2>2. /\ DOMAIN d3 = {"x", "st", "moot", "warned", "internal"} /\ d3.x = d2.x /\ d3.moot = d2.moot
        /\ d3.warned = d2.warned /\ d3.internal = NoError
    BY <1>1 DEF ContextOK
  <2> HIDE DEF d3
  <2>3. CASE stores = <<>>
    <3>1. c = [d3 EXCEPT !.internal = "noStore"]
      BY <2>1, <2>3 DEF ReadConsistent
    <3>2. /\ DOMAIN c = {"x", "st", "moot", "warned", "internal"} /\ c.x = d2.x /\ c.moot = d2.moot
          /\ c.warned = d2.warned /\ c.internal = "noStore"
      BY <2>2, <3>1
    <3>3. c.internal # NoError
      BY <3>2 DEF NoError
    <3> QED BY <1>1, <3>2, <3>3 DEF Handles, ContextOK, c
  <2>4. CASE stores # <<>>
    <3>1. c = [d3 EXCEPT !.x = y]
      BY <2>1, <2>2, <2>4 DEF ReadConsistent
    <3>2. stores \in Seq(StoresOf(d2.x.graph, r))
      <4>1. GraphOK(p, d2.x.graph, {}) /\ r \in Events(d2.x.graph)
        BY <1>1 DEF ContextOK, ExecOK, IsNewest
      <4> QED BY <1>1, <4>1, CoherentStoresOK DEF stores
    <3>3. findConsistentRf(d2.x.graph, r, stores) \in DOMAIN stores
      BY <2>4, <3>2, FindConsistentRfIn
    <3> DEFINE i == findConsistentRf(d2.x.graph, r, stores)
    <3> HIDE DEF i
    <3>4. /\ ExecOK(p, y) /\ NoDangling(y.graph)
          /\ l.ins.op # "R" => ReadAtEnd(y.graph, r, l.ins)
      <4>1. ExecOK(p, d2.x) /\ i \in DOMAIN stores /\ y = readOneOf(d2.x, r, stores, i)
        BY <1>1, <3>3 DEF ContextOK, i
      <4> HIDE DEF y
      <4>2. PICK w : w = stores[i]
        OBVIOUS
      <4>3. ExecOK(p, y) /\ NoDangling(y.graph)
        BY <1>1, <3>2, <4>1, <4>2, ReadOneOfOK
      <4> QED BY <1>1, <3>2, <4>1, <4>2, <4>3, ReadOneOfOK
    <3> HIDE DEF y
    <3>5. /\ DOMAIN c = {"x", "st", "moot", "warned", "internal"} /\ c.x = y /\ c.moot = d2.moot
          /\ c.warned = d2.warned /\ c.internal = NoError
      BY <2>2, <3>1
    <3> QED BY <1>1, <3>4, <3>5 DEF Handles, ContextOK, c
  <2> QED BY <2>3, <2>4
<1> QED BY <1>3, <1>4

(* handleNALoad() keeps the invariant. The load's prefix is the one it had  *)
(* before it got a store.                                                   *)
LEMMA NALoadHandlerOK ==
  ASSUME CheckerOK, NEW p, NEW d, ContextOK(p, d), ~d.moot, d.internal = NoError, NoDangling(d.x.graph),
         NEW l, LabelOK(p, d.x.graph, l), Extends(p, d.x.graph, l), l.pos \notin Events(d.x.graph), l.typ = "R",
         l.ins.mo = "na"
  PROVE  Handles(p, handleNALoad(d, l))
<1> DEFINE r == l.pos
           d2 == AddedLoad(d, l)
           c == handleNALoad(d, l)
           g == d2.x.graph
<1>1. /\ ContextOK(p, d2) /\ d2.internal = NoError /\ (d2.moot => ErrorLast(d2.x))
      /\ IsNewest(g, r) /\ r[2] > 0 /\ IsLast(g, r)
      /\ g.lab[r].typ = "R" /\ g.lab[r].ins = l.ins /\ g.lab[r].rf = Bottom
      /\ \A e \in Reads(g) \ {r} : g.lab[e].ins.mo # "na" => g.lab[e].rf # Bottom
  BY LoadCheckedOK DEF LoadAtHand
<1>2. c = NALoadChecked(d2, r)
  BY DEF handleNALoad, NALoadAdded, AddedLoad
<1> HIDE DEF d2, c
<1>3. CASE d2.moot
  <2>1. c = d2
    BY <1>2, <1>3 DEF NALoadChecked
  <2> QED BY <1>1, <1>3, <2>1 DEF Handles, c
<1>4. CASE ~d2.moot
  <2> DEFINE w == co_max(g, Loc(g, r))
             h == setRf(g, r, w)
             st == onNALoad(d2.st, r, Loc(g, r), HbView(g, r))
  <2>1. c = [d2 EXCEPT !.st = st, !.x.graph = h]
    BY <1>2, <1>4 DEF NALoadChecked
  <2>2. GraphOK(p, g, {}) /\ ItemsOK(g, d2.x.workqueue) /\ Joins(g) /\ DOMAIN d2.x = {"graph", "workqueue"}
    BY <1>1 DEF ContextOK, ExecOK
  <2>3. r \in Events(g) /\ r \in Reads(g) /\ g.lab[r].ins.mo = "na"
    BY <1>1 DEF IsNewest, Reads, OfType
  <2> HIDE DEF g
  <2>4. w \in StoresOf(g, r)
    BY <1>1, <2>2, <2>3, CoMaxIsStore
  <2> HIDE DEF w, st
  <2>5. SetsRf(g, h, r, w)
    BY <2>2, <2>3, SetRfSets
  <2> HIDE DEF h
  <2>6. GraphOK(p, h, {})
    BY <1>1, <2>2, <2>3, <2>4, <2>5, NALoadOK
  <2>7. Joins(h) /\ ItemsOK(h, d2.x.workqueue)
    <3>1. Keeps(g, h, Events(g)) /\ SameText(g, h)
      BY <1>1, <2>5, SetsRfKeeps DEF SetsRf
    <3> QED BY <2>2, <3>1, KeptAll, SameTextJoins
  <2>8. NoDangling(h)
    BY <1>1, <2>3, <2>5 DEF SetsRf, SameText, NoDangling, Reads, OfType
  <2>9. /\ DOMAIN c = {"x", "st", "moot", "warned", "internal"} /\ c.x = [graph |-> h, workqueue |-> d2.x.workqueue]
        /\ c.moot = d2.moot /\ c.warned = d2.warned /\ c.internal = NoError
    <3>1. c = [d2 EXCEPT !.st = st, !.x = [d2.x EXCEPT !.graph = h]]
      BY <1>1, <2>1 DEF ContextOK
    <3>2. [d2.x EXCEPT !.graph = h] = [graph |-> h, workqueue |-> d2.x.workqueue]
      BY <2>2
    <3> QED BY <1>1, <3>1, <3>2 DEF ContextOK
  <2>10. c.x.graph = h /\ c.x.workqueue = d2.x.workqueue /\ DOMAIN c.x = {"graph", "workqueue"}
    BY <2>9
  <2> QED BY <1>1, <2>6, <2>7, <2>8, <2>9, <2>10 DEF Handles, ContextOK, ExecOK, c
<1> QED BY <1>3, <1>4

(* Changes of flags take no store away. *)
LEMMA SameReadsDangling ==
  ASSUME NEW g, NEW h, SameReads(g, h), NoDangling(g)
  PROVE  NoDangling(h)
BY DEF SameReads, SameText, NoDangling, Reads, OfType

(* Changes of flags leave the newest event the newest. *)
LEMMA SameReadsAtHand ==
  ASSUME NEW g, NEW h, SameReads(g, h), NEW e, AtHand(g, e)
  PROVE  AtHand(h, e) /\ h.lab[e].typ = g.lab[e].typ /\ h.co = g.co /\ Loc(h, e) = Loc(g, e)
BY DEF SameReads, SameText, AtHand, IsNewest, Stamp, Loc

(* A write that is not in coherence yet. *)
Placeable(g, w) == AtHand(g, w) /\ g.lab[w].typ = "W" /\ w \notin ToSet(g.co[Loc(g, w)])

(* A store at its place, with the items for the other places pushed. *)
IsPlaced(x, w, z) ==
    /\ NoDangling(z.graph) /\ CoGrows(x.graph, z.graph) /\ z.graph.lab = x.graph.lab
    /\ w \in Events(z.graph) /\ z.graph.lab[w].typ = "W" /\ w \in ToSet(z.graph.co[Loc(z.graph, w)])
    /\ IsNewest(z.graph, w) /\ Youngest(z.graph, w)
    /\ \E q : /\ IsSeq(q) /\ z.workqueue = x.workqueue \o q
             /\ \A j \in DOMAIN q : q[j].kind = "CO" /\ q[j].pos = w

(* A store is put after pred and the choices are pushed. *)
LEMMA PlacedOK ==
  ASSUME CheckerOK, NEW p, NEW x, ExecOK(p, x), NoDangling(x.graph), NEW w, Placeable(x.graph, w),
         NEW pred \in StoresOf(x.graph, w), NEW choices \in Seq(StoresOf(x.graph, w)),
         NEW z, z = [graph |-> addCo(x.graph, w, pred), workqueue |-> x.workqueue \o Alternatives("CO", w, choices)]
  PROVE  ExecOK(p, z) /\ IsPlaced(x, w, z)
<1> DEFINE g == x.graph
           R == StoresOf(g, w)
           m == addCo(g, w, pred)
           more == Alternatives("CO", w, choices)
           q == x.workqueue \o more
<1>2. GraphOK(p, g, {}) /\ Joins(g) /\ ItemsOK(g, x.workqueue)
  BY DEF ExecOK
<1>3. w \in Events(g) /\ w[2] > 0 /\ g.lab[w].typ = "W" /\ w \notin ToSet(g.co[Loc(g, w)]) /\ IsNewest(g, w)
  BY DEF Placeable, AtHand, IsNewest
<1>5. CoGrows(g, m) /\ GraphOK(p, m, {}) /\ w \in ToSet(m.co[Loc(g, w)]) /\ m.lab = g.lab
  BY <1>2, <1>3, AddCoOK
<1> HIDE DEF m
<1>6. SameText(g, m) /\ \A l \in Locs : ToSet(g.co[l]) \subseteq ToSet(m.co[l])
  BY <1>5 DEF CoGrows
<1>7. Joins(m) /\ ItemsOK(m, x.workqueue)
  <2>1. Keeps(g, m, Events(g))
    BY <1>5, CoGrowsKeeps
  <2> QED BY <1>2, <1>6, <2>1, SameTextJoins, KeptAll
<1>8. /\ w \in Events(m) /\ m.lab[w].typ = "W" /\ IsNewest(m, w) /\ Loc(m, w) = Loc(g, w)
      /\ w \in ToSet(m.co[Loc(m, w)]) /\ R \subseteq StoresOf(m, w) /\ NoDangling(m)
  <2>1. Loc(g, w) \in Locs
    BY <1>2, <1>3 DEF GraphOK, Texts, Loc
  <2>2. Loc(m, w) = Loc(g, w) /\ w \in Events(m) /\ m.lab[w].typ = "W" /\ IsNewest(m, w)
    BY <1>3, <1>5, <1>6 DEF Loc, Events, IsNewest, SameText, Stamp
  <2>3. NoDangling(m)
    BY <1>5 DEF NoDangling, Reads, OfType, Events
  <2> QED BY <1>5, <1>6, <2>1, <2>2, <2>3 DEF StoresOf
<1>9. Youngest(m, w)
  BY <1>8, NewestYoungest
<1>10. ItemsOK(m, q)
  <2>1. ASSUME NEW s \in R PROVE ItemOK(m, Item("CO", w, s))
    <3> DEFINE item == Item("CO", w, s)
    <3>1. item.kind = "CO" /\ item.pos = w /\ item.rev = s
      BY DEF Item
    <3> HIDE DEF item
    <3>2. CutEvent(item) = w
      BY <3>1 DEF CutEvent
    <3>3. s \in StoresOf(m, w) /\ s # w
      <4>1. w # InitEvent
        BY <1>3 DEF InitEvent
      <4> QED BY <1>3, <1>8, <2>1, <4>1 DEF StoresOf
    <3>4. s \in Events(m) /\ (s = InitEvent \/ (m.lab[s].typ = "W" /\ s[2] > 0))
      BY <1>5, <1>8, <3>3, StoresAre
    <3>5. Stamp(m, w) <= Stamp(m, w) /\ Stamp(m, s) <= Stamp(m, w)
      BY <1>8, <3>4 DEF IsNewest
    <3>6. w \in StoresOf(m, w)
      BY <1>8 DEF StoresOf
    <3> QED BY <1>3, <1>8, <3>1, <3>2, <3>3, <3>4, <3>5, <3>6 DEF ItemOK, ItemKinds, item
  <2> HIDE DEF R
  <2> QED BY <1>5, <1>7, <1>9, <2>1, PushAlternatives DEF R
<1>11. IsSeq(more) /\ \A j \in DOMAIN more : more[j].kind = "CO" /\ more[j].pos = w
  BY AlternativesAre
<1>12. DOMAIN z = {"graph", "workqueue"} /\ z.graph = m /\ z.workqueue = q
  BY DEF m
<1> HIDE DEF more
<1>13. z.workqueue = x.workqueue \o more
  BY <1>12
<1> HIDE DEF q, m
<1> QED BY <1>5, <1>7, <1>8, <1>9, <1>10, <1>11, <1>12, <1>13 DEF ExecOK, IsPlaced

(* A store is put at the last of its places, the others are pushed, and     *)
(* revisits are calculated.                                                 *)
LEMMA PlaceLastIs ==
  ASSUME CheckerOK, NEW p, NEW x, ExecOK(p, x), NoDangling(x.graph), NEW w, Placeable(x.graph, w),
         NEW cos \in Seq(StoresOf(x.graph, w)), cos # <<>>
  PROVE  \E z : ExecOK(p, z) /\ IsPlaced(x, w, z) /\ PlaceLast(x, w, cos) = calcRevisits(z, w)
<1> DEFINE R == StoresOf(x.graph, w)
           pred == Last(cos)
           choices == Front(cos)
           z == [graph |-> addCo(x.graph, w, pred), workqueue |-> x.workqueue \o Alternatives("CO", w, choices)]
<1>1. PlaceLast(x, w, cos) = calcRevisits(z, w)
  BY DEF PlaceLast
<1>2. pred \in R /\ choices \in Seq(R)
  <2> HIDE DEF R
  <2>1. cos \in Seq(R) /\ Len(cos) \in Nat \ {0}
    BY DEF R
  <2>2. choices = SubSeq(cos, 1, Len(cos) - 1) /\ pred = cos[Len(cos)]
    BY DEF Front, Last
  <2> QED BY <2>1, <2>2
<1> HIDE DEF pred, choices
<1>3. ExecOK(p, z) /\ IsPlaced(x, w, z)
  BY <1>2, PlacedOK
<1> QED BY <1>1, <1>3

(* So the execution stays OK, with the store still at hand. *)
LEMMA PlaceLastOK ==
  ASSUME CheckerOK, NEW p, ProgramOK(p), NEW x, ExecOK(p, x), NoDangling(x.graph), NEW w, Placeable(x.graph, w),
         NEW cos \in Seq(StoresOf(x.graph, w)), cos # <<>>
  PROVE  LET y == PlaceLast(x, w, cos)
         IN ExecOK(p, y) /\ NoDangling(y.graph) /\ AtHand(y.graph, w)
<1>1. PICK z : ExecOK(p, z) /\ IsPlaced(x, w, z) /\ PlaceLast(x, w, cos) = calcRevisits(z, w)
  BY PlaceLastIs
<1> DEFINE m == z.graph
           y == calcRevisits(z, w)
<1>2. /\ w \in Events(m) /\ m.lab[w].typ = "W" /\ IsNewest(m, w) /\ Youngest(m, w)
      /\ w \in ToSet(m.co[Loc(m, w)]) /\ NoDangling(m)
  BY <1>1 DEF IsPlaced
<1>3. w[2] > 0
  BY DEF Placeable, AtHand
<1>4. ExecOK(p, y) /\ Revisited(m, y.graph, w) /\ NoDangling(y.graph)
  BY <1>1, <1>2, CalcRevisitsOK
<1> HIDE DEF y
<1>5. AtHand(y.graph, w)
  <2> DEFINE k == y.graph
  <2>1. Events(k) \subseteq Events(m) /\ w \in Events(k) /\ Keeps(m, k, Events(k))
    BY <1>2, <1>4 DEF Revisited
  <2> HIDE DEF k
  <2>2. k.lab[w].typ = "W" /\ \A e \in Events(k) : Stamp(k, e) <= Stamp(k, w)
    BY <1>2, <2>1 DEF Keeps, IsNewest
  <2> QED BY <1>3, <2>1, <2>2 DEF AtHand, IsNewest, k
<1> QED BY <1>1, <1>4, <1>5 DEF y

(* The same, and a race is looked for. *)
LEMMA StorePlacedOK ==
  ASSUME CheckerOK, NEW p, ProgramOK(p), NEW d, ContextOK(p, d), NoDangling(d.x.graph), NEW w,
         Placeable(d.x.graph, w), NEW cos \in Seq(StoresOf(d.x.graph, w)), cos # <<>>
  PROVE  LET c == StorePlaced(d, w, cos) IN ContextOK(p, c) /\ NoDangling(c.x.graph)
<1> DEFINE y == PlaceLast(d.x, w, cos)
           d1 == [d EXCEPT !.x = y]
           d2 == StoreRaces(d1, w)
           st == onATStore(d2.st, w, Loc(d2.x.graph, w), HbView(d2.x.graph, w))
           c == [d2 EXCEPT !.st = st]
<1>1. c = StorePlaced(d, w, cos)
  BY DEF StorePlaced, StoreKnown
<1>2. ExecOK(p, y) /\ NoDangling(y.graph) /\ AtHand(y.graph, w)
  BY PlaceLastOK DEF ContextOK
<1> HIDE DEF y, st
<1>3. ContextOK(p, d1) /\ d1.x = y
  BY <1>2 DEF ContextOK
<1> HIDE DEF d1
<1>4. ContextOK(p, d2) /\ NoDangling(d2.x.graph)
  <2>1. CASE violatesAtomicity(d1.x.graph, w)
    <3>1. d2 = [d1 EXCEPT !.moot = TRUE]
      BY <2>1 DEF StoreRaces
    <3>2. ContextOK(p, d2) /\ d2.x = d1.x
      BY <1>3, <3>1 DEF ContextOK
    <3> HIDE DEF d2
    <3> QED BY <1>2, <1>3, <3>2
  <2>2. CASE ~violatesAtomicity(d1.x.graph, w)
    <3>1. d2 = checkForRaces(d1, w)
      BY <2>2 DEF StoreRaces
    <3>2. Reported(p, d1, d2)
      BY <1>2, <1>3, <3>1, RacesOK
    <3> HIDE DEF d2
    <3> QED BY <1>2, <1>3, <3>2, SameReadsDangling DEF Reported
  <2> QED BY <2>1, <2>2
<1> HIDE DEF d2
<1>5. ContextOK(p, c) /\ c.x = d2.x
  BY <1>4 DEF ContextOK
<1> HIDE DEF c
<1> QED BY <1>1, <1>4, <1>5

(* A write label is added to the graph. *)
LEMMA WriteAdded ==
  ASSUME CheckerOK, NEW p, NEW d, ContextOK(p, d), NoDangling(d.x.graph),
         NEW l, LabelOK(p, d.x.graph, l), Extends(p, d.x.graph, l), l.pos \notin Events(d.x.graph), l.typ = "W"
  PROVE  LET c == SetGraph(d, addLabelToGraph(d.x.graph, l))
         IN /\ ContextOK(p, c) /\ c.moot = d.moot /\ c.internal = d.internal
            /\ NoDangling(c.x.graph) /\ Placeable(c.x.graph, l.pos)
            /\ Appended(d.x.graph, c.x.graph, l)
<1> DEFINE g == d.x.graph
           w == l.pos
           h == addLabelToGraph(g, l)
           c == SetGraph(d, h)
<1>1. GraphOK(p, g, {})
  BY DEF ContextOK, ExecOK
<1>2. GraphOK(p, h, {}) /\ Appended(g, h, l)
  BY <1>1, LabelAppends
<1> HIDE DEF h
<1>3. ContextOK(p, c) /\ c.x.graph = h /\ c.moot = d.moot /\ c.internal = d.internal /\ NoDangling(h)
  BY <1>2, AddedContext
<1> HIDE DEF c
<1>4. w[2] > 0 /\ IsNewest(h, w) /\ h.lab[w].typ = "W" /\ h.lab[w].ins = l.ins /\ h.co = g.co
  BY <1>1, <1>2, AppendedLast DEF Appended
<1>5. w \notin ToSet(h.co[Loc(h, w)])
  <2>1. l.ins.loc \in Locs /\ Loc(h, w) = l.ins.loc
    BY <1>4 DEF LabelOK, Loc
  <2>2. g.co[l.ins.loc] \in Seq(Events(g))
    BY <1>1, <2>1 DEF GraphOK, CoherenceOK
  <2>3. ToSet(g.co[l.ins.loc]) \subseteq Events(g)
    BY <2>2, SeqFacts
  <2> QED BY <1>4, <2>1, <2>3
<1>6. Placeable(h, w)
  BY <1>4, <1>5 DEF Placeable, AtHand
<1> QED BY <1>2, <1>3, <1>6 DEF c, h

(* The write of an RMW comes after a read that has a store. *)
RMWHasStore(g, l) ==
    IsRMWOp(l.ins) => g.lab[<<l.pos[1], l.pos[2] - 1>>].rf \in {InitEvent} \cup ToSet(g.co[l.ins.loc])

(* handleStore() keeps the invariant. *)
LEMMA StoreOK ==
  ASSUME CheckerOK, NEW p, ProgramOK(p), NEW d, ContextOK(p, d), NoDangling(d.x.graph),
         NEW l, LabelOK(p, d.x.graph, l), Extends(p, d.x.graph, l), l.pos \notin Events(d.x.graph), l.typ = "W",
         RMWHasStore(d.x.graph, l)
  PROVE  Handles(p, handleStore(d, l))
<1> DEFINE g == d.x.graph
           w == l.pos
           d1 == SetGraph(d, addLabelToGraph(g, l))
           h == d1.x.graph
           err == StoreError(h, d1.st, w)
           cos == GetCoherentPlacings(h, w)
           d2 == IF Len(cos) > 1 THEN reportWarningOnce(d1, w) ELSE d1
           c == handleStore(d, l)
<1>1. c = IF err # NoError THEN reportError(d1, err) ELSE StorePlaced(d2, w, cos)
  BY DEF handleStore, StoreAdded, StoreWarned
<1>2. ContextOK(p, d1) /\ NoDangling(d1.x.graph) /\ Placeable(d1.x.graph, l.pos) /\ Appended(g, d1.x.graph, l)
  BY WriteAdded
<1> HIDE DEF d1
<1>3. GraphOK(p, h, {}) /\ AtHand(h, w) /\ w \in Events(h) /\ h.lab[w].typ = "W"
  BY <1>2 DEF ContextOK, ExecOK, Placeable, AtHand, IsNewest
<1>4. CASE err # NoError
  <2> HIDE DEF err
  <2>1. c = reportError(d1, err)
    BY <1>1, <1>4
  <2>2. ContextOK(p, reportError(d1, err)) /\ reportError(d1, err).x.graph = d1.x.graph
    BY <1>2, <1>3, <1>4, ReportErrorOK
  <2> HIDE DEF c
  <2> QED BY <1>2, <2>1, <2>2 DEF Handles, c
<1>5. CASE err = NoError
  <2>1. IsRMWOp(h.lab[w].ins) => h.lab[<<w[1], w[2] - 1>>].rf \in StoresOf(h, w)
    <3>1. h.lab[w].ins = l.ins /\ h.co = g.co /\ \A e \in Events(g) : h.lab[e] = g.lab[e]
      BY <1>2 DEF Appended
    <3>2. <<w[1], w[2] - 1>> \in Events(g)
      BY DEF Extends
    <3> HIDE DEF h, g
    <3> QED BY <3>1, <3>2 DEF RMWHasStore, StoresOf, Loc, g
  <2>2. cos \in Seq(StoresOf(h, w)) /\ cos # <<>>
    BY <1>3, <2>1, PlacingsOK
  <2>3. Reported(p, d1, d2)
    <3>1. CASE Len(cos) > 1
      BY <1>2, <1>3, <3>1, WarningOK
    <3>2. CASE ~(Len(cos) > 1)
      BY <1>2, <3>2, NothingReported
    <3> QED BY <3>1, <3>2
  <2>4. c = StorePlaced(d2, w, cos)
    BY <1>1, <1>5
  <2> HIDE DEF cos, d2, c, err
  <2>5. ContextOK(p, d2) /\ SameReads(h, d2.x.graph)
    BY <2>3 DEF Reported
  <2>6. NoDangling(d2.x.graph)
    BY <1>2, <2>5, SameReadsDangling
  <2>7. Placeable(d2.x.graph, w) /\ StoresOf(d2.x.graph, w) = StoresOf(h, w)
    <3>1. /\ AtHand(d2.x.graph, w) /\ d2.x.graph.lab[w].typ = h.lab[w].typ /\ d2.x.graph.co = h.co
          /\ Loc(d2.x.graph, w) = Loc(h, w)
      BY <1>3, <2>5, SameReadsAtHand
    <3> QED BY <1>2, <3>1 DEF Placeable, StoresOf
  <2>8. ContextOK(p, c) /\ NoDangling(c.x.graph)
    BY <2>2, <2>4, <2>5, <2>6, <2>7, StorePlacedOK
  <2> QED BY <2>8 DEF Handles, c
<1> QED BY <1>4, <1>5

(* handleNAStore() keeps the invariant. *)
LEMMA NAStoreOK ==
  ASSUME CheckerOK, NEW p, NEW d, ContextOK(p, d), NoDangling(d.x.graph),
         NEW l, LabelOK(p, d.x.graph, l), Extends(p, d.x.graph, l), l.pos \notin Events(d.x.graph), l.typ = "W"
  PROVE  Handles(p, handleNAStore(d, l))
<1> DEFINE g == d.x.graph
           w == l.pos
           d1 == SetGraph(d, addLabelToGraph(g, l))
           err == StoreError(d1.x.graph, d1.st, w)
           d2 == Checked(d1, w, err)
           k == d2.x.graph
           c == handleNAStore(d, l)
<1>1. c = NAStoreChecked(d2, w)
  BY DEF handleNAStore, NAStoreAdded
<1>2. ContextOK(p, d1) /\ NoDangling(d1.x.graph) /\ Placeable(d1.x.graph, l.pos)
  BY WriteAdded
<1> HIDE DEF d1, err
<1>3. Reported(p, d1, d2)
  BY <1>2, CheckedOK DEF Placeable
<1> HIDE DEF d2, c
<1>4. ContextOK(p, d2) /\ SameReads(d1.x.graph, d2.x.graph)
  BY <1>3 DEF Reported
<1>5. NoDangling(k)
  BY <1>2, <1>4, SameReadsDangling
<1>6. Placeable(k, w)
  <2>1. /\ AtHand(k, w) /\ k.lab[w].typ = d1.x.graph.lab[w].typ /\ k.co = d1.x.graph.co
        /\ Loc(k, w) = Loc(d1.x.graph, w)
    BY <1>2, <1>4, SameReadsAtHand DEF Placeable
  <2> QED BY <1>2, <2>1 DEF Placeable
<1>7. CASE d2.moot
  <2>1. c = d2
    BY <1>1, <1>7 DEF NAStoreChecked
  <2> QED BY <1>4, <1>5, <2>1 DEF Handles, c
<1>8. CASE ~d2.moot
  <2> DEFINE pred == co_max(k, Loc(k, w))
             m == addCo(k, w, pred)
             st == onNAStore(d2.st, w, Loc(k, w), HbView(k, w))
  <2>1. c = [d2 EXCEPT !.st = st, !.x.graph = m]
    BY <1>1, <1>8 DEF NAStoreChecked
  <2>2. GraphOK(p, k, {}) /\ ItemsOK(k, d2.x.workqueue) /\ Joins(k) /\ DOMAIN d2.x = {"graph", "workqueue"}
    BY <1>4 DEF ContextOK, ExecOK
  <2>3. w \in Events(k) /\ k.lab[w].typ = "W" /\ w \notin ToSet(k.co[Loc(k, w)])
    BY <1>6 DEF Placeable, AtHand, IsNewest
  <2> HIDE DEF k
  <2>4. pred \in StoresOf(k, w)
    BY <2>2, <2>3, CoMaxIsStore
  <2> HIDE DEF pred, st
  <2>5. CoGrows(k, m) /\ GraphOK(p, m, {}) /\ m.lab = k.lab
    BY <2>2, <2>3, <2>4, AddCoOK
  <2> HIDE DEF m
  <2>6. Joins(m) /\ ItemsOK(m, d2.x.workqueue)
    <3>1. Keeps(k, m, Events(k)) /\ SameText(k, m)
      BY <2>5, CoGrowsKeeps DEF CoGrows
    <3> QED BY <2>2, <3>1, KeptAll, SameTextJoins
  <2>7. NoDangling(m)
    BY <1>5, <2>5 DEF NoDangling, Reads, OfType, Events
  <2>8. /\ DOMAIN c = {"x", "st", "moot", "warned", "internal"} /\ c.x = [graph |-> m, workqueue |-> d2.x.workqueue]
        /\ c.moot = d2.moot /\ c.warned = d2.warned
    <3>1. c = [d2 EXCEPT !.st = st, !.x = [d2.x EXCEPT !.graph = m]]
      BY <1>4, <2>1 DEF ContextOK
    <3>2. [d2.x EXCEPT !.graph = m] = [graph |-> m, workqueue |-> d2.x.workqueue]
      BY <2>2
    <3> QED BY <1>4, <3>1, <3>2 DEF ContextOK
  <2>9. c.x.graph = m /\ c.x.workqueue = d2.x.workqueue /\ DOMAIN c.x = {"graph", "workqueue"}
    BY <2>8
  <2> QED BY <1>4, <2>5, <2>6, <2>7, <2>8, <2>9 DEF Handles, ContextOK, ExecOK, c
<1> QED BY <1>7, <1>8

(* An RMW keeps the invariant: its write is added right after its read. *)
LEMMA RMWOK ==
  ASSUME CheckerOK, NEW p, ProgramOK(p), NEW d, ContextOK(p, d), ~d.moot, d.internal = NoError, NoDangling(d.x.graph),
         NEW l, LabelOK(p, d.x.graph, l), Extends(p, d.x.graph, l), l.pos \notin Events(d.x.graph), l.typ = "R",
         l.ins.op # "R"
  PROVE  Handles(p, handleRMW(d, l))
<1> DEFINE r == l.pos
           d1 == handleLoad(d, l)
           g == d1.x.graph
           m == RMWWriteLabel(g, r)
           c == handleRMW(d, l)
<1>1. c = AfterRMWLoad(d1, r)
  BY DEF handleRMW
<1>2. Handles(p, d1) /\ (~d1.moot /\ d1.internal = NoError => NoDangling(g) /\ ReadAtEnd(g, r, l.ins))
  BY LoadOK
<1> HIDE DEF d1
<1>3. CASE d1.moot \/ d1.internal # NoError \/ ~valueMakesRMWSucceed(g, r, ReadValue(g, r))
  BY <1>1, <1>2, <1>3 DEF AfterRMWLoad
<1>4. CASE ~d1.moot /\ d1.internal = NoError /\ valueMakesRMWSucceed(g, r, ReadValue(g, r))
  <2>1. c = handleStore(d1, m)
    BY <1>1, <1>4 DEF AfterRMWLoad
  <2>2. GraphOK(p, g, {}) /\ ContextOK(p, d1)
    BY <1>2 DEF Handles, ContextOK, ExecOK
  <2>3. /\ NoDangling(g) /\ r \in Events(g) /\ g.lab[r].typ = "R" /\ IsLast(g, r)
        /\ g.lab[r].ins = l.ins /\ g.lab[r].rf \in StoresOf(g, r)
    BY <1>2, <1>4 DEF ReadAtEnd
  <2> HIDE DEF g
  <2>4. /\ LabelOK(p, g, m) /\ Extends(p, g, m) /\ m.pos \notin Events(g) /\ m.typ = "W"
        /\ m.pos = <<r[1], r[2] + 1>> /\ m.ins = g.lab[r].ins
    BY <2>2, <2>3, WriteAfterRead
  <2> HIDE DEF m
  <2>5. RMWHasStore(g, m)
    <3>1. <<m.pos[1], m.pos[2] - 1>> = r
      <4>1. r[1] \in Nat /\ r[2] \in Nat /\ r = <<r[1], r[2]>>
        BY <2>2, <2>3, ThreadOf
      <4>2. m.pos[1] = r[1] /\ m.pos[2] - 1 = r[2]
        BY <2>4, <4>1
      <4> QED BY <4>1, <4>2
    <3> QED BY <2>3, <2>4, <3>1 DEF RMWHasStore, StoresOf, Loc
  <2> QED BY <2>1, <2>2, <2>3, <2>4, <2>5, StoreOK DEF g
<1> QED BY <1>3, <1>4

(* The label of an allocation or a free is added. *)
LEMMA ProbeOK ==
  ASSUME NEW p, NEW d, ContextOK(p, d), NoDangling(d.x.graph),
         NEW l, LabelOK(p, d.x.graph, l), Extends(p, d.x.graph, l), l.pos \notin Events(d.x.graph),
         l.typ \in {"M", "D", "RET"}
  PROVE  LET c == addProbe(d, l)
         IN ContextOK(p, c) /\ NoDangling(c.x.graph) /\ AtHand(c.x.graph, l.pos)
<1> DEFINE g == d.x.graph
           b == <<l.pos[1], l.pos[2] - 1>>
           h == add(g, Probe(g.lab[b], l))
           c == addProbe(d, l)
<1>1. GraphOK(p, g, {})
  BY DEF ContextOK, ExecOK
<1>2. b \in Events(g) /\ IsLast(g, b) /\ b[1] = l.pos[1]
  BY DEF Extends
<1>3. LastLabel(g, l.pos[1]) = g.lab[b]
  <2>1. b[2] = LastIndex(g, b[1])
    BY <1>1, <1>2, LastIndexIsLast
  <2>2. <<l.pos[1], LastIndex(g, l.pos[1])>> = b
    BY <1>2, <2>1
  <2> HIDE DEF b
  <2> QED BY <2>2 DEF LastLabel
<1>4. c = SetGraph(d, h)
  BY <1>3 DEF addProbe
<1>5. GraphOK(p, h, {}) /\ Appended(g, h, l)
  BY <1>1, ProbeAppends
<1> HIDE DEF h, c
<1>6. ContextOK(p, c) /\ c.x.graph = h /\ NoDangling(h)
  BY <1>4, <1>5, AddedContext
<1>7. AtHand(h, l.pos)
  BY <1>1, <1>5, AppendedLast DEF Appended, AtHand
<1> QED BY <1>6, <1>7 DEF c

(* The memory state changes. *)
LEMMA SetStateOK ==
  ASSUME NEW p, NEW d, ContextOK(p, d), NEW st
  PROVE  LET c == [d EXCEPT !.st = st] IN ContextOK(p, c) /\ c.x = d.x
BY DEF ContextOK

(* handleMalloc() keeps the invariant. *)
LEMMA MallocOK ==
  ASSUME NEW p, NEW d, ContextOK(p, d), NoDangling(d.x.graph),
         NEW l, LabelOK(p, d.x.graph, l), Extends(p, d.x.graph, l), l.pos \notin Events(d.x.graph),
         l.typ = "M"
  PROVE  Handles(p, handleMalloc(d, l))
<1> DEFINE d1 == addProbe(d, l)
           st == onAlloc(d1.st, l.pos, l.ins.loc)
           c == [d1 EXCEPT !.st = st]
<1>1. ContextOK(p, d1) /\ NoDangling(d1.x.graph)
  BY ProbeOK
<1>2. handleMalloc(d, l) = c
  BY DEF handleMalloc
<1> HIDE DEF d1, st
<1>3. ContextOK(p, c) /\ c.x = d1.x
  BY <1>1, SetStateOK
<1> HIDE DEF c
<1> QED BY <1>1, <1>2, <1>3 DEF Handles

(* handleFree() keeps the invariant, for frees and retires. *)
LEMMA FreeOK ==
  ASSUME CheckerOK, NEW p, NEW d, ContextOK(p, d), NoDangling(d.x.graph),
         NEW l, LabelOK(p, d.x.graph, l), Extends(p, d.x.graph, l), l.pos \notin Events(d.x.graph),
         l.typ \in {"D", "RET"}
  PROVE  Handles(p, handleFree(d, l))
<1> DEFINE d1 == addProbe(d, l)
           d2 == checkForRaces(d1, l.pos)
           st == onFree(d2.st, l.pos, l.ins.loc, l.typ = "RET")
           d3 == [d2 EXCEPT !.st = st]
           c == handleFree(d, l)
<1>1. ContextOK(p, d1) /\ NoDangling(d1.x.graph) /\ AtHand(d1.x.graph, l.pos)
  BY ProbeOK
<1>2. c = IF d2.moot THEN d2 ELSE d3
  BY DEF handleFree, FreeChecked
<1> HIDE DEF d1, st, c
<1>3. Reported(p, d1, d2)
  BY <1>1, RacesOK
<1> HIDE DEF d2
<1>4. ContextOK(p, d2) /\ NoDangling(d2.x.graph)
  BY <1>1, <1>3, SameReadsDangling DEF Reported
<1>5. ContextOK(p, d3) /\ d3.x = d2.x
  BY <1>4, SetStateOK
<1> HIDE DEF d3
<1> QED BY <1>2, <1>4, <1>5 DEF Handles, c

(* Fences, protections and method boundaries keep the invariant. *)
LEMMA DummyOK ==
  ASSUME CheckerOK, NEW p, NEW d, ContextOK(p, d), NoDangling(d.x.graph),
         NEW l, LabelOK(p, d.x.graph, l), Extends(p, d.x.graph, l), l.pos \notin Events(d.x.graph),
         l.typ \in {"F", "HP", "MB", "ME"}
  PROVE  Handles(p, handleDummy(d, l))
<1> DEFINE g == d.x.graph
           h == addLabelToGraph(g, l)
           d1 == SetGraph(d, h)
           st == IF l.typ = "HP" THEN onProtect(d1.st, l.ins.loc, l.ins.val) ELSE d1.st
           c == [d1 EXCEPT !.st = st]
<1>1. GraphOK(p, g, {})
  BY DEF ContextOK, ExecOK
<1>2. GraphOK(p, h, {}) /\ Appended(g, h, l)
  BY <1>1, LabelAppends
<1>3. handleDummy(d, l) = c
  BY DEF handleDummy
<1> HIDE DEF h, st
<1>4. ContextOK(p, d1) /\ d1.x.graph = h /\ NoDangling(h)
  BY <1>2, AddedContext
<1> HIDE DEF d1
<1>5. ContextOK(p, c) /\ c.x = d1.x
  BY <1>4, SetStateOK
<1> HIDE DEF c
<1> QED BY <1>3, <1>4, <1>5 DEF Handles

(* handleAssume() keeps the invariant: it blocks the thread. *)
LEMMA AssumeOK ==
  ASSUME NEW d, ContextOK(prog, d), NoDangling(d.x.graph), ProgramOK(prog),
         NEW t \in ThreadIds(d.x.graph), isSchedulable(d.x.graph, t), NextIns(d.x.graph, t).op = "ASSUME"
  PROVE  Handles(prog, handleAssume(d, t))
<1> DEFINE g == d.x.graph
           ip == NextIp(g, t)
           ins == NextIns(g, t)
           l == NewLabel(<<t, LastIndex(g, t) + 1>>, "B", ip, ins, 0)
           h == blockThread(g, t, ip, ins, 0)
           d1 == SetGraph(d, h)
           moot == \E e \in getPreviousVisibleAccessLabel(g, t) :
                              /\ g.lab[e].typ = "R"
                              /\ isStable(g, e)
                              /\ ~(Ipr /\ ReadBlocks(g, e))
           c == handleAssume(d, t)
<1>1. GraphOK(prog, g, {})
  BY DEF ContextOK, ExecOK
<1>2. ip \in Nat
  BY <1>1, NextIpIs
<1>3. ins.op # "JOIN"
  OBVIOUS
<1>4. c = [d1 EXCEPT !.moot = moot]
  BY DEF handleAssume
<1>5. moot \in BOOLEAN
  OBVIOUS
<1> HIDE DEF ip, ins, moot
<1>6. GraphOK(prog, h, {}) /\ Appended(g, h, l) /\ l.typ = "B" /\ l.ins = ins
  BY <1>1, <1>2, BlockLabelOK
<1> HIDE DEF h, l
<1>7. ContextOK(prog, d1) /\ d1.x.graph = h /\ NoDangling(h)
  BY <1>3, <1>6, AddedContext
<1> HIDE DEF d1, c
<1>8. ContextOK(prog, c) /\ c.x = d1.x
  BY <1>4, <1>5, <1>7 DEF ContextOK
<1> QED BY <1>7, <1>8 DEF Handles, c

(* The begin of a new thread can be added after its creation. *)
LEMMA ChildStarts ==
  ASSUME CheckerOK, NEW g, GraphOK(prog, g, {}), ProgramOK(prog),
         NEW t \in ThreadIds(g), isSchedulable(g, t), NextIns(g, t).op = "CREATE",
         NEW cid, cid = Cardinality(ThreadIds(g)),
         NEW l, NEW h, Appended(g, h, l), GraphOK(prog, h, {}), l.typ = "TC", l.pos = <<t, LastIndex(g, t) + 1>>
  PROVE  LET m == ThreadStartLabel(cid, NextIns(g, t).val, l.pos)
         IN LabelOK(prog, h, m) /\ Starts(prog, h, m) /\ m.pos \notin Events(h) /\ m.typ = "TS"
<1> DEFINE ins == NextIns(g, t)
           m == ThreadStartLabel(cid, ins.val, l.pos)
<1>1. t = 0 /\ ins.val \in 1 .. Len(prog) - 1
  <2> DEFINE f == g.lab[<<t, 0>>].val + 1
  <2>1. f \in DOMAIN prog /\ NextIp(g, t) \in DOMAIN prog[f] /\ ins = prog[f][NextIp(g, t)]
    BY NextIpIs
  <2>2. f = 1 /\ ins.val \in 1 .. Len(prog) - 1
    <3> HIDE DEF f
    <3> QED BY <2>1 DEF ProgramOK
  <2>3. t # 0 => g.lab[<<t, 0>>].val # 0
    BY CodeInProgram
  <2>4. g.lab[<<t, 0>>].val \in Nat
    BY CodeInProgram
  <2> QED BY <2>2, <2>3, <2>4
<1>2. /\ cid \in Nat \ {0} /\ cid - 1 \in Nat
      /\ \A u : u \in ThreadIds(g) <=> u \in Nat /\ <<u, 0>> \in Events(g)
      /\ \A u \in Nat : u \in ThreadIds(g) <=> u < cid
  <2>1. IsFiniteSet(Events(g)) /\ Events(g) \subseteq Nat \X Nat /\ InitEvent \in Events(g)
    BY DEF GraphOK, Shape
  <2>2. \A e \in Events(g) : \A u \in 0 .. e[1] : <<u, 0>> \in Events(g)
    BY DEF GraphOK, Threads
  <2>3. /\ cid \in Nat \ {0}
        /\ \A u : u \in ThreadIds(g) <=> u \in Nat /\ <<u, 0>> \in Events(g)
        /\ \A u \in Nat : u \in ThreadIds(g) <=> u < cid
    BY <2>1, <2>2, ThreadCount
  <2> QED BY <2>3
<1>3. /\ DOMAIN m = LabelFields /\ m.pos = <<cid, 0>> /\ m.typ = "TS" /\ m.val = ins.val /\ m.ip = 0
      /\ m.rf = Bottom /\ m.createId = l.pos
  BY LabelFieldsAre DEF ThreadStartLabel, NewLabel
<1> HIDE DEF m, ins
<1>4. /\ Events(h) = Events(g) \cup {l.pos} /\ h.lab[l.pos].typ = "TC"
      /\ \A e \in Events(g) : h.lab[e] = g.lab[e]
  BY DEF Appended
<1>5. \A e \in Events(h) : e[1] < cid
  <2>1. \A e \in Events(g) : e[1] \in ThreadIds(g) /\ e[1] \in Nat
    BY ThreadOf
  <2>2. l.pos[1] \in ThreadIds(g) /\ l.pos[1] \in Nat
    BY <1>1
  <2> QED BY <1>2, <1>4, <2>1, <2>2
<1>6. <<cid - 1, 0>> \in Events(h)
  <2>1. cid - 1 \in Nat /\ cid - 1 < cid
    BY <1>2
  <2> QED BY <1>2, <1>4, <2>1
<1>7. ASSUME NEW u \in ThreadIds(h) \ {0} PROVE CreateId(h, u)[2] < l.pos[2]
  <2>1. u \in Nat /\ <<u, 0>> \in Events(h)
    <3>1. PICK e \in Events(h) : e[2] = 0 /\ u = e[1]
      BY DEF ThreadIds
    <3>2. e = <<e[1], e[2]>> /\ e[1] \in Nat
      BY ThreadOf
    <3> QED BY <3>1, <3>2
  <2>2. <<u, 0>> # l.pos
    BY <1>1, <1>7
  <2>3. <<u, 0>> \in Events(g) /\ u \in ThreadIds(g)
    BY <1>2, <1>4, <2>1, <2>2
  <2>4. CreateId(g, u) \in Events(g) /\ CreateId(g, u)[1] = 0 /\ CreateId(h, u) = CreateId(g, u)
    BY <1>4, <2>3 DEF GraphOK, Threads, CreateId
  <2>5. LastIndex(g, 0) \in Nat /\ IsLast(g, <<0, LastIndex(g, 0)>>)
    BY <1>1, ThreadEnd
  <2>6. CreateId(g, u)[2] <= LastIndex(g, 0)
    BY <2>4, <2>5 DEF IsLast
  <2>7. CreateId(g, u)[2] \in Nat
    BY <2>4, ThreadOf
  <2>8. l.pos[2] = LastIndex(g, 0) + 1
    BY <1>1
  <2> QED BY <2>4, <2>5, <2>6, <2>7, <2>8
<1>8. m.pos[1] = cid /\ m.pos \notin Events(h)
  <2>1. m.pos[1] = cid
    BY <1>3
  <2> QED BY <1>2, <1>5, <2>1
<1>9. l.pos[1] = 0
  BY <1>1
<1>10. Starts(prog, h, m)
  BY <1>1, <1>2, <1>3, <1>4, <1>5, <1>6, <1>7, <1>8, <1>9 DEF Starts
<1>11. LabelOK(prog, h, m)
  BY <1>3 DEF LabelOK
<1> QED BY <1>3, <1>8, <1>10, <1>11 DEF m, ins

(* handleThreadCreate() keeps the invariant: the creation is added, and the *)
(* begin of the new thread if there is none yet.                            *)
LEMMA ThreadCreateOK ==
  ASSUME CheckerOK, NEW d, ContextOK(prog, d), NoDangling(d.x.graph), ProgramOK(prog),
         NEW t \in ThreadIds(d.x.graph), isSchedulable(d.x.graph, t), NextIns(d.x.graph, t).op = "CREATE"
  PROVE  Handles(prog, handleThreadCreate(d, t))
<1> DEFINE g == d.x.graph
           ins == NextIns(g, t)
           cid == ChildId(g, NextPos(g, t))
           l == NextLabel(g, t, "TC", cid)
           h == addLabelToGraph(g, l)
           d1 == SetGraph(d, h)
           c == handleThreadCreate(d, t)
<1>1. GraphOK(prog, g, {}) /\ ExecOK(prog, d.x)
  BY DEF ContextOK, ExecOK
<1>2. c = ThreadCreated(d, l, cid)
  BY DEF handleThreadCreate
<1> HIDE DEF cid
<1>3. /\ LabelOK(prog, g, l) /\ Extends(prog, g, l) /\ l.pos \notin Events(g)
      /\ l.typ = "TC" /\ l.val = cid /\ l.ins = ins /\ l.pos = <<t, LastIndex(g, t) + 1>>
  BY <1>1, NextLabelOK DEF EventTypes
<1> HIDE DEF l
<1>4. GraphOK(prog, h, {}) /\ Appended(g, h, l)
  BY <1>1, <1>3, LabelAppends
<1>5. ContextOK(prog, d1) /\ d1.x.graph = h /\ NoDangling(h)
  <2> HIDE DEF h
  <2> QED BY <1>3, <1>4, AddedContext
<1>6. CASE cid # Cardinality(ThreadIds(g))
  <2>1. c = [d1 EXCEPT !.internal = "tid"]
    BY <1>2, <1>6 DEF ThreadCreated
  <2> HIDE DEF d1, c
  <2>2. ContextOK(prog, c) /\ c.x = d1.x
    BY <1>5, <2>1 DEF ContextOK
  <2> QED BY <1>5, <2>2 DEF Handles, c
<1>7. CASE cid = Cardinality(ThreadIds(g))
  <2> DEFINE m == ThreadStartLabel(cid, ins.val, l.pos)
             k == addLabelToGraph(h, m)
  <2>1. c = SetGraph(d, k)
    BY <1>2, <1>3, <1>7 DEF ThreadCreated
  <2>2. LabelOK(prog, h, m) /\ Starts(prog, h, m) /\ m.pos \notin Events(h) /\ m.typ = "TS"
    BY <1>1, <1>3, <1>4, <1>7, ChildStarts
  <2> HIDE DEF m, h, c, ins
  <2>3. GraphOK(prog, k, {}) /\ Appended(h, k, m)
    BY <1>4, <2>2, LabelAppends
  <2> HIDE DEF k, d1
  <2>4. ItemsOK(k, d1.x.workqueue) /\ Joins(k) /\ NoDangling(k)
    BY <1>5, <2>2, <2>3, AppendedExec DEF ContextOK
  <2>5. d1.x.workqueue = d.x.workqueue
    BY <1>1 DEF d1, SetGraph, ContextOK, ExecOK
  <2>6. ContextOK(prog, c) /\ c.x.graph = k
    BY <2>1, <2>3, <2>4, <2>5, SetGraphOK
  <2> QED BY <2>4, <2>6 DEF Handles, c
<1> QED BY <1>6, <1>7

(* Finish finds the finish of a thread. *)
LEMMA FinishOf ==
  ASSUME NEW p, NEW g, NEW X, GraphOK(p, g, X), NEW f \in Events(g), g.lab[f].typ = "TF"
  PROVE  Finish(g, f[1]) # {}
<1>1. IsLast(g, f)
  BY DEF GraphOK, Kinds
<1>2. f[2] = LastIndex(g, f[1]) /\ f = <<f[1], f[2]>>
  BY <1>1, LastIndexIsLast, ThreadOf
<1>3. f \in Finish(g, f[1])
  BY <1>2 DEF Finish
<1> QED BY <1>3

(* handleThreadJoin() keeps the invariant: it blocks only if the thread has *)
(* not finished.                                                            *)
LEMMA ThreadJoinOK ==
  ASSUME CheckerOK, NEW d, ContextOK(prog, d), NoDangling(d.x.graph), ProgramOK(prog),
         NEW t \in ThreadIds(d.x.graph), isSchedulable(d.x.graph, t), NextIns(d.x.graph, t).op = "JOIN"
  PROVE  Handles(prog, handleThreadJoin(d, t))
<1> DEFINE g == d.x.graph
           ip == NextIp(g, t)
           ins == NextIns(g, t)
           child == g.lab[Children(g, t)[ins.val]].val
           c == handleThreadJoin(d, t)
<1>1. GraphOK(prog, g, {}) /\ ExecOK(prog, d.x) /\ Joins(g)
  BY DEF ContextOK, ExecOK
<1>2. c = SetGraph(d, IF Finish(g, child) = {} THEN blockThread(g, t, ip, ins, child)
                      ELSE addLabelToGraph(g, NextLabel(g, t, "TJ", child)))
  BY DEF handleThreadJoin
<1>3. ip \in Nat
  BY <1>1, NextIpIs
<1> HIDE DEF ip, child, c
<1>4. CASE Finish(g, child) = {}
  <2> DEFINE l == NewLabel(<<t, LastIndex(g, t) + 1>>, "B", ip, ins, child)
             h == blockThread(g, t, ip, ins, child)
  <2>1. c = SetGraph(d, h)
    BY <1>2, <1>4
  <2>2. GraphOK(prog, h, {}) /\ Appended(g, h, l) /\ l.typ = "B" /\ l.val = child
    BY <1>1, <1>3, BlockLabelOK
  <2> HIDE DEF h, l, ins
  <2>3. ItemsOK(h, d.x.workqueue) /\ NoDangling(h)
    BY <1>1, <2>2, AppendedExec
  <2>4. Joins(h)
    <3>1. /\ Events(h) = Events(g) \cup {l.pos} /\ h.lab[l.pos].typ = "B" /\ h.lab[l.pos].val = child
          /\ \A e \in Events(g) : h.lab[e] = g.lab[e]
      BY <2>2 DEF Appended
    <3> SUFFICES ASSUME NEW b \in Events(h), NEW f \in Events(h), h.lab[b].typ = "B", h.lab[b].ins.op = "JOIN",
                        h.lab[f].typ = "TF"
                 PROVE  h.lab[b].val # f[1]
      BY DEF Joins
    <3>2. f \in Events(g) /\ g.lab[f].typ = "TF"
      BY <3>1
    <3>3. CASE b \in Events(g)
      BY <1>1, <3>1, <3>2, <3>3 DEF Joins
    <3>4. CASE b = l.pos
      BY <1>1, <1>4, <3>1, <3>2, <3>4, FinishOf
    <3> QED BY <3>1, <3>3, <3>4
  <2>5. ContextOK(prog, c) /\ c.x.graph = h
    BY <2>1, <2>2, <2>3, <2>4, SetGraphOK
  <2> QED BY <2>3, <2>5 DEF Handles, c
<1>5. CASE Finish(g, child) # {}
  <2> DEFINE l == NextLabel(g, t, "TJ", child)
             h == addLabelToGraph(g, l)
  <2>1. c = SetGraph(d, h)
    BY <1>2, <1>5
  <2>2. LabelOK(prog, g, l) /\ Extends(prog, g, l) /\ l.pos \notin Events(g) /\ l.typ = "TJ"
    BY <1>1, NextLabelOK DEF EventTypes
  <2> HIDE DEF l
  <2>3. GraphOK(prog, h, {}) /\ Appended(g, h, l)
    BY <1>1, <2>2, LabelAppends
  <2> HIDE DEF h
  <2>4. ContextOK(prog, c) /\ c.x.graph = h /\ NoDangling(h)
    BY <2>1, <2>2, <2>3, AddedContext
  <2> QED BY <2>4 DEF Handles, c
<1> QED BY <1>4, <1>5

(* The threads that wait to join t, and their blocks. *)
Waiters(h, t) == {q \in ThreadIds(h) : WaitsFor(h, q, t)}
WaitBlocks(h, t) == {<<q, LastIndex(h, q)>> : q \in Waiters(h, t)}

(* Relieving them removes the blocks and changes no other event. *)
LEMMA WaitersGo ==
  ASSUME NEW h, GraphOK(prog, h, {}), NEW t
  PROVE  LET K == Events(h) \ WaitBlocks(h, t)
             k == removeLast(h, Waiters(h, t))
         IN /\ \A e \in WaitBlocks(h, t) : e \in Events(h) /\ h.lab[e].typ = "B"
            /\ Shrunk(h, k, K) /\ GraphOK(prog, k, {})
            /\ \A e \in K : k.lab[e] = h.lab[e]
<1> DEFINE W == Waiters(h, t)
           B == {<<q, LastIndex(h, q)>> : q \in W}
           K == Events(h) \ B
           k == removeLast(h, W)
<1>1. \A q \in W : <<q, LastIndex(h, q)>> \in Events(h) /\ h.lab[<<q, LastIndex(h, q)>>].typ = "B"
  BY ThreadEnd DEF WaitsFor, LastLabel, Waiters
<1>2. \A e \in B : e \in Events(h) /\ h.lab[e].typ = "B"
  BY <1>1
<1> HIDE DEF W
<1>3. Shrunk(h, k, K)
  BY <1>1, RemoveLastOK
<1>4. GraphOK(prog, k, {})
  BY <1>1, RemoveLastOK
<1>5. \A e \in K : k.lab[e] = h.lab[e]
  <2>1. DOMAIN h = {"stamp", "lab", "co", "lin"}
    BY DEF GraphOK, Shape
  <2> HIDE DEF K, B
  <2>2. k = [h EXCEPT !.stamp = Restamped(h, K), !.lab = [e \in K |-> h.lab[e]]]
    BY DEF removeLast, K, B
  <2>3. k.lab = [e \in K |-> h.lab[e]]
    BY <2>1, <2>2
  <2> HIDE DEF k
  <2> QED BY <2>3
<1> HIDE DEF k
<1> QED BY <1>2, <1>3, <1>4, <1>5 DEF W, k, WaitBlocks

(* handleThreadFinish() keeps the invariant: whoever waits for the thread   *)
(* is unblocked.                                                            *)
LEMMA ThreadFinishOK ==
  ASSUME CheckerOK, NEW d, ContextOK(prog, d), NoDangling(d.x.graph), ProgramOK(prog),
         NEW t \in ThreadIds(d.x.graph), isSchedulable(d.x.graph, t), NextIns(d.x.graph, t).op = "FINISH"
  PROVE  Handles(prog, handleThreadFinish(d, t))
<1> DEFINE g == d.x.graph
           l == NextLabel(g, t, "TF", 0)
           h == addLabelToGraph(g, l)
           W == Waiters(h, t)
           B == WaitBlocks(h, t)
           K == Events(h) \ B
           k == removeLast(h, W)
           c == handleThreadFinish(d, t)
<1>1. GraphOK(prog, g, {}) /\ ExecOK(prog, d.x) /\ Joins(g)
  BY DEF ContextOK, ExecOK
<1>2. c = SetGraph(d, k)
  BY DEF handleThreadFinish, unblockThreads, Waiters
<1>3. /\ LabelOK(prog, g, l) /\ Extends(prog, g, l) /\ l.pos \notin Events(g) /\ l.typ = "TF"
      /\ l.pos = <<t, LastIndex(g, t) + 1>>
  BY <1>1, NextLabelOK DEF EventTypes
<1> HIDE DEF l
<1>4. GraphOK(prog, h, {}) /\ Appended(g, h, l)
  BY <1>1, <1>3, LabelAppends
<1> HIDE DEF h, c
<1>5. ItemsOK(h, d.x.workqueue) /\ NoDangling(h)
  BY <1>1, <1>3, <1>4, AppendedExec
<1>6. \A e \in B : e \in Events(h) /\ h.lab[e].typ = "B"
  BY <1>4, WaitersGo
<1>7. Shrunk(h, k, K) /\ GraphOK(prog, k, {}) /\ \A e \in K : k.lab[e] = h.lab[e]
  BY <1>4, WaitersGo
<1> HIDE DEF k
<1>8. Events(k) = K
  BY <1>7 DEF Shrunk
<1>9. Joins(k)
  <2> SUFFICES ASSUME NEW b \in K, NEW f \in K, k.lab[b].typ = "B", k.lab[b].ins.op = "JOIN",
                      k.lab[f].typ = "TF", k.lab[b].val = f[1]
               PROVE  FALSE
    BY <1>8 DEF Joins
  <2>1. /\ b \in Events(h) /\ f \in Events(h) /\ b \notin B
        /\ h.lab[b].typ = "B" /\ h.lab[b].ins.op = "JOIN" /\ h.lab[f].typ = "TF" /\ h.lab[b].val = f[1]
    BY <1>7
  <2>2. /\ Events(h) = Events(g) \cup {l.pos} /\ h.lab[l.pos].typ = "TF"
        /\ \A e \in Events(g) : h.lab[e] = g.lab[e]
    BY <1>3, <1>4 DEF Appended
  <2>3. b \in Events(g)
    BY <2>1, <2>2
  <2>4. f \notin Events(g)
    BY <1>1, <2>1, <2>2, <2>3 DEF Joins
  <2>5. f[1] = t
    BY <1>3, <2>1, <2>2, <2>4
  <2>6. IsLast(h, b)
    BY <1>4, <2>1 DEF GraphOK, Kinds
  <2>7. b[2] = LastIndex(h, b[1]) /\ b = <<b[1], b[2]>> /\ b[1] \in ThreadIds(h)
    BY <1>4, <2>1, <2>6, LastIndexIsLast, ThreadOf
  <2>8. WaitsFor(h, b[1], t)
    BY <2>1, <2>5, <2>7 DEF WaitsFor, LastLabel
  <2> QED BY <2>1, <2>7, <2>8 DEF Waiters, WaitBlocks
<1> HIDE DEF W, B, K
<1>10. ItemsOK(k, d.x.workqueue)
  <2>1. Keeps(h, k, K)
    BY <1>4, <1>7, ShrunkKeeps
  <2>2. ItemsIn(d.x.workqueue, Events(h) \ B)
    BY <1>4, <1>5, <1>6, ItemsNotBlocks
  <2>3. ItemsIn(d.x.workqueue, K)
    BY <2>2 DEF K
  <2> QED BY <1>4, <1>5, <2>1, <2>3, KeptItems
<1>11. NoDangling(k)
  <2>1. K \subseteq Events(h)
    BY DEF K
  <2> QED BY <1>5, <1>7, <1>8, <2>1 DEF NoDangling, Reads, OfType
<1>12. ContextOK(prog, c) /\ c.x.graph = k
  BY <1>2, <1>7, <1>9, <1>10, SetGraphOK
<1> QED BY <1>11, <1>12 DEF Handles, c

(*************************** The execution stack ***************************)

(* The top of the stack. *)
LEMMA LastExecution ==
  ASSUME NEW p, NEW s, StackOK(p, s), s # <<>>
  PROVE  /\ Len(s) \in Nat \ {0} /\ DOMAIN s = 1 .. Len(s)
         /\ Last(s) = s[Len(s)] /\ ExecOK(p, Last(s))
<1>1. s \in Seq(ToSet(s))
  BY DEF StackOK, IsSeq
<1>2. Len(s) \in Nat \ {0} /\ DOMAIN s = 1 .. Len(s)
  BY <1>1
<1>3. Last(s) = s[Len(s)]
  BY DEF Last
<1> QED BY <1>2, <1>3 DEF StackOK

(* The stack with another top. *)
WithTop(s, x) == [s EXCEPT ![Len(s)] = x]

(* The top execution changes (getExec()). *)
LEMMA ReplaceTop ==
  ASSUME NEW p, NEW s, StackOK(p, s), s # <<>>, NEW x, ExecOK(p, x)
  PROVE  StackOK(p, WithTop(s, x)) /\ WithTop(s, x) # <<>> /\ Last(WithTop(s, x)) = x
<1> DEFINE u == WithTop(s, x)
           R == ToSet(s) \cup {x}
<1>1. Len(s) \in Nat \ {0} /\ DOMAIN s = 1 .. Len(s)
  BY LastExecution
<1>2. s \in Seq(R)
  <2>1. s \in Seq(ToSet(s))
    BY DEF StackOK, IsSeq
  <2> QED BY <2>1
<1> HIDE DEF R
<1>3. x \in R
  BY DEF R
<1>4. u \in Seq(R) /\ Len(u) = Len(s) /\ DOMAIN u = 1 .. Len(s) /\ u[Len(s)] = x
  BY <1>1, <1>2, <1>3 DEF WithTop
<1>5. \A i \in DOMAIN u : i < Len(s) => u[i] = s[i]
  BY <1>1 DEF WithTop
<1> HIDE DEF u
<1>6. IsSeq(u)
  BY <1>4, SeqFacts
<1>7. \A i \in DOMAIN u : ExecOK(p, u[i])
  <2> TAKE i \in DOMAIN u
  <2>1. i = Len(s) \/ i < Len(s)
    BY <1>1, <1>4
  <2> QED BY <1>1, <1>4, <1>5, <2>1 DEF StackOK
<1>8. \A i \in DOMAIN u : i < Len(u) => NoDangling(u[i].graph)
  BY <1>1, <1>4, <1>5 DEF StackOK
<1>9. u # <<>>
  BY <1>1, <1>4
<1>10. Last(u) = x
  BY <1>4 DEF Last
<1> QED BY <1>4, <1>6, <1>7, <1>8, <1>9, <1>10 DEF StackOK, u

(* popExecution(): all reads of the execution below have a store. *)
LEMMA PopTop ==
  ASSUME NEW p, NEW s, StackOK(p, s), s # <<>>
  PROVE  LET u == Front(s)
         IN /\ StackOK(p, u) /\ Len(u) = Len(s) - 1
            /\ \A i \in DOMAIN u : NoDangling(u[i].graph)
            /\ Len(s) # 1 => u # <<>> /\ NoDangling(Last(u).graph)
<1> DEFINE u == Front(s)
           R == ToSet(s)
<1>1. Len(s) \in Nat \ {0} /\ DOMAIN s = 1 .. Len(s)
  BY LastExecution
<1>2. s \in Seq(R)
  BY DEF StackOK, IsSeq
<1>3. u = SubSeq(s, 1, Len(s) - 1)
  BY DEF Front
<1> HIDE DEF u, R
<1>4. /\ u \in Seq(R) /\ Len(u) = Len(s) - 1 /\ DOMAIN u = 1 .. Len(s) - 1
      /\ \A i \in 1 .. Len(s) - 1 : u[i] = s[i]
  BY <1>1, <1>2, <1>3
<1>5. IsSeq(u)
  BY <1>4, SeqFacts
<1>6. \A i \in DOMAIN u : i \in DOMAIN s /\ i < Len(s) /\ u[i] = s[i]
  BY <1>1, <1>4
<1>7. \A i \in DOMAIN u : ExecOK(p, u[i]) /\ NoDangling(u[i].graph)
  BY <1>6 DEF StackOK
<1>8. Len(s) # 1 => u # <<>> /\ Last(u) = u[Len(u)] /\ Len(u) \in DOMAIN u
  BY <1>1, <1>4 DEF Last
<1> QED BY <1>4, <1>5, <1>7, <1>8 DEF StackOK, u

(* pushExecution(): a backward revisit leaves the execution that it takes   *)
(* its item from, and adds the copy.                                        *)
LEMMA PushTop ==
  ASSUME NEW p, NEW s, StackOK(p, s), s # <<>>, NEW x, ExecOK(p, x), NoDangling(x.graph), NEW y, ExecOK(p, y)
  PROVE  LET u == Front(s) \o <<x, y>>
         IN StackOK(p, u) /\ u # <<>> /\ Last(u) = y
<1> DEFINE f == Front(s)
           u == f \o <<x, y>>
           R == ToSet(f) \cup {x, y}
           n == Len(f)
<1>1. StackOK(p, f) /\ \A i \in DOMAIN f : NoDangling(f[i].graph)
  BY PopTop
<1> HIDE DEF f
<1>2. f \in Seq(ToSet(f)) /\ n \in Nat /\ DOMAIN f = 1 .. n
  BY <1>1 DEF StackOK, IsSeq
<1>3. f \in Seq(R) /\ <<x, y>> \in Seq(R)
  <2>1. f \in Seq(R)
    BY <1>2
  <2>2. x \in R /\ y \in R
    OBVIOUS
  <2> HIDE DEF R
  <2> QED BY <2>1, <2>2
<1> HIDE DEF R
<1>4. /\ u \in Seq(R) /\ Len(u) = n + 2 /\ DOMAIN u = 1 .. n + 2
      /\ \A i \in 1 .. n : u[i] = f[i]
  BY <1>2, <1>3
<1>5. u[n + 1] = x /\ u[n + 2] = y
  BY <1>2, <1>3
<1> HIDE DEF u, n
<1>6. IsSeq(u)
  BY <1>4, SeqFacts
<1>7. ASSUME NEW i \in DOMAIN u PROVE ExecOK(p, u[i]) /\ (i < Len(u) => NoDangling(u[i].graph))
  <2>1. i \in 1 .. n \/ i = n + 1 \/ i = n + 2
    BY <1>2, <1>4, <1>7
  <2>2. CASE i \in 1 .. n
    BY <1>1, <1>2, <1>4, <2>2 DEF StackOK
  <2>3. CASE i = n + 1
    BY <1>5, <2>3
  <2>4. CASE i = n + 2
    <3>1. ~(i < Len(u))
      BY <1>2, <1>4, <2>4
    <3> QED BY <1>5, <2>4, <3>1
  <2> QED BY <2>1, <2>2, <2>3, <2>4
<1>8. u # <<>> /\ Last(u) = y
  BY <1>2, <1>4, <1>5 DEF Last
<1> QED BY <1>6, <1>7, <1>8 DEF StackOK, f, u

(* What the type invariant says of the items. *)
StackKinds(s) ==
    \A i \in DOMAIN s : \A j \in DOMAIN s[i].workqueue :
        s[i].workqueue[j].kind \in {"RF", "CO", "BR", "WARN", "ERROR"}

(* Items are of the known kinds. *)
LEMMA KindsOfItems ==
  ASSUME NEW p, NEW s, StackOK(p, s)
  PROVE  StackKinds(s)
BY DEF StackOK, ExecOK, ItemsOK, ItemOK, ItemKinds, StackKinds

(******************************* The actions *******************************)

(* The flags and counters of the driver. *)
FlagsOK ==
    /\ phase \in {"run", "done", "finished", "halted"}
    /\ isMoot \in BOOLEAN /\ warned \in BOOLEAN
    /\ DOMAIN result = {"explored", "exploredBlocked", "status"}
    /\ result.explored \in Nat /\ result.exploredBlocked \in Nat
    /\ (phase = "halted") <=> (result.status # NoError)
    /\ phase # "finished" => execStack # <<>>
    /\ prog \in Programs

(* The invariant in parts. *)
LEMMA InvParts ==
  DriverInv <=> /\ FlagsOK /\ StackOK(prog, execStack)
                /\ phase \in {"run", "done"} /\ internalError = NoError => NoDangling(Top.graph) \/ ErrorNext
<1>1. StackOK(prog, execStack) => StackKinds(execStack)
  BY KindsOfItems
<1> QED BY <1>1 DEF DriverInv, FlagsOK, TypeOK, StackKinds

(* The invariant after a step, in parts. *)
LEMMA InvPartsNext ==
  ASSUME FlagsOK', StackOK(prog', execStack'),
         phase' \in {"run", "done"} /\ internalError' = NoError
           => \/ NoDangling(Last(execStack').graph)
              \/ (isMoot' \/ phase' = "done") /\ ErrorLast(Last(execStack'))
  PROVE  DriverInv'
<1>1. StackKinds(execStack')
  BY KindsOfItems
<1> QED BY <1>1 DEF DriverInv, FlagsOK, TypeOK, StackKinds, Top, ErrorNext, ErrorLast

(* What is known before every step. *)
LEMMA TopOK ==
  ASSUME DriverInv, phase # "finished"
  PROVE  execStack # <<>> /\ ExecOK(prog, Top) /\ StackOK(prog, execStack) /\ FlagsOK
BY InvParts, LastExecution DEF FlagsOK, Top

(* A handler that keeps the invariant of its context keeps that of the      *)
(* driver.                                                                  *)
LEMMA HandledOK ==
  ASSUME DriverInv, phase = "run", internalError = NoError, NEW d, Handles(prog, d), Handled(d)
  PROVE  DriverInv'
<1>1. execStack # <<>> /\ StackOK(prog, execStack) /\ FlagsOK
  BY TopOK
<1>2. ExecOK(prog, d.x) /\ d.moot \in BOOLEAN /\ d.warned \in BOOLEAN
  BY DEF Handles, ContextOK
<1>3. execStack' = WithTop(execStack, d.x)
  BY DEF Handled, SetTop, WithTop
<1>4. StackOK(prog, execStack') /\ execStack' # <<>> /\ Last(execStack') = d.x
  BY <1>1, <1>2, <1>3, ReplaceTop
<1>5. /\ isMoot' = d.moot /\ warned' = d.warned /\ internalError' = d.internal /\ prog' = prog
      /\ phase' = phase /\ result' = result
  BY DEF Handled
<1>6. FlagsOK'
  BY <1>1, <1>2, <1>4, <1>5 DEF FlagsOK
<1>7. internalError' = NoError => NoDangling(d.x.graph) \/ (d.moot /\ ErrorLast(d.x))
  BY <1>5 DEF Handles
<1>8. StackOK(prog', execStack')
  BY <1>4, <1>5
<1> QED BY <1>4, <1>5, <1>6, <1>7, <1>8, InvPartsNext

(* What is known when a thread is scheduled. *)
LEMMA ScheduledOK ==
  ASSUME DriverInv, NEW t, NEW ops, NextOp(t, ops)
  PROVE  /\ ContextOK(prog, Context) /\ ~Context.moot /\ Context.internal = NoError
         /\ Context.x = Top /\ NoDangling(Top.graph)
         /\ GraphOK(prog, Top.graph, {})
         /\ t \in ThreadIds(Top.graph) /\ isSchedulable(Top.graph, t)
         /\ NextIns(Top.graph, t).op \in ops
         /\ phase = "run" /\ internalError = NoError
<1>1. phase = "run" /\ ~isMoot /\ internalError = NoError /\ t \in schedulePolicy(Top.graph)
      /\ NextIns(Top.graph, t).op \in ops
  BY DEF NextOp
<1>2. ExecOK(prog, Top) /\ FlagsOK
  BY <1>1, TopOK
<1>3. NoDangling(Top.graph)
  BY <1>1 DEF DriverInv, ErrorNext
<1>4. ContextOK(prog, Context) /\ Context.x = Top /\ Context.moot = isMoot /\ Context.internal = internalError
  BY <1>2 DEF ContextOK, Context, FlagsOK
<1>5. t \in Schedulable(Top.graph)
  BY <1>1, DriverAssumption DEF schedulePolicy
<1> QED BY <1>1, <1>2, <1>3, <1>4, <1>5 DEF Schedulable, ExecOK

(* A store is where the program has it. *)
StoreText(p, g, l) ==
    l.typ = "W" => /\ l.ip \in DOMAIN CodeOf(p, g, l.pos[1]) /\ l.ins = CodeOf(p, g, l.pos[1])[l.ip]
                   /\ l.ins.op \in {"W", "COPY"}

(* The label of the next event. *)
LEMMA ScheduledLabel ==
  ASSUME DriverInv, ProgramOK(prog), NEW t, NEW ops, NextOp(t, ops), "ASSUME" \notin ops,
         NEW typ \in EventTypes \ {"INIT", "TS"}, NEW val,
         typ = "R" => ops \subseteq LoadOps,
         typ = "W" => ops \subseteq {"W", "COPY"}
  PROVE  LET l == NextLabel(Top.graph, t, typ, val)
         IN /\ LabelOK(prog, Context.x.graph, l) /\ Extends(prog, Context.x.graph, l)
            /\ l.pos \notin Events(Context.x.graph) /\ l.typ = typ /\ l.ins = NextIns(Top.graph, t)
            /\ l.revisitable /\ StoreText(prog, Context.x.graph, l)
<1> DEFINE l == NextLabel(Top.graph, t, typ, val)
<1>1. /\ GraphOK(prog, Top.graph, {}) /\ t \in ThreadIds(Top.graph) /\ isSchedulable(Top.graph, t)
      /\ NextIns(Top.graph, t).op \in ops /\ Context.x = Top
  BY ScheduledOK
<1>2. NextIns(Top.graph, t).op # "ASSUME"
  BY <1>1
<1>3. typ = "R" => NextIns(Top.graph, t).op \in LoadOps
  BY <1>1
<1>4. typ = "W" => NextIns(Top.graph, t).op \in {"W", "COPY"}
  BY <1>1
<1>5. NextLabel(Top.graph, t, typ, val).revisitable
  BY DEF NextLabel, NewLabel
<1>6. /\ LabelOK(prog, Top.graph, l) /\ Extends(prog, Top.graph, l) /\ l.pos \notin Events(Top.graph)
      /\ l.typ = typ /\ l.ins = NextIns(Top.graph, t) /\ l.ip = NextIp(Top.graph, t)
      /\ l.pos = <<t, LastIndex(Top.graph, t) + 1>>
  BY <1>1, <1>2, <1>3, <1>4, NextLabelOK
<1> HIDE DEF l
<1>7. StoreText(prog, Top.graph, l)
  <2>1. NextIns(Top.graph, t).op # "FINISH" =>
          /\ NextIp(Top.graph, t) \in DOMAIN CodeOf(prog, Top.graph, t)
          /\ NextIns(Top.graph, t) = CodeOf(prog, Top.graph, t)[NextIp(Top.graph, t)]
    BY <1>1, NextIpIs
  <2> QED BY <1>4, <1>6, <2>1 DEF StoreText
<1> QED BY <1>1, <1>5, <1>6, <1>7 DEF l

(* The label of a new event. *)
NextEvent(l, types) ==
    /\ LabelOK(prog, Context.x.graph, l) /\ Extends(prog, Context.x.graph, l)
    /\ l.pos \notin Events(Context.x.graph) /\ l.typ \in types /\ l.revisitable
    /\ StoreText(prog, Context.x.graph, l)

(* What the handlers make of the context. *)
Access(l, d) ==
    \/ NextEvent(l, {"R"}) /\ l.ins.op = "R" /\ d = handleLoad(Context, l)
    \/ NextEvent(l, {"R"}) /\ l.ins.op = "R" /\ l.ins.mo = "na" /\ d = handleNALoad(Context, l)
    \/ NextEvent(l, {"W"}) /\ RMWHasStore(Context.x.graph, l) /\ d = handleStore(Context, l)
    \/ NextEvent(l, {"W"}) /\ d = handleNAStore(Context, l)
    \/ NextEvent(l, {"R"}) /\ l.ins.op # "R" /\ d = handleRMW(Context, l)
OtherEvent(l, d) ==
    \/ NextEvent(l, {"M"}) /\ d = handleMalloc(Context, l)
    \/ NextEvent(l, {"D", "RET"}) /\ d = handleFree(Context, l)
    \/ NextEvent(l, {"F", "HP", "MB", "ME"}) /\ d = handleDummy(Context, l)
ThreadEvent(t, d) ==
    \/ NextIns(Top.graph, t).op = "ASSUME" /\ d = handleAssume(Context, t)
    \/ NextIns(Top.graph, t).op = "CREATE" /\ d = handleThreadCreate(Context, t)
    \/ NextIns(Top.graph, t).op = "JOIN" /\ d = handleThreadJoin(Context, t)
    \/ NextIns(Top.graph, t).op = "FINISH" /\ d = handleThreadFinish(Context, t)

(* A thread that can run, and what is known of the context. *)
Scheduled(t) ==
    /\ ContextOK(prog, Context) /\ ~Context.moot /\ Context.internal = NoError
    /\ Context.x = Top /\ NoDangling(Top.graph)
    /\ t \in ThreadIds(Top.graph) /\ isSchedulable(Top.graph, t)
    /\ phase = "run" /\ internalError = NoError

(* A step of the program is a step of one of the handlers. *)
LEMMA StepHandler ==
  ASSUME CheckerOK, DriverInv, ProgramOK(prog), NEW t, RunStep(t)
  PROVE  Scheduled(t) /\ \E l, d : Handled(d) /\ (Access(l, d) \/ OtherEvent(l, d) \/ ThreadEvent(t, d))
<1>1. \A ops : NextOp(t, ops) => Scheduled(t) /\ NextIns(Top.graph, t).op \in ops
  BY ScheduledOK DEF Scheduled
<1>2. CASE HandleLoad(t)
  <2> DEFINE l == LabelOf(t, "R")
  <2>1. NextOp(t, {"R"}) /\ Handled(handleLoad(Context, l))
    BY <1>2 DEF HandleLoad
  <2>2. Scheduled(t) /\ NextIns(Top.graph, t).op \in {"R"}
    BY <1>1, <2>1
  <2>3. NextEvent(l, {"R"}) /\ l.ins = NextIns(Top.graph, t)
    BY <2>1, <2>2, ScheduledLabel DEF NextEvent, LabelOf, EventTypes, LoadOps
  <2> HIDE DEF l
  <2>4. Access(l, handleLoad(Context, l))
    BY <2>1, <2>2, <2>3 DEF Access
  <2> QED BY <2>1, <2>2, <2>4
<1>3. CASE HandleNALoad(t)
  <2> DEFINE l == LabelOf(t, "R")
  <2>1. NextOp(t, {"R"}) /\ NextIns(Top.graph, t).mo = "na" /\ Handled(handleNALoad(Context, l))
    BY <1>3 DEF HandleNALoad, Atomic
  <2>2. Scheduled(t) /\ NextIns(Top.graph, t).op \in {"R"}
    BY <1>1, <2>1
  <2>3. NextEvent(l, {"R"}) /\ l.ins = NextIns(Top.graph, t)
    BY <2>1, <2>2, ScheduledLabel DEF NextEvent, LabelOf, EventTypes, LoadOps
  <2> HIDE DEF l
  <2>4. Access(l, handleNALoad(Context, l))
    BY <2>1, <2>2, <2>3 DEF Access
  <2> QED BY <2>1, <2>2, <2>4
<1>4. CASE HandleStore(t)
  <2> DEFINE l == StoreLabel(t)
  <2>1. NextOp(t, {"W", "COPY"}) /\ Handled(handleStore(Context, l))
    BY <1>4 DEF HandleStore
  <2>2. Scheduled(t) /\ NextIns(Top.graph, t).op \in {"W", "COPY"}
    BY <1>1, <2>1
  <2>3. NextEvent(l, {"W"}) /\ l.ins = NextIns(Top.graph, t)
    BY <2>1, <2>2, ScheduledLabel DEF NextEvent, StoreLabel, EventTypes, LoadOps
  <2> HIDE DEF l
  <2>4. RMWHasStore(Context.x.graph, l)
    BY <2>2, <2>3 DEF RMWHasStore, IsRMWOp
  <2>5. Access(l, handleStore(Context, l))
    BY <2>1, <2>3, <2>4 DEF Access
  <2> QED BY <2>1, <2>2, <2>5
<1>5. CASE HandleNAStore(t)
  <2> DEFINE l == StoreLabel(t)
  <2>1. NextOp(t, {"W", "COPY"}) /\ Handled(handleNAStore(Context, l))
    BY <1>5 DEF HandleNAStore
  <2>2. Scheduled(t) /\ NextIns(Top.graph, t).op \in {"W", "COPY"}
    BY <1>1, <2>1
  <2>3. NextEvent(l, {"W"}) /\ l.ins = NextIns(Top.graph, t)
    BY <2>1, <2>2, ScheduledLabel DEF NextEvent, StoreLabel, EventTypes, LoadOps
  <2> HIDE DEF l
  <2>4. Access(l, handleNAStore(Context, l))
    BY <2>1, <2>3 DEF Access
  <2> QED BY <2>1, <2>2, <2>4
<1>6. CASE HandleRMW(t)
  <2> DEFINE l == LabelOf(t, "R")
  <2>1. NextOp(t, {"FAI", "CAS"}) /\ Handled(handleRMW(Context, l))
    BY <1>6 DEF HandleRMW
  <2>2. Scheduled(t) /\ NextIns(Top.graph, t).op \in {"FAI", "CAS"}
    BY <1>1, <2>1
  <2>3. NextEvent(l, {"R"}) /\ l.ins = NextIns(Top.graph, t)
    BY <2>1, <2>2, ScheduledLabel DEF NextEvent, LabelOf, EventTypes, LoadOps
  <2> HIDE DEF l
  <2>4. l.ins.op # "R"
    BY <2>2, <2>3
  <2>5. Access(l, handleRMW(Context, l))
    BY <2>1, <2>3, <2>4 DEF Access
  <2> QED BY <2>1, <2>2, <2>5
<1>7. CASE HandleMalloc(t)
  <2> DEFINE l == LabelOf(t, "M")
  <2>1. NextOp(t, {"M"}) /\ Handled(handleMalloc(Context, l))
    BY <1>7 DEF HandleMalloc
  <2>2. Scheduled(t) /\ NextIns(Top.graph, t).op \in {"M"}
    BY <1>1, <2>1
  <2>3. NextEvent(l, {"M"}) /\ l.ins = NextIns(Top.graph, t)
    BY <2>1, <2>2, ScheduledLabel DEF NextEvent, LabelOf, EventTypes, LoadOps
  <2> HIDE DEF l
  <2>4. OtherEvent(l, handleMalloc(Context, l))
    BY <2>1, <2>3 DEF OtherEvent
  <2> QED BY <2>1, <2>2, <2>4
<1>8. CASE HandleFree(t)
  <2> DEFINE typ == NextIns(Top.graph, t).op
             l == LabelOf(t, typ)
  <2>1. NextOp(t, {"D", "RET"}) /\ Handled(handleFree(Context, l))
    BY <1>8 DEF HandleFree
  <2>2. Scheduled(t) /\ NextIns(Top.graph, t).op \in {"D", "RET"}
    BY <1>1, <2>1
  <2> HIDE DEF typ
  <2>3. NextEvent(l, {"D", "RET"}) /\ l.ins = NextIns(Top.graph, t)
    BY <2>1, <2>2, ScheduledLabel DEF NextEvent, LabelOf, EventTypes, LoadOps, typ
  <2> HIDE DEF l
  <2>4. OtherEvent(l, handleFree(Context, l))
    BY <2>1, <2>3 DEF OtherEvent
  <2> QED BY <2>1, <2>2, <2>4
<1>9. CASE HandleDummy(t)
  <2> DEFINE typ == NextIns(Top.graph, t).op
             l == LabelOf(t, typ)
  <2>1. NextOp(t, {"F", "HP", "MB", "ME"}) /\ Handled(handleDummy(Context, l))
    BY <1>9 DEF HandleDummy
  <2>2. Scheduled(t) /\ NextIns(Top.graph, t).op \in {"F", "HP", "MB", "ME"}
    BY <1>1, <2>1
  <2> HIDE DEF typ
  <2>3. NextEvent(l, {"F", "HP", "MB", "ME"}) /\ l.ins = NextIns(Top.graph, t)
    BY <2>1, <2>2, ScheduledLabel DEF NextEvent, LabelOf, EventTypes, LoadOps, typ
  <2> HIDE DEF l
  <2>4. OtherEvent(l, handleDummy(Context, l))
    BY <2>1, <2>3 DEF OtherEvent
  <2> QED BY <2>1, <2>2, <2>4
<1>10. CASE HandleAssume(t)
  <2>1. NextOp(t, {"ASSUME"}) /\ Handled(handleAssume(Context, t))
    BY <1>10 DEF HandleAssume
  <2>2. Scheduled(t) /\ ThreadEvent(t, handleAssume(Context, t))
    BY <1>1, <2>1 DEF ThreadEvent
  <2> QED BY <2>1, <2>2
<1>11. CASE HandleThreadCreate(t)
  <2>1. NextOp(t, {"CREATE"}) /\ Handled(handleThreadCreate(Context, t))
    BY <1>11 DEF HandleThreadCreate
  <2>2. Scheduled(t) /\ ThreadEvent(t, handleThreadCreate(Context, t))
    BY <1>1, <2>1 DEF ThreadEvent
  <2> QED BY <2>1, <2>2
<1>12. CASE HandleThreadJoin(t)
  <2>1. NextOp(t, {"JOIN"}) /\ Handled(handleThreadJoin(Context, t))
    BY <1>12 DEF HandleThreadJoin
  <2>2. Scheduled(t) /\ ThreadEvent(t, handleThreadJoin(Context, t))
    BY <1>1, <2>1 DEF ThreadEvent
  <2> QED BY <2>1, <2>2
<1>13. CASE HandleThreadFinish(t)
  <2>1. NextOp(t, {"FINISH"}) /\ Handled(handleThreadFinish(Context, t))
    BY <1>13 DEF HandleThreadFinish
  <2>2. Scheduled(t) /\ ThreadEvent(t, handleThreadFinish(Context, t))
    BY <1>1, <2>1 DEF ThreadEvent
  <2> QED BY <2>1, <2>2
<1> QED BY <1>2, <1>3, <1>4, <1>5, <1>6, <1>7, <1>8, <1>9, <1>10, <1>11, <1>12, <1>13 DEF RunStep

(* The steps of the program keep the invariant, handler by handler. *)
LEMMA RunStepOK ==
  ASSUME CheckerOK, DriverInv, ProgramOK(prog), NEW t, RunStep(t)
  PROVE  DriverInv'
<1>1. Scheduled(t)
  BY StepHandler
<1>2. PICK l, d : Handled(d) /\ (Access(l, d) \/ OtherEvent(l, d) \/ ThreadEvent(t, d))
  BY StepHandler
<1>3. /\ ContextOK(prog, Context) /\ ~Context.moot /\ Context.internal = NoError /\ NoDangling(Context.x.graph)
      /\ Context.x = Top /\ t \in ThreadIds(Context.x.graph) /\ isSchedulable(Context.x.graph, t)
  BY <1>1 DEF Scheduled
<1>4. Handles(prog, d)
  <2>1. CASE Access(l, d)
    BY <1>3, <2>1, LoadOK, NALoadHandlerOK, StoreOK, NAStoreOK, RMWOK DEF Access, NextEvent
  <2>2. CASE OtherEvent(l, d)
    BY <1>3, <2>2, MallocOK, FreeOK, DummyOK DEF OtherEvent, NextEvent
  <2>3. CASE ThreadEvent(t, d)
    BY <1>3, <2>3, AssumeOK, ThreadCreateOK, ThreadJoinOK, ThreadFinishOK DEF ThreadEvent
  <2> QED BY <1>2, <2>1, <2>2, <2>3
<1> QED BY <1>1, <1>2, <1>4, HandledOK DEF Scheduled

(* handleExecutionEnd() keeps the invariant. *)
LEMMA ExecutionEndOK ==
  ASSUME DriverInv, HandleExecutionEnd
  PROVE  DriverInv'
<1>1. /\ phase = "run" /\ internalError = NoError /\ phase' = "done"
      /\ UNCHANGED <<prog, execStack, state, isMoot, warned, internalError>>
  BY DEF HandleExecutionEnd
<1>2. execStack # <<>> /\ StackOK(prog, execStack) /\ FlagsOK
  BY <1>1, TopOK
<1>3. /\ DOMAIN result' = DOMAIN result /\ result'.status = result.status
      /\ result'.explored \in Nat /\ result'.exploredBlocked \in Nat
  <2>1. /\ DOMAIN result = {"explored", "exploredBlocked", "status"}
        /\ result.explored \in Nat /\ result.exploredBlocked \in Nat
    BY <1>2 DEF FlagsOK
  <2>2. \/ result' = result
        \/ result' = [result EXCEPT !.exploredBlocked = result.exploredBlocked + 1]
        \/ result' = [result EXCEPT !.explored = result.explored + 1]
    BY DEF HandleExecutionEnd
  <2> QED BY <2>1, <2>2
<1>4. FlagsOK'
  BY <1>1, <1>2, <1>3 DEF FlagsOK
<1>5. NoDangling(Top.graph) \/ ErrorNext
  BY <1>1 DEF DriverInv
<1>6. NoDangling(Last(execStack').graph) \/ ErrorLast(Last(execStack'))
  BY <1>1, <1>5 DEF ErrorNext, ErrorLast, Top
<1> QED BY <1>1, <1>2, <1>4, <1>6, InvPartsNext

(* The item that done() takes, and the execution cut to it. *)
LEMMA TakenItem ==
  ASSUME CheckerOK, DriverInv, NEW kind, NextItem(kind)
  PROVE  LET item == Last(Top.workqueue)
             y == CutAt(Top, CutEvent(item))
         IN /\ execStack # <<>> /\ StackOK(prog, execStack) /\ FlagsOK
            /\ phase = "done" /\ internalError = NoError /\ item.kind = kind
            /\ ExecOK(prog, y) /\ ItemOK(y.graph, item)
            /\ Youngest(y.graph, CutEvent(item)) /\ IsLast(y.graph, CutEvent(item))
            /\ kind # "ERROR" => NoDangling(y.graph)
<1> DEFINE item == Last(Top.workqueue)
           y == CutAt(Top, CutEvent(item))
<1>1. phase = "done" /\ internalError = NoError /\ Top.workqueue # <<>> /\ item.kind = kind
  BY DEF NextItem
<1>2. execStack # <<>> /\ ExecOK(prog, Top) /\ StackOK(prog, execStack) /\ FlagsOK
  BY <1>1, TopOK
<1>3. kind # "ERROR" => NoDangling(Top.graph)
  BY <1>1 DEF DriverInv, ErrorNext
<1>4. /\ ExecOK(prog, y) /\ ItemOK(y.graph, item)
      /\ NoDangling(Top.graph) => NoDangling(y.graph)
      /\ Youngest(y.graph, CutEvent(item)) /\ IsLast(y.graph, CutEvent(item))
  BY <1>1, <1>2, CutAtOK
<1> HIDE DEF y, item
<1> QED BY <1>1, <1>2, <1>3, <1>4 DEF y, item

(* The program runs, or the next item is taken. *)
LEMMA ContinueOK ==
  ASSUME FlagsOK, phase = "done", NEW g, NEW item, NEW ok, Continue(g, item, ok),
         prog' = prog, warned' = warned, result' = result, execStack' # <<>>, StackOK(prog, execStack'),
         NoDangling(Last(execStack').graph)
  PROVE  DriverInv'
<1>1. phase' \in {"run", "done"} /\ isMoot' \in BOOLEAN
  BY DEF Continue
<1>2. FlagsOK'
  BY <1>1 DEF FlagsOK
<1> QED BY <1>2, InvPartsNext

(* The forward revisit of a read keeps the invariant. *)
LEMMA ForwardRevisitReadOK ==
  ASSUME CheckerOK, DriverInv, ProgramOK(prog), ForwardRevisitRead
  PROVE  DriverInv'
<1> DEFINE item == Last(Top.workqueue)
           y == CutAt(Top, CutEvent(item))
           rv == revisitRead(y, item.pos, item.rev)
<1>1. NextItem("RF") /\ UNCHANGED <<prog, result, warned, explored, internalError>>
  BY DEF ForwardRevisitRead
<1>2. CutEvent(item) = item.pos
  BY <1>1 DEF NextItem, CutEvent
<1>3. Restricted(item.pos) = y
  BY <1>2 DEF Restricted, CutAt
<1>4. SetTop(rv.exec) /\ Continue(rv.exec.graph, item, rv.ok)
  BY <1>3 DEF ForwardRevisitRead
<1>5. /\ execStack # <<>> /\ StackOK(prog, execStack) /\ FlagsOK /\ phase = "done" /\ item.kind = "RF"
      /\ ExecOK(prog, y) /\ ItemOK(y.graph, item)
      /\ IsLast(y.graph, CutEvent(item)) /\ NoDangling(y.graph)
  BY <1>1, TakenItem
<1> HIDE DEF item, y
<1>6. /\ item.pos \in Events(y.graph) /\ y.graph.lab[item.pos].typ = "R" /\ IsLast(y.graph, item.pos)
      /\ item.rev \in StoresOf(y.graph, item.pos)
  BY <1>2, <1>5 DEF ItemOK
<1>7. ExecOK(prog, rv.exec) /\ NoDangling(rv.exec.graph)
  BY <1>5, <1>6, RevisitReadOK
<1> HIDE DEF rv
<1>8. execStack' = WithTop(execStack, rv.exec)
  BY <1>4 DEF SetTop, WithTop
<1>9. StackOK(prog, execStack') /\ execStack' # <<>> /\ Last(execStack') = rv.exec
  BY <1>5, <1>7, <1>8, ReplaceTop
<1> QED BY <1>1, <1>4, <1>5, <1>7, <1>9, ContinueOK

(* The forward revisit of a write keeps the invariant. *)
LEMMA ForwardRevisitWriteOK ==
  ASSUME CheckerOK, DriverInv, ProgramOK(prog), ForwardRevisitWrite
  PROVE  DriverInv'
<1> DEFINE item == Last(Top.workqueue)
           y == CutAt(Top, CutEvent(item))
           rv == revisitWrite(y, item.pos, item.rev)
<1>1. NextItem("CO") /\ UNCHANGED <<prog, result, warned, explored, internalError>>
  BY DEF ForwardRevisitWrite
<1>2. CutEvent(item) = item.pos
  BY <1>1 DEF NextItem, CutEvent
<1>3. Restricted(item.pos) = y
  BY <1>2 DEF Restricted, CutAt
<1>4. SetTop(rv.exec) /\ Continue(rv.exec.graph, item, rv.ok)
  BY <1>3 DEF ForwardRevisitWrite
<1>5. /\ execStack # <<>> /\ StackOK(prog, execStack) /\ FlagsOK /\ phase = "done" /\ item.kind = "CO"
      /\ ExecOK(prog, y) /\ ItemOK(y.graph, item)
      /\ Youngest(y.graph, CutEvent(item)) /\ NoDangling(y.graph)
  BY <1>1, TakenItem
<1> HIDE DEF item, y
<1>6. /\ item.pos \in Events(y.graph) /\ y.graph.lab[item.pos].typ = "W" /\ Youngest(y.graph, item.pos)
      /\ item.pos \in StoresOf(y.graph, item.pos) /\ item.rev \in StoresOf(y.graph, item.pos) \ {item.pos}
  BY <1>2, <1>5 DEF ItemOK
<1>7. ExecOK(prog, rv.exec) /\ NoDangling(rv.exec.graph)
  BY <1>5, <1>6, RevisitWriteOK
<1> HIDE DEF rv
<1>8. execStack' = WithTop(execStack, rv.exec)
  BY <1>4 DEF SetTop, WithTop
<1>9. StackOK(prog, execStack') /\ execStack' # <<>> /\ Last(execStack') = rv.exec
  BY <1>5, <1>7, <1>8, ReplaceTop
<1> QED BY <1>1, <1>4, <1>5, <1>7, <1>9, ContinueOK

(* backwardRevisit() keeps the invariant. *)
LEMMA BackwardRevisitOK ==
  ASSUME CheckerOK, DriverInv, ProgramOK(prog), BackwardRevisit
  PROVE  DriverInv'
<1> DEFINE item == Last(Top.workqueue)
           x == CutAt(Top, CutEvent(item))
           y == Copied(x.graph, item)
           rv == revisitRead(y, item.pos, item.rev)
<1>1. NextItem("BR") /\ UNCHANGED <<prog, result, warned, explored>>
  BY DEF BackwardRevisit
<1>2. CutEvent(item) = item.rev
  BY <1>1 DEF NextItem, CutEvent
<1>3. Restricted(item.rev) = x
  BY <1>2 DEF Restricted, CutAt
<1>4. execStack' = Front(execStack) \o <<x, rv.exec>> /\ Continue(rv.exec.graph, item, rv.ok)
  BY <1>3 DEF BackwardRevisit
<1>5. /\ execStack # <<>> /\ StackOK(prog, execStack) /\ FlagsOK /\ phase = "done" /\ item.kind = "BR"
      /\ ExecOK(prog, x) /\ ItemOK(x.graph, item) /\ NoDangling(x.graph)
  BY <1>1, TakenItem
<1> HIDE DEF item, x
<1>6. /\ ExecOK(prog, y) /\ NoDangling(y.graph)
      /\ item.pos \in Events(y.graph) /\ y.graph.lab[item.pos].typ = "R" /\ IsLast(y.graph, item.pos)
      /\ item.rev \in StoresOf(y.graph, item.pos)
  BY <1>5, CopiedOK DEF ExecOK
<1> HIDE DEF y
<1>7. ExecOK(prog, rv.exec) /\ NoDangling(rv.exec.graph)
  BY <1>6, RevisitReadOK
<1> HIDE DEF rv
<1>8. StackOK(prog, execStack') /\ execStack' # <<>> /\ Last(execStack') = rv.exec
  <2> DEFINE z == rv.exec
  <2> HIDE DEF z
  <2>1. ExecOK(prog, z) /\ execStack' = Front(execStack) \o <<x, z>>
    BY <1>4, <1>7 DEF z
  <2>2. StackOK(prog, execStack') /\ execStack' # <<>> /\ Last(execStack') = z
    BY <1>5, <2>1, PushTop
  <2> QED BY <2>2 DEF z
<1> QED BY <1>1, <1>4, <1>5, <1>7, <1>8, ContinueOK

(* The replay of an error or a warning keeps the invariant. *)
LEMMA ErrorReplayOK ==
  ASSUME CheckerOK, DriverInv, ErrorReplay
  PROVE  DriverInv'
<1> DEFINE item == Last(Top.workqueue)
           y == CutAt(Top, CutEvent(item))
<1>1. PICK kind \in {"WARN", "ERROR"} : NextItem(kind)
  BY DEF ErrorReplay
<1>2. CutEvent(item) = item.pos /\ item.kind = kind
  BY <1>1 DEF NextItem, CutEvent
<1>3. Restricted(item.pos) = y
  BY <1>2 DEF Restricted, CutAt
<1>4. /\ SetTop(y) /\ phase' = IF item.kind = "ERROR" THEN "halted" ELSE "done"
      /\ result' = [result EXCEPT !.status = IF item.kind = "ERROR" THEN item.err ELSE result.status]
      /\ UNCHANGED <<prog, state, isMoot, warned, explored, internalError>>
  BY <1>3 DEF ErrorReplay
<1>5. /\ execStack # <<>> /\ StackOK(prog, execStack) /\ FlagsOK /\ phase = "done"
      /\ ExecOK(prog, y) /\ ItemOK(y.graph, item) /\ (kind # "ERROR" => NoDangling(y.graph))
  BY <1>1, TakenItem
<1> HIDE DEF item, y
<1>6. item.kind = "ERROR" => item.err # NoError
  BY <1>5 DEF ItemOK
<1>7. execStack' = WithTop(execStack, y)
  BY <1>4 DEF SetTop, WithTop
<1>8. StackOK(prog, execStack') /\ execStack' # <<>> /\ Last(execStack') = y
  BY <1>5, <1>7, ReplaceTop
<1>9. /\ DOMAIN result' = DOMAIN result
      /\ result'.explored = result.explored /\ result'.exploredBlocked = result.exploredBlocked
      /\ result'.status = IF item.kind = "ERROR" THEN item.err ELSE result.status
  BY <1>4, <1>5 DEF FlagsOK
<1>10. FlagsOK'
  BY <1>4, <1>5, <1>6, <1>8, <1>9 DEF FlagsOK
<1> QED BY <1>2, <1>4, <1>5, <1>8, <1>10, InvPartsNext

(* popExecution() keeps the invariant. *)
LEMMA PopExecutionOK ==
  ASSUME DriverInv, PopExecution
  PROVE  DriverInv'
<1>1. /\ phase = "done" /\ execStack' = Front(execStack)
      /\ phase' = IF Len(execStack) = 1 THEN "finished" ELSE "done"
      /\ UNCHANGED <<prog, state, isMoot, result, warned, explored, internalError>>
  BY DEF PopExecution
<1>2. execStack # <<>> /\ StackOK(prog, execStack) /\ FlagsOK
  BY <1>1, TopOK
<1>3. /\ StackOK(prog, execStack')
      /\ Len(execStack) # 1 => execStack' # <<>> /\ NoDangling(Last(execStack').graph)
  BY <1>1, <1>2, PopTop
<1>4. FlagsOK'
  BY <1>1, <1>2, <1>3 DEF FlagsOK
<1> QED BY <1>1, <1>3, <1>4, InvPartsNext

(* So does doing nothing. *)
LEMMA StutterOK ==
  ASSUME DriverInv, UNCHANGED vars
  PROVE  DriverInv'
<1>1. FlagsOK' /\ StackOK(prog', execStack')
  BY InvParts DEF vars, FlagsOK
<1>2. phase \in {"run", "done"} /\ internalError = NoError => NoDangling(Top.graph) \/ ErrorNext
  BY DEF DriverInv
<1> QED BY <1>1, <1>2, InvPartsNext DEF vars, ErrorNext, ErrorLast, Top

(* Every step of the driver keeps the invariant. *)
LEMMA InvStep ==
  ASSUME CheckerOK, \A p \in Programs : ProgramOK(p), DriverInv, [Next]_vars
  PROVE  DriverInv'
<1>1. ProgramOK(prog)
  BY DEF DriverInv
<1>2. CASE \E t \in ThreadIds(Top.graph) : RunStep(t)
  BY <1>1, <1>2, RunStepOK
<1>3. CASE HandleExecutionEnd
  BY <1>3, ExecutionEndOK
<1>4. CASE RevisitStep
  <2>1. CASE ForwardRevisitRead
    BY <1>1, <2>1, ForwardRevisitReadOK
  <2>2. CASE ForwardRevisitWrite
    BY <1>1, <2>2, ForwardRevisitWriteOK
  <2>3. CASE BackwardRevisit
    BY <1>1, <2>3, BackwardRevisitOK
  <2>4. CASE ErrorReplay
    BY <2>4, ErrorReplayOK
  <2>5. CASE PopExecution
    BY <2>5, PopExecutionOK
  <2> QED BY <1>4, <2>1, <2>2, <2>3, <2>4, <2>5 DEF RevisitStep
<1>5. CASE UNCHANGED vars
  BY <1>5, StutterOK
<1> QED BY <1>2, <1>3, <1>4, <1>5 DEF Next, Terminated

(******************************* The theorems ******************************)

(* The graph of the initializer satisfies the invariant. *)
LEMMA EmptyGraphOK ==
  ASSUME NEW p
  PROVE  GraphOK(p, EmptyGraph, {}) /\ Joins(EmptyGraph) /\ NoDangling(EmptyGraph)
<1> DEFINE g == EmptyGraph
           l == NewLabel(InitEvent, "INIT", 0, NoInstr, 0)
<1>1. /\ DOMAIN g = {"stamp", "lab", "co", "lin"} /\ DOMAIN g.lab = {InitEvent} /\ g.lab[InitEvent] = l
      /\ g.stamp = [e \in {InitEvent} |-> 0] /\ g.co = [k \in Locs |-> <<>>]
  BY DEF EmptyGraph
<1>2. l.typ = "INIT" /\ l.ip = 0 /\ l.val = 0 /\ l.rf = Bottom /\ l.prefix = {} /\ DOMAIN l = LabelFields
  BY DEF NewLabel, LabelFields
<1> HIDE DEF g, l
<1>3. Events(g) = {InitEvent} /\ InitEvent[1] = 0 /\ InitEvent[2] = 0 /\ InitEvent \in Nat \X Nat
  BY <1>1 DEF Events, InitEvent
<1>4. IsFiniteSet({InitEvent}) /\ Cardinality({InitEvent}) = 1
  BY FS_Singleton
<1>5. Shape(g)
  BY <1>1, <1>2, <1>3, <1>4 DEF Shape
<1>6. Stamps(g)
  <2>1. Stamp(g, InitEvent) = 0
    BY <1>1 DEF Stamp
  <2>2. g.stamp \in [Events(g) -> Nat]
    BY <1>1, <1>3
  <2> QED BY <1>3, <1>4, <2>1, <2>2 DEF Stamps
<1>7. PoOrder(g)
  BY <1>3 DEF PoOrder
<1>8. Kinds(g)
  BY <1>1, <1>2, <1>3 DEF Kinds, EventTypes
<1>9. ThreadIds(g) = {0}
  BY <1>3 DEF ThreadIds
<1>10. Threads(p, g)
  <2>1. \A e \in Events(g) : \A t \in 0 .. e[1] : <<t, 0>> \in Events(g)
    <3> SUFFICES ASSUME NEW t \in 0 .. 0 PROVE <<t, 0>> = InitEvent
      BY <1>3
    <3> QED BY DEF InitEvent
  <2> QED BY <1>1, <1>2, <1>9, <2>1 DEF Threads
<1>11. Texts(p, g)
  BY <1>1, <1>2, <1>3 DEF Texts
<1>12. CoherenceOK(g)
  <2>1. g.co \in [Locs -> Seq(Events(g))]
    BY <1>1
  <2>2. \A k \in Locs : g.co[k] = <<>> /\ DOMAIN g.co[k] = {} /\ ToSet(g.co[k]) = {}
    BY <1>1 DEF ToSet
  <2> QED BY <2>1, <2>2 DEF CoherenceOK
<1>13. Reads(g) = {} /\ ReadsFrom(g)
  BY <1>1, <1>2, <1>3 DEF Reads, OfType, ReadsFrom
<1>14. StoreFirst(g) /\ Blocked(g) /\ NoDangling(g)
  BY <1>13 DEF StoreFirst, Blocked, NoDangling
<1>15. FullPrefix(g, InitEvent) = {}
  BY <1>1, <1>2, <1>3 DEF FullPrefix, UpTo
<1>16. PrefixesOK(g, {})
  <2>1. PrefixOK(g, InitEvent)
    BY <1>1, <1>2, <1>3, <1>15 DEF PrefixOK
  <2> QED BY <1>1, <1>2, <1>3, <2>1 DEF PrefixesOK
<1>17. Joins(g)
  BY <1>1, <1>2, <1>3 DEF Joins
<1> QED BY <1>5, <1>6, <1>7, <1>8, <1>10, <1>11, <1>12, <1>13, <1>14, <1>16, <1>17 DEF GraphOK, g

(* The invariant holds at the start. *)
LEMMA InvInit ==
  ASSUME Init
  PROVE  DriverInv
<1> DEFINE x == [graph |-> EmptyGraph, workqueue |-> <<>>]
<1>1. execStack = <<x>>
  BY DEF Init
<1>2. ExecOK(prog, x) /\ NoDangling(x.graph)
  <2>1. ItemsOK(EmptyGraph, <<>>)
    BY DEF ItemsOK, IsSeq, ToSet
  <2> QED BY <2>1, EmptyGraphOK DEF ExecOK
<1> HIDE DEF x
<1>3. execStack # <<>> /\ Len(execStack) = 1 /\ DOMAIN execStack = {1} /\ execStack[1] = x /\ execStack \in Seq({x})
  BY <1>1
<1>4. IsSeq(execStack)
  BY <1>3, SeqFacts
<1>5. StackOK(prog, execStack)
  BY <1>2, <1>3, <1>4 DEF StackOK
<1>6. Top = x
  BY <1>3 DEF Top, Last
<1>7. FlagsOK
  BY <1>3 DEF Init, FlagsOK
<1> QED BY <1>2, <1>5, <1>6, <1>7, InvParts

(* The driver's invariant, for all programs of which main creates the       *)
(* threads, all schedules and every checker that finds the coherent stores, *)
(* placings and revisits as those of SC, TSO, RA and RC11 do: in every      *)
(* graph on the stack, stamps follow program order, every thread has its    *)
(* creation, reads read from stores of their location or have been cut off  *)
(* from them, prefixes are closed, and every item refers to events that its *)
(* cut leaves.                                                              *)
THEOREM DriverInvariant ==
  ASSUME CheckerOK, \A p \in Programs : ProgramOK(p)
  PROVE  Spec => []DriverInv
<1>1. Init => DriverInv
  BY InvInit
<1>2. DriverInv /\ [Next]_vars => DriverInv'
  BY InvStep
<1> QED BY <1>1, <1>2, PTL DEF Spec

(* The driver's variables have their types. *)
THEOREM DriverTypes ==
  ASSUME CheckerOK, \A p \in Programs : ProgramOK(p)
  PROVE  Spec => []TypeOK
<1>1. DriverInv => TypeOK
  BY DEF DriverInv
<1> QED BY <1>1, DriverInvariant, PTL

(* A stack of items is enough (WorkList): items lie in the order of the     *)
(* stamps at which they cut, so an item that is taken never cuts away the   *)
(* event that an older one refers to (restrict() in forwardRevisit and      *)
(* backwardRevisit).                                                        *)
THEOREM StackSufficesAlways ==
  ASSUME CheckerOK, \A p \in Programs : ProgramOK(p)
  PROVE  Spec => []StackSuffices
<1>1. DriverInv => StackSuffices
  BY DEF DriverInv, StackOK, ExecOK, ItemsOK, ItemOK, StackSuffices
<1> QED BY <1>1, DriverInvariant, PTL

(* handleThreadJoin() and handleThreadFinish() miss each other in no order, *)
(* and after no cut or copy: while the program runs, no thread waits for    *)
(* one that has finished.                                                   *)
THEOREM JoinsNeverStuck ==
  ASSUME CheckerOK, \A p \in Programs : ProgramOK(p)
  PROVE  Spec => []NoStuckJoin
<1>1. ASSUME DriverInv, Running, NEW q \in ThreadIds(Top.graph), NEW t \in ThreadIds(Top.graph),
             WaitsFor(Top.graph, q, t), NEW f \in Finish(Top.graph, t)
      PROVE  FALSE
  <2> DEFINE g == Top.graph
             b == <<q, LastIndex(g, q)>>
  <2>1. GraphOK(prog, g, {}) /\ Joins(g)
    BY <1>1, TopOK DEF Running, ExecOK
  <2>2. b \in Events(g) /\ g.lab[b].typ = "B" /\ g.lab[b].ins.op = "JOIN" /\ g.lab[b].val = t
    BY <1>1, <2>1, ThreadEnd DEF WaitsFor, LastLabel
  <2>3. f \in Events(g) /\ f[1] = t /\ g.lab[f].typ = "TF"
    BY <1>1 DEF Finish
  <2> QED BY <2>1, <2>2, <2>3 DEF Joins
<1>2. DriverInv => NoStuckJoin
  BY <1>1 DEF NoStuckJoin
<1> QED BY <1>2, DriverInvariant, PTL

(* With atomic loads only, the program never runs on a graph with a read    *)
(* that lost its store: repairing the last reads of threads                 *)
(* (repairDanglingReads) is enough, after every cut and every copy.         *)
THEOREM ReadsNeverDangle ==
  ASSUME CheckerOK, \A p \in Programs : ProgramOK(p) /\ AtomicLoads(p)
  PROVE  Spec => []NoDanglingReads
<1>1. ASSUME DriverInv, Running, NEW r \in Reads(Top.graph) PROVE Top.graph.lab[r].rf # Bottom
  <2>1. GraphOK(prog, Top.graph, {}) /\ prog \in Programs
    BY <1>1, TopOK DEF Running, ExecOK, DriverInv
  <2>2. NoDangling(Top.graph)
    BY <1>1 DEF DriverInv, ErrorNext, Running
  <2>3. Top.graph.lab[r].ins.mo # "na"
    BY <1>1, <2>1, ReadsAreAtomic
  <2> QED BY <1>1, <2>2, <2>3 DEF NoDangling
<1>2. DriverInv => NoDanglingReads
  BY <1>1 DEF NoDanglingReads
<1>3. \A p \in Programs : ProgramOK(p)
  OBVIOUS
<1> QED BY <1>2, <1>3, DriverInvariant, PTL

===============================================================================
