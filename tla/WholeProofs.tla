----------------------------- MODULE WholeProofs ------------------------------
(***************************************************************************)
(* The driver leaves nothing half done (WellFormed): every write is in     *)
(* coherence and every RMW that succeeds has its write, in each execution  *)
(* on the stack.  A handler finishes the event that it adds, a revisit the *)
(* read that it redirects, and no cut or copy comes between the load and   *)
(* the store of an RMW or takes away the store that the load reads.        *)
(***************************************************************************)
EXTENDS SettledProofs

(***************************** What is whole *******************************)

(* What the read of an RMW is. *)
LEMMA RMWReadIs ==
  ASSUME NEW g, NEW r
  PROVE  r \in RMWReads(g) <=>
           /\ r \in Events(g) /\ g.lab[r].typ = "R" /\ IsRMWOp(g.lab[r].ins)
           /\ NextOf(r) \in Events(g) /\ g.lab[NextOf(r)].typ = "W" /\ g.lab[NextOf(r)].ip = g.lab[r].ip
BY DEF RMWReads, Reads, OfType, IsRMWRead, po_imm_succ, NextOf

(* The event before another one of its thread. *)
LEMMA NextIn ==
  ASSUME NEW p, NEW g, NEW X, GraphOK(p, g, X), NEW e \in Nat \X Nat, NextOf(e) \in Events(g)
  PROVE  /\ e \in Events(g) /\ Stamp(g, e) < Stamp(g, NextOf(e))
         /\ Stamp(g, e) \in Nat /\ Stamp(g, NextOf(e)) \in Nat
<1>1. NextOf(e)[1] = e[1] /\ NextOf(e)[2] = e[2] + 1 /\ e[2] \in 0 .. NextOf(e)[2] - 1 /\ e = <<e[1], e[2]>>
      /\ e[2] \in Nat
  BY DEF NextOf
<1>2. <<e[1], e[2]>> \in Events(g) /\ Stamp(g, <<e[1], e[2]>>) < Stamp(g, NextOf(e))
  BY <1>1 DEF GraphOK, PoOrder
<1> QED BY <1>1, <1>2, StampFacts

(* An event is the next one of one event only. *)
LEMMA NextOnce ==
  ASSUME NEW d \in Nat \X Nat, NEW e \in Nat \X Nat, NextOf(d) = NextOf(e)
  PROVE  d = e
<1>1. d[1] = e[1] /\ d[2] + 1 = e[2] + 1 /\ d[2] \in Nat /\ e[2] \in Nat /\ d = <<d[1], d[2]>> /\ e = <<e[1], e[2]>>
  BY DEF NextOf
<1>2. d[2] = e[2]
  BY <1>1
<1> QED BY <1>1, <1>2

(* A read that asks for a write belongs to an RMW. *)
LEMMA AskingIs ==
  ASSUME NEW g, NEW r, AsksForWrite(g, r)
  PROVE  IsRMWOp(g.lab[r].ins) /\ g.lab[r].ins.op # "R" /\ g.lab[r].rf # Bottom
BY DEF AsksForWrite, valueMakesRMWSucceed, IsRMWOp

(* From g to h: common events are the same, in the same order; new ones are *)
(* newer; coherence and what is settled only grow.                          *)
Moves(g, h) ==
    LET T == Events(g) \cap Events(h)
    IN /\ \A e \in T : /\ h.lab[e].typ = g.lab[e].typ /\ h.lab[e].ip = g.lab[e].ip
                       /\ h.lab[e].ins = g.lab[e].ins /\ h.lab[e].val = g.lab[e].val
       /\ \A d, e \in T : Stamp(h, d) < Stamp(h, e) <=> Stamp(g, d) < Stamp(g, e)
       /\ \A d \in T : \A e \in Events(h) \ Events(g) : Stamp(h, d) < Stamp(h, e)
       /\ \A l \in Locs : ToSet(g.co[l]) \cap T \subseteq ToSet(h.co[l])
       /\ Settled(g) \cap Events(h) \subseteq Settled(h)

(* Apart from Z, RMWs keep their stores and their writes. *)
KeepsRMWs(g, h, Z) ==
    /\ \A r \in Reads(g) \ Z : r \in Events(h) /\ g.lab[r].ins.op # "R" => h.lab[r].rf = g.lab[r].rf
    /\ \A r \in RMWReads(g) \ Z : r \in Events(h) => NextOf(r) \in Events(h)
(* RMWs that get a new write are not split. *)
NewUnsplit(g, h) ==
    \A r \in RMWReads(h) : NextOf(r) \notin Events(g) => Between(h, r, NextOf(r)) \subseteq Settled(h)

(* The reads of RMWs in both graphs. *)
LEMMA MovedRMW ==
  ASSUME NEW g, NEW h, Moves(g, h), NEW r, r \in Events(g) \cap Events(h), NextOf(r) \in Events(g) \cap Events(h)
  PROVE  r \in RMWReads(g) <=> r \in RMWReads(h)
BY RMWReadIs DEF Moves

(* Writes stay in coherence. *)
LEMMA PlacedStep ==
  ASSUME NEW p, NEW g, NEW h, NEW X0, GraphOK(p, g, X0), Moves(g, h), NEW X, Placed(g, X)
  PROVE  Placed(h, X \cup (Events(h) \ Events(g)))
<1> SUFFICES ASSUME NEW w \in Writes(h), w \notin X, w \in Events(g)
             PROVE  w \in ToSet(h.co[Loc(h, w)])
  BY DEF Placed, Writes, OfType
<1>1. w \in Events(g) \cap Events(h) /\ h.lab[w].typ = "W"
  BY DEF Writes, OfType
<1>2. g.lab[w].typ = "W" /\ Loc(h, w) = Loc(g, w)
  BY <1>1 DEF Moves, Loc
<1>3. w \in ToSet(g.co[Loc(g, w)]) /\ Loc(g, w) \in Locs
  BY <1>2 DEF Placed, Writes, OfType, GraphOK, Texts, Loc
<1> QED BY <1>1, <1>2, <1>3 DEF Moves

(* A common read of an RMW whose store is the same. *)
LEMMA SameStore ==
  ASSUME NEW p, NEW g, NEW h, NEW X0, NEW Y0, GraphOK(p, g, X0), GraphOK(p, h, Y0), Moves(g, h),
         NEW Z, KeepsRMWs(g, h, Z), NEW r \in Reads(h), r \notin Z, r \in Events(g),
         h.lab[r].ins.op # "R", h.lab[r].rf # Bottom
  PROVE  /\ r \in Reads(g) /\ r \in Events(h) /\ g.lab[r].ins = h.lab[r].ins /\ g.lab[r].rf = h.lab[r].rf
         /\ h.lab[r].rf \in Events(g) \cap Events(h)
         /\ ReadValue(h, r) = ReadValue(g, r)
<1>1. r \in Events(h) /\ h.lab[r].typ = "R"
  BY DEF Reads, OfType
<1>2. r \in Reads(g) /\ g.lab[r].ins = h.lab[r].ins
  BY <1>1 DEF Moves, Reads, OfType
<1>3. g.lab[r].rf = h.lab[r].rf
  BY <1>1, <1>2 DEF KeepsRMWs
<1>4. h.lab[r].rf \in Events(g)
  BY <1>3, StoreIsEvent
<1>5. h.lab[r].rf \in Events(h)
  BY <1>1, StoreIsEvent
<1>6. ReadValue(h, r) = ReadValue(g, r)
  BY <1>3, <1>4, <1>5 DEF ReadValue, ValueOf, Moves
<1> QED BY <1>1, <1>2, <1>3, <1>4, <1>5, <1>6

(* RMWs stay completed. *)
LEMMA CompletedStep ==
  ASSUME NEW p, NEW g, NEW h, NEW X0, NEW Y0, GraphOK(p, g, X0), GraphOK(p, h, Y0), Moves(g, h),
         NEW X, Completed(g, X), NEW Z, KeepsRMWs(g, h, Z)
  PROVE  Completed(h, X \cup Z \cup (Events(h) \ Events(g)))
<1> SUFFICES ASSUME NEW r \in Reads(h), r \notin X, r \notin Z, r \in Events(g), AsksForWrite(h, r)
             PROVE  r \in RMWReads(h)
  BY DEF Completed, Reads, OfType
<1>1. h.lab[r].ins.op # "R" /\ h.lab[r].rf # Bottom
  BY AskingIs
<1>2. /\ r \in Reads(g) /\ r \in Events(h) /\ g.lab[r].ins = h.lab[r].ins /\ g.lab[r].rf = h.lab[r].rf
      /\ ReadValue(h, r) = ReadValue(g, r)
  BY <1>1, SameStore
<1>3. AsksForWrite(g, r)
  BY <1>2 DEF AsksForWrite, valueMakesRMWSucceed
<1>4. r \in RMWReads(g)
  BY <1>2, <1>3 DEF Completed
<1>5. NextOf(r) \in Events(h) /\ NextOf(r) \in Events(g)
  BY <1>2, <1>4, RMWReadIs DEF KeepsRMWs
<1> QED BY <1>2, <1>4, <1>5, MovedRMW

(* Stores of RMWs stay older than their reads, or settled. *)
LEMMA MovedOlder ==
  ASSUME NEW p, NEW g, NEW h, Moves(g, h), NEW r, NEW w, StoreOlder(g, r, w),
         r \in Events(g) \cap Events(h), w \in Events(g) \cap Events(h)
  PROVE  StoreOlder(h, r, w)
BY DEF StoreOlder, Moves

(* All loads of RMWs that keep their store have one that is older, or       *)
(* settled.                                                                 *)
LEMMA OlderStoresStep ==
  ASSUME NEW p, NEW g, NEW h, NEW X0, NEW Y0, GraphOK(p, g, X0), GraphOK(p, h, Y0), Moves(g, h),
         NEW X, OlderStores(g, X), NEW Z, KeepsRMWs(g, h, Z)
  PROVE  OlderStores(h, X \cup Z \cup (Events(h) \ Events(g)))
<1> SUFFICES ASSUME NEW r \in Reads(h), r \notin X, r \notin Z, r \in Events(g),
                    h.lab[r].ins.op # "R", h.lab[r].rf # Bottom
             PROVE  StoreOlder(h, r, h.lab[r].rf)
  BY DEF OlderStores, Reads, OfType
<1>1. /\ r \in Reads(g) /\ r \in Events(h) /\ g.lab[r].ins = h.lab[r].ins /\ g.lab[r].rf = h.lab[r].rf
      /\ h.lab[r].rf \in Events(g) \cap Events(h)
  BY SameStore
<1>2. StoreOlder(g, r, h.lab[r].rf)
  BY <1>1 DEF OlderStores
<1> QED BY <1>1, <1>2, MovedOlder

(* RMWs stay unsplit. *)
LEMMA UnsplitStep ==
  ASSUME NEW p, NEW g, NEW h, NEW X0, NEW Y0, GraphOK(p, g, X0), GraphOK(p, h, Y0), Moves(g, h),
         Unsplit(g), NewUnsplit(g, h)
  PROVE  Unsplit(h)
<1> SUFFICES ASSUME NEW r \in RMWReads(h), NextOf(r) \in Events(g), NEW e \in Between(h, r, NextOf(r))
             PROVE  e \in Settled(h)
  BY DEF Unsplit, NewUnsplit
<1> DEFINE w == NextOf(r)
<1>1. r \in Events(h) /\ w \in Events(h) /\ r \in Nat \X Nat
  BY RMWReadIs, EventsArePairs
<1>2. r \in Events(g)
  BY <1>1, NextIn
<1>3. r \in RMWReads(g)
  BY <1>1, <1>2, MovedRMW
<1> HIDE DEF w
<1>4. e \in Events(h) /\ e[2] > 0 /\ Stamp(h, r) < Stamp(h, e) /\ Stamp(h, e) < Stamp(h, w)
  BY DEF Between, w
<1>5. Stamp(h, e) \in Nat /\ Stamp(h, w) \in Nat
  BY <1>1, <1>4, StampFacts
<1>6. e \in Events(g)
  <2>1. ~(Stamp(h, w) < Stamp(h, e))
    BY <1>4, <1>5
  <2> QED BY <1>1, <1>4, <2>1 DEF Moves, w
<1>7. Stamp(g, r) < Stamp(g, e) /\ Stamp(g, e) < Stamp(g, w)
  <2>1. {r, e, w} \subseteq Events(g) \cap Events(h)
    BY <1>1, <1>2, <1>4, <1>6 DEF w
  <2> QED BY <1>4, <2>1 DEF Moves
<1>8. e \in Settled(g)
  BY <1>3, <1>4, <1>6, <1>7 DEF Unsplit, Between, w
<1> QED BY <1>4, <1>8 DEF Moves

(* What was whole is whole, but for what is new and what lost its store.    *)
LEMMA WholeStep ==
  ASSUME NEW p, NEW g, NEW h, NEW X0, NEW Y0, GraphOK(p, g, X0), GraphOK(p, h, Y0), Moves(g, h),
         NEW X, Whole(g, X), NEW Z, KeepsRMWs(g, h, Z), NewUnsplit(g, h)
  PROVE  Whole(h, X \cup Z \cup (Events(h) \ Events(g)))
<1>1. Placed(h, X \cup (Events(h) \ Events(g)))
  BY PlacedStep DEF Whole
<1>2. Placed(h, X \cup Z \cup (Events(h) \ Events(g)))
  BY <1>1 DEF Placed
<1> QED BY <1>2, CompletedStep, OlderStoresStep, UnsplitStep DEF Whole

(* An event that is finished: a write is placed; the read of an RMW has its *)
(* write.                                                                   *)
Finished(g, e) ==
    /\ e \in Writes(g) => e \in ToSet(g.co[Loc(g, e)])
    /\ e \in Reads(g) =>
          /\ AsksForWrite(g, e) => e \in RMWReads(g)
          /\ g.lab[e].ins.op # "R" /\ g.lab[e].rf # Bottom => StoreOlder(g, e, g.lab[e].rf)

(* A graph is whole but for what is not finished. *)
LEMMA WholeFinished ==
  ASSUME NEW g, NEW X, Whole(g, X), NEW Y, \A e \in X \ Y : Finished(g, e)
  PROVE  Whole(g, Y)
BY DEF Whole, Placed, Completed, OlderStores, Finished

(* Other events, and reads that are no RMWs, are always finished. *)
LEMMA OthersFinished ==
  ASSUME NEW g, NEW e, e \in Events(g) => g.lab[e].typ \notin {"R", "W"} \/ (g.lab[e].typ = "R" /\ g.lab[e].ins.op = "R")
  PROVE  Finished(g, e)
BY AskingIs DEF Finished, Reads, Writes, OfType

(************************ Changes of what is whole *************************)

(* Stores of events stay within them: a change of labels or of coherence.   *)
LEMMA TextMoves ==
  ASSUME NEW g, NEW h, SameText(g, h), \A l \in Locs : ToSet(g.co[l]) \subseteq ToSet(h.co[l]),
         Settled(g) \subseteq Settled(h)
  PROVE  Moves(g, h) /\ NewUnsplit(g, h) /\ Events(h) = Events(g)
<1>1. Moves(g, h)
  BY DEF Moves, SameText, Stamp
<1>2. NewUnsplit(g, h)
  BY RMWReadIs DEF NewUnsplit, SameText
<1> QED BY <1>1, <1>2 DEF SameText

(* Such a change keeps a graph whole, but for RMWs that got another store.  *)
LEMMA TextWhole ==
  ASSUME NEW p, NEW g, NEW h, NEW X0, NEW Y0, GraphOK(p, g, X0), GraphOK(p, h, Y0),
         SameText(g, h), \A l \in Locs : ToSet(g.co[l]) \subseteq ToSet(h.co[l]), Settled(g) \subseteq Settled(h),
         NEW X, Whole(g, X), NEW Z,
         \A r \in Reads(g) \ Z : g.lab[r].ins.op # "R" => h.lab[r].rf = g.lab[r].rf
  PROVE  Whole(h, X \cup Z)
<1>1. Moves(g, h) /\ NewUnsplit(g, h) /\ Events(h) = Events(g)
  BY TextMoves
<1>2. KeepsRMWs(g, h, Z)
  BY <1>1, RMWReadIs DEF KeepsRMWs
<1>3. Whole(h, X \cup Z \cup (Events(h) \ Events(g)))
  BY <1>1, <1>2, WholeStep
<1>4. X \cup Z \cup (Events(h) \ Events(g)) = X \cup Z
  BY <1>1
<1> QED BY <1>3, <1>4

(* Only settled events are newer than r. *)
AfterSettled(g, r) == \A e \in Events(g) : e[2] > 0 /\ Stamp(g, r) < Stamp(g, e) => e \in Settled(g)
(* The new label l is the write of an RMW only where nothing else follows. *)
RMWAfter(g, l) ==
    \A r \in Reads(g) : NextOf(r) = l.pos /\ l.typ = "W" /\ IsRMWOp(g.lab[r].ins) /\ l.ip = g.lab[r].ip
                          => AfterSettled(g, r)

(* A new event leaves the others as they are. *)
LEMMA AppendMoves ==
  ASSUME NEW p, NEW g, NEW h, NEW X0, NEW Y0, GraphOK(p, g, X0), GraphOK(p, h, Y0),
         NEW l, Appended(g, h, l), Stays(g, h)
  PROVE  Moves(g, h)
<1> DEFINE T == Events(g) \cap Events(h)
<1>1. T = Events(g)
  BY DEF Appended
<1>2. \A e \in T : /\ h.lab[e].typ = g.lab[e].typ /\ h.lab[e].ip = g.lab[e].ip
                   /\ h.lab[e].ins = g.lab[e].ins /\ h.lab[e].val = g.lab[e].val
  BY DEF Appended
<1>3. ASSUME NEW d \in T, NEW e \in T
      PROVE  Stamp(h, d) < Stamp(h, e) <=> Stamp(g, d) < Stamp(g, e)
  <2>1. Stamp(g, d) \in Nat /\ Stamp(g, e) \in Nat /\ Stamp(h, d) \in Nat /\ Stamp(h, e) \in Nat
    BY StampFacts
  <2>2. Stamp(g, d) = Stamp(g, e) => d = e
    BY DEF GraphOK, Stamps
  <2>3. Stamp(h, d) = Stamp(h, e) => d = e
    BY DEF GraphOK, Stamps
  <2>4. Stamp(g, d) <= Stamp(g, e) => Stamp(h, d) <= Stamp(h, e)
    BY DEF Appended, Keeps
  <2>5. Stamp(g, e) <= Stamp(g, d) => Stamp(h, e) <= Stamp(h, d)
    BY DEF Appended, Keeps
  <2> QED BY <2>1, <2>2, <2>3, <2>4, <2>5
<1>4. ASSUME NEW d \in T, NEW e \in Events(h) \ Events(g)
      PROVE  Stamp(h, d) < Stamp(h, e)
  <2>1. e = l.pos /\ d # l.pos /\ Stamp(h, d) <= Stamp(h, e)
    BY DEF Appended, IsNewest
  <2>2. Stamp(h, d) # Stamp(h, e)
    BY <2>1 DEF GraphOK, Stamps
  <2> QED BY <2>1, <2>2, StampFacts
<1>5. \A j \in Locs : ToSet(g.co[j]) \cap T \subseteq ToSet(h.co[j])
  BY DEF Appended
<1>6. Settled(g) \cap Events(h) \subseteq Settled(h)
  BY DEF Stays
<1> QED BY <1>2, <1>3, <1>4, <1>5, <1>6 DEF Moves

(* A new event keeps a graph whole, but for itself. *)
LEMMA AppendWhole ==
  ASSUME NEW p, NEW g, NEW h, NEW X0, NEW Y0, GraphOK(p, g, X0), GraphOK(p, h, Y0),
         NEW l, Appended(g, h, l), Stays(g, h), RMWAfter(g, l), NEW X, Whole(g, X)
  PROVE  Whole(h, X \cup {l.pos})
<1>1. Moves(g, h)
  BY AppendMoves
<1>2. KeepsRMWs(g, h, {})
  BY RMWReadIs DEF KeepsRMWs, Appended, Reads, OfType
<1>3. NewUnsplit(g, h)
  <2> SUFFICES ASSUME NEW r \in RMWReads(h), NextOf(r) \notin Events(g), NEW e \in Between(h, r, NextOf(r))
               PROVE  e \in Settled(h)
    BY DEF NewUnsplit
  <2>1. /\ r \in Events(h) /\ h.lab[r].typ = "R" /\ IsRMWOp(h.lab[r].ins) /\ r \in Nat \X Nat
        /\ NextOf(r) = l.pos /\ h.lab[l.pos].typ = "W" /\ h.lab[l.pos].ip = h.lab[r].ip
    BY RMWReadIs, EventsArePairs DEF Appended
  <2>2. r \in Events(g) /\ h.lab[r] = g.lab[r]
    BY <2>1 DEF Appended
  <2>3. AfterSettled(g, r)
    BY <2>1, <2>2 DEF RMWAfter, Appended, Reads, OfType
  <2>4. e \in Events(h) /\ e[2] > 0 /\ Stamp(h, r) < Stamp(h, e) /\ Stamp(h, e) < Stamp(h, l.pos)
    BY <2>1 DEF Between
  <2>5. e \in Events(g)
    <3>1. e # l.pos
      <4>1. Stamp(h, e) \in Nat
        BY <2>4, StampFacts
      <4> QED BY <4>1, <2>4
    <3> QED BY <2>4, <3>1 DEF Appended
  <2>6. Stamp(g, r) < Stamp(g, e)
    BY <1>1, <2>1, <2>2, <2>4, <2>5 DEF Moves
  <2> QED BY <2>3, <2>4, <2>5, <2>6 DEF AfterSettled, Stays
<1>4. Whole(h, X \cup {} \cup (Events(h) \ Events(g)))
  BY <1>1, <1>2, <1>3, WholeStep
<1>5. X \cup {} \cup (Events(h) \ Events(g)) = X \cup {l.pos}
  BY DEF Appended
<1> QED BY <1>4, <1>5

(* A new event that is no access keeps a graph whole. *)
LEMMA AppendOther ==
  ASSUME NEW p, NEW g, NEW h, NEW X0, NEW Y0, GraphOK(p, g, X0), GraphOK(p, h, Y0),
         NEW l, Appended(g, h, l), Stays(g, h), l.typ \notin {"R", "W"}, NEW X, Whole(g, X)
  PROVE  Whole(h, X)
<1>1. Whole(h, X \cup {l.pos})
  BY AppendWhole DEF RMWAfter
<1>2. Finished(h, l.pos)
  BY OthersFinished DEF Appended
<1>3. \A e \in (X \cup {l.pos}) \ X : Finished(h, e)
  BY <1>2
<1> HIDE DEF Finished
<1> QED BY <1>1, <1>3, WholeFinished

(* Fewer events, in the same order. *)
LEMMA ShrunkMoves ==
  ASSUME NEW g, NEW k, NEW K, Shrunk(g, k, K), Settled(g) \cap K \subseteq Settled(k)
  PROVE  Moves(g, k) /\ NewUnsplit(g, k) /\ Events(k) = K /\ Events(k) \ Events(g) = {}
<1>1. Moves(g, k)
  BY DEF Moves, Shrunk
<1>2. NewUnsplit(g, k)
  BY RMWReadIs DEF NewUnsplit, Shrunk
<1> QED BY <1>1, <1>2 DEF Shrunk

(* A part of a graph that separates no RMW from its store or its write is   *)
(* whole.                                                                   *)
LEMMA ShrunkWhole ==
  ASSUME NEW p, NEW g, NEW k, NEW X0, NEW Y0, GraphOK(p, g, X0), GraphOK(p, k, Y0),
         NEW K, Shrunk(g, k, K), Settled(g) \cap K \subseteq Settled(k), NEW X, Whole(g, X), NEW Z,
         \A r \in Reads(g) \ Z : r \in K /\ g.lab[r].ins.op # "R" => g.lab[r].rf \in K \cup {Bottom},
         \A r \in RMWReads(g) \ Z : r \in K => NextOf(r) \in K
  PROVE  Whole(k, X \cup Z)
<1>1. Moves(g, k) /\ NewUnsplit(g, k) /\ Events(k) = K /\ Events(k) \ Events(g) = {}
  BY ShrunkMoves
<1>2. KeepsRMWs(g, k, Z)
  <2>1. \A r \in Reads(g) \ Z : r \in K /\ g.lab[r].ins.op # "R" => k.lab[r].rf = g.lab[r].rf
    BY DEF Shrunk
  <2> QED BY <1>1, <2>1 DEF KeepsRMWs
<1>3. Whole(k, X \cup Z \cup (Events(k) \ Events(g)))
  BY <1>1, <1>2, WholeStep
<1>4. X \cup Z \cup (Events(k) \ Events(g)) = X \cup Z
  BY <1>1
<1> QED BY <1>3, <1>4

(* Taking blocks away keeps a graph whole. *)
LEMMA BlocksGoWhole ==
  ASSUME NEW p, NEW g, NEW k, NEW X0, NEW Y0, GraphOK(p, g, X0), GraphOK(p, k, Y0),
         NEW K, Shrunk(g, k, K), \A e \in K : k.lab[e] = g.lab[e], \A e \in Events(g) \ K : g.lab[e].typ = "B",
         NEW X, Whole(g, X)
  PROVE  Whole(k, X)
<1>1. Settled(g) \cap K \subseteq Settled(k)
  BY DEF Settled, Shrunk
<1>2. \A r \in Reads(g) \ {} : r \in K /\ g.lab[r].ins.op # "R" => g.lab[r].rf \in K \cup {Bottom}
  <2> SUFFICES ASSUME NEW r \in Reads(g), r \in K, g.lab[r].rf # Bottom
               PROVE  g.lab[r].rf \in K
    OBVIOUS
  <2>1. r \in Events(g)
    BY DEF Reads, OfType
  <2>2. g.lab[r].rf \in Events(g) /\ (g.lab[r].rf = InitEvent \/ g.lab[g.lab[r].rf].typ = "W")
    BY <2>1, StoreIsEvent
  <2>3. g.lab[InitEvent].typ = "INIT"
    BY DEF GraphOK, Kinds, Shape
  <2> QED BY <2>2, <2>3
<1>3. \A r \in RMWReads(g) \ {} : r \in K => NextOf(r) \in K
  BY RMWReadIs
<1>4. Whole(k, X \cup {})
  BY <1>1, <1>2, <1>3, ShrunkWhole
<1>5. X \cup {} = X
  OBVIOUS
<1> QED BY <1>4, <1>5

(************************* Cuts and copies are whole ***********************)

(* RMWs are atomic accesses, and have stores where atomic loads have them. *)
LEMMA RMWHasItsStore ==
  ASSUME NEW p, NEW g, NEW X, GraphOK(p, g, X), ProgramOK(p), NEW r \in Reads(g), g.lab[r].ins.op # "R"
  PROVE  g.lab[r].ins.mo # "na" /\ (NoDangling(g) => g.lab[r].rf # Bottom)
<1> DEFINE f == g.lab[<<r[1], 0>>].val + 1
<1>1. /\ f \in DOMAIN p /\ g.lab[r].ip \in DOMAIN p[f] /\ g.lab[r].ins = p[f][g.lab[r].ip]
      /\ g.lab[r].ins.op \in LoadOps
  BY LoadText
<1>2. g.lab[r].ins.op \in {"FAI", "CAS"}
  BY <1>1 DEF LoadOps
<1>3. g.lab[r].ins.mo # "na"
  BY <1>1, <1>2 DEF ProgramOK
<1> QED BY <1>3 DEF NoDangling

(* A part of a graph is whole once its reads are repaired, if it separates  *)
(* no RMW, but for those in Z, from its store or its write.                 *)
LEMMA ViewWhole ==
  ASSUME CheckerOK, NEW p, ProgramOK(p), NEW g, GraphOK(p, g, {}), NoDangling(g), NEW v, ViewOK(g, v),
         NEW k, Shrunk(g, k, KeptEvents(g, v)), GraphOK(p, k, LostReads(k)),
         SettledOK(k), Settled(g) \cap KeptEvents(g, v) \subseteq Settled(k),
         Whole(g, {}), NEW Z,
         \A r \in Reads(g) \ Z : r \in v /\ g.lab[r].ins.op # "R" /\ g.lab[r].rf # Bottom => InView(v, g.lab[r].rf),
         \A r \in RMWReads(g) \ Z : r \in v => NextOf(r) \in v
  PROVE  Whole(repairDanglingReads(k), Z)
<1> DEFINE K == KeptEvents(g, v)
           h == repairDanglingReads(k)
<1>1. /\ v \subseteq K /\ InitEvent \in K /\ K \subseteq Events(g)
      /\ \A e \in K : e[2] > 0 <=> e \in v
  BY ViewClosed DEF KeptEvents, Closed
<1> HIDE DEF K
<1>2. \A r \in Reads(g) : r \in K => r \in v
  <2> SUFFICES ASSUME NEW r \in Reads(g), r \in K PROVE r[2] > 0
    BY <1>1
  <2>1. r \in Events(g) /\ g.lab[r].typ = "R"
    BY DEF Reads, OfType
  <2>2. r[2] # 0
    BY <2>1 DEF GraphOK, Kinds
  <2>3. r[2] \in Nat
    BY <2>1, ThreadOf
  <2> QED BY <2>2, <2>3
<1>3. \A r \in Reads(g) \ Z : r \in K /\ g.lab[r].ins.op # "R" => g.lab[r].rf \in K \cup {Bottom}
  <2> SUFFICES ASSUME NEW r \in Reads(g) \ Z, r \in K, g.lab[r].ins.op # "R", g.lab[r].rf # Bottom
               PROVE  g.lab[r].rf \in K
    OBVIOUS
  <2> DEFINE w == g.lab[r].rf
  <2>1. InView(v, w)
    BY <1>2
  <2>2. CASE w \in v
    BY <1>1, <2>2
  <2>3. CASE w[2] = 0
    <3>1. w \in Events(g) /\ (w = InitEvent \/ g.lab[w].typ = "W")
      BY StoreIsEvent DEF Reads, OfType
    <3>2. g.lab[w].typ # "W"
      BY <2>3, <3>1 DEF GraphOK, Kinds
    <3> QED BY <1>1, <3>1, <3>2
  <2> QED BY <2>1, <2>2, <2>3 DEF InView
<1>4. \A r \in RMWReads(g) \ Z : r \in K => NextOf(r) \in K
  BY <1>1, <1>2 DEF RMWReads
<1>5. Shrunk(g, k, K) /\ Settled(g) \cap K \subseteq Settled(k)
  BY DEF K
<1>6. Whole(k, {} \cup Z)
  BY <1>3, <1>4, <1>5, ShrunkWhole
<1>7. Whole(k, Z)
  <2>1. {} \cup Z = Z
    OBVIOUS
  <2> QED BY <1>6, <2>1
<1>8. PICK rf : Reread(k, h, rf) /\ DOMAIN rf = LostReads(k)
  BY RepairOK
<1>9. GraphOK(p, h, {}) /\ Stays(k, h)
  BY RepairOK, RepairStays
<1>10. SameText(k, h) /\ h.co = k.co /\ \A e \in Events(k) \ LostReads(k) : h.lab[e].rf = k.lab[e].rf
  BY <1>8 DEF Reread
<1> HIDE DEF h
<1>11. \A r \in Reads(k) \ Z : k.lab[r].ins.op # "R" => h.lab[r].rf = k.lab[r].rf
  <2> SUFFICES ASSUME NEW r \in Reads(k) \ Z, k.lab[r].ins.op # "R" PROVE h.lab[r].rf = k.lab[r].rf
    OBVIOUS
  <2>1. r \in K /\ Events(k) = K /\ k.lab[r].typ = "R"
    BY <1>5 DEF Shrunk, Reads, OfType
  <2>2. r \in Reads(g) /\ g.lab[r].ins = k.lab[r].ins /\ (g.lab[r].rf \in K => k.lab[r].rf = g.lab[r].rf)
    BY <1>1, <1>5, <2>1 DEF Shrunk, Reads, OfType
  <2>3. g.lab[r].rf # Bottom
    BY <2>2, RMWHasItsStore
  <2>4. k.lab[r].rf # Bottom
    BY <1>3, <2>1, <2>2, <2>3
  <2>5. r \notin LostReads(k)
    BY <2>4 DEF LostReads
  <2> QED BY <1>10, <2>1, <2>5
<1>12. Settled(k) \subseteq Settled(h) /\ \A l \in Locs : ToSet(k.co[l]) \subseteq ToSet(h.co[l])
  BY <1>9, <1>10 DEF Stays
<1>13. Whole(h, Z \cup Z)
  BY <1>7, <1>9, <1>10, <1>11, <1>12, TextWhole
<1>14. Z \cup Z = Z
  OBVIOUS
<1> QED BY <1>13, <1>14 DEF h

(* The store of an RMW in a whole graph: older than it, or settled. *)
LEMMA RMWStoreIs ==
  ASSUME NEW p, NEW g, GraphOK(p, g, {}), Whole(g, {}), NEW r \in Reads(g), g.lab[r].ins.op # "R",
         NEW w, w = g.lab[r].rf, w # Bottom, w[2] # 0
  PROVE  /\ w \in Events(g) /\ w[2] > 0 /\ r \in Events(g)
         /\ Stamp(g, w) \in Nat /\ Stamp(g, r) \in Nat
         /\ Stamp(g, w) < Stamp(g, r) \/ w \in Settled(g)
<1>1. r \in Events(g)
  BY DEF Reads, OfType
<1>2. w \in Events(g)
  BY <1>1, StoreIsEvent
<1>3. w[2] > 0
  <2>1. w[2] \in Nat
    BY <1>2, ThreadOf
  <2> QED BY <2>1
<1>4. StoreOlder(g, r, w)
  BY DEF Whole, OlderStores
<1>5. w # InitEvent
  BY DEF InitEvent
<1> QED BY <1>1, <1>2, <1>3, <1>4, <1>5, StampFacts DEF StoreOlder

(* A cut leaves RMWs whole, but for the read at which it cuts. *)
LEMMA CutWhole ==
  ASSUME CheckerOK, NEW p, ProgramOK(p), NEW x, ExecOK(p, x), ExecSettled(x), x.workqueue # <<>>,
         NoDangling(x.graph), Whole(x.graph, {})
  PROVE  LET c == CutEvent(Last(x.workqueue))
         IN Whole(CutAt(x, c).graph, {c} \cap Reads(x.graph))
<1> DEFINE g == x.graph
           item == Last(x.workqueue)
           c == CutEvent(item)
           n == Stamp(g, c)
           v == getViewFromStamp(g, n)
           k == cutToStamp(g, n)
           Z == {c} \cap Reads(g)
<1>1. GraphOK(p, g, {}) /\ ItemsOK(g, x.workqueue) /\ SettledOK(g)
  BY DEF ExecOK, ExecSettled
<1>2. item = x.workqueue[Len(x.workqueue)] /\ Len(x.workqueue) \in DOMAIN x.workqueue
  BY <1>1, FrontItems
<1>3. ItemOK(g, item) /\ ItemSettled(g, item)
  BY <1>1, <1>2 DEF ItemsOK, ExecSettled
<1>4. c \in Events(g) /\ c[2] > 0
  BY <1>1, <1>3, CutOfItem
<1>5. n \in Nat
  BY <1>1, <1>4, StampFacts
<1>6. c \notin Settled(g) /\ \A e \in Settled(g) : e[2] > 0 => Stamp(g, e) <= n
  BY <1>3 DEF ItemSettled
<1>7. \A e : e \in v <=> e \in Events(g) /\ e[2] > 0 /\ Stamp(g, e) <= n
  BY DEF getViewFromStamp
<1>8. ViewOK(g, v) /\ PrefixView(g, v)
  BY <1>1, <1>5, StampView
<1>9. Shrunk(g, k, KeptEvents(g, v)) /\ CutLabels(g, k, v)
  BY <1>1, <1>8, CutShrinks, CutCuts
<1>10. CutAt(x, c).graph = repairDanglingReads(k)
  BY DEF CutAt
<1> HIDE DEF item, c, n, v, k
<1>11. \A e \in Settled(g) : e[2] > 0 => e \in v
  BY <1>6, <1>7 DEF Settled
<1>12. SettledOK(k) /\ Settled(k) = Settled(g) \cap KeptEvents(g, v)
  BY <1>1, <1>8, <1>9, <1>11, ShrunkSettled
<1>13. GraphOK(p, k, LostReads(k))
  BY <1>1, <1>8, <1>9, ShrunkToView
<1>14. \A r \in Reads(g) \ Z : r \in v /\ g.lab[r].ins.op # "R" /\ g.lab[r].rf # Bottom => InView(v, g.lab[r].rf)
  <2> SUFFICES ASSUME NEW r \in Reads(g), r \in v, g.lab[r].ins.op # "R", g.lab[r].rf # Bottom, g.lab[r].rf[2] # 0
               PROVE  g.lab[r].rf \in v
    BY DEF InView
  <2> DEFINE w == g.lab[r].rf
  <2>1. /\ w \in Events(g) /\ w[2] > 0 /\ r \in Events(g)
        /\ Stamp(g, w) \in Nat /\ Stamp(g, r) \in Nat
        /\ Stamp(g, w) < Stamp(g, r) \/ w \in Settled(g)
    BY <1>1, RMWStoreIs
  <2>2. Stamp(g, r) <= n
    BY <1>7
  <2> HIDE DEF w
  <2>3. CASE Stamp(g, w) < Stamp(g, r)
    <3>1. Stamp(g, w) <= n
      BY <1>5, <2>1, <2>2, <2>3
    <3> QED BY <1>7, <2>1, <3>1 DEF w
  <2> QED BY <1>11, <2>1, <2>3 DEF w
<1>15. \A r \in RMWReads(g) \ Z : r \in v => NextOf(r) \in v
  <2> SUFFICES ASSUME NEW r \in RMWReads(g) \ Z, r \in v, NextOf(r) \notin v PROVE FALSE
    OBVIOUS
  <2> DEFINE w == NextOf(r)
  <2>1. r \in Reads(g) /\ w \in Events(g) /\ r \in Events(g) /\ r # c
    BY RMWReadIs DEF RMWReads
  <2>2. Stamp(g, r) \in Nat /\ Stamp(g, w) \in Nat /\ r \in Nat \X Nat
    BY <1>1, <2>1, StampFacts, EventsArePairs
  <2>3. w[2] > 0
    BY <2>2 DEF NextOf
  <2> HIDE DEF w
  <2>4. Stamp(g, r) <= n /\ ~(Stamp(g, w) <= n)
    BY <1>7, <2>1, <2>3 DEF w
  <2>5. Stamp(g, r) # n
    BY <1>1, <1>4, <2>1 DEF n, GraphOK, Stamps
  <2>6. Stamp(g, r) < n /\ n < Stamp(g, w)
    BY <1>5, <2>2, <2>4, <2>5
  <2>7. c \in Between(g, r, w)
    BY <1>4, <2>6 DEF Between, n
  <2> QED BY <1>6, <2>7 DEF w, Whole, Unsplit
<1>16. Settled(g) \cap KeptEvents(g, v) \subseteq Settled(k)
  BY <1>12
<1> HIDE DEF Z, g
<1>17. Whole(repairDanglingReads(k), Z)
  BY <1>1, <1>8, <1>9, <1>12, <1>13, <1>14, <1>15, <1>16, ViewWhole DEF g
<1> QED BY <1>10, <1>17 DEF Z, c, item, g

(* What follows the revisited read in the copy is settled, so is the store  *)
(* that it is to read.                                                      *)
LEMMA CopyWhole ==
  ASSUME CheckerOK, NEW p, ProgramOK(p), NEW g, GraphOK(p, g, {}), Joins(g), NoDangling(g), SettledOK(g), Whole(g, {}),
         NEW item, ItemOK(g, item), item.kind = "BR", ItemSettled(g, item)
  PROVE  LET h == Copied(g, item).graph
         IN Whole(h, {item.pos}) /\ AfterSettled(h, item.pos) /\ StoreOlder(h, item.pos, item.rev)
<1> DEFINE r == item.pos
           s == item.rev
           P == FullPrefix(g, s)
           v == getRevisitView(g, r, s)
           k == copyGraph(g, r, s)
           K == KeptEvents(g, v)
           h == repairDanglingReads(k)
<1>1. Copied(g, item).graph = h
  BY DEF Copied
<1>2. Copies(p, g, item, k, v)
  BY CopySteps
<1> HIDE DEF k, v
<1>3. /\ r \in Events(g) /\ r[2] > 0 /\ g.lab[r].typ = "R"
      /\ s \in Events(g) /\ g.lab[s].typ = "W" /\ r \notin P
      /\ PrefixOK(g, s)
      /\ ViewOK(g, v) /\ PrefixView(g, v) /\ v = getViewFromStamp(g, Stamp(g, r)) \cup P
      /\ Shrunk(g, k, K) /\ GraphOK(p, k, LostReads(k))
      /\ SettledOK(k) /\ Settled(k) = (Settled(g) \cap K) \cup {e \in K : InView(P, e)}
  BY <1>2 DEF Copies
<1>4. r \notin Settled(g) /\ \A e \in Settled(g) : e[2] > 0 => Stamp(g, e) <= Stamp(g, r) \/ e \in P
  BY DEF ItemSettled
<1>5. \A e : e \in v <=> (e \in Events(g) /\ e[2] > 0 /\ Stamp(g, e) <= Stamp(g, r)) \/ e \in P
  BY <1>3 DEF getViewFromStamp
<1>6. Stamp(g, r) \in Nat
  BY <1>3, StampFacts
<1>7. \A d \in P : /\ d \in Events(g) /\ d[2] > 0 /\ g.lab[d].typ # "B" /\ FullPrefix(g, d) \subseteq P
                   /\ g.lab[d].typ = "R" => NextOf(d) \in P
  BY <1>3 DEF PrefixOK, NextOf
<1> HIDE DEF P, r, s
<1>8. \A q \in Reads(g) \ {r} : q \in v /\ g.lab[q].ins.op # "R" /\ g.lab[q].rf # Bottom => InView(v, g.lab[q].rf)
  <2> SUFFICES ASSUME NEW q \in Reads(g), q \in v, g.lab[q].ins.op # "R", g.lab[q].rf # Bottom, g.lab[q].rf[2] # 0
               PROVE  g.lab[q].rf \in v
    BY DEF InView
  <2> DEFINE w == g.lab[q].rf
  <2>1. /\ w \in Events(g) /\ w[2] > 0 /\ q \in Events(g)
        /\ Stamp(g, w) \in Nat /\ Stamp(g, q) \in Nat
        /\ Stamp(g, w) < Stamp(g, q) \/ w \in Settled(g)
    BY RMWStoreIs
  <2>2. CASE q \in P
    <3>1. g.lab[q].typ = "R" /\ PrefixOK(g, q) /\ FullPrefix(g, q) \subseteq P
      BY <1>7, <2>1, <2>2 DEF Reads, OfType, GraphOK, PrefixesOK
    <3>2. g.lab[q].ins.mo # "na"
      BY RMWHasItsStore
    <3>3. w # InitEvent
      BY DEF InitEvent
    <3>4. w \in FullPrefix(g, q)
      BY <3>1, <3>2, <3>3 DEF PrefixOK
    <3> QED BY <1>5, <3>1, <3>4
  <2>3. CASE w \in Settled(g)
    BY <1>4, <1>5, <2>1, <2>3
  <2>4. CASE q \notin P /\ Stamp(g, w) < Stamp(g, q)
    <3> HIDE DEF w
    <3>1. Stamp(g, q) <= Stamp(g, r)
      BY <1>5, <2>4
    <3>2. Stamp(g, w) <= Stamp(g, r)
      BY <1>6, <2>1, <2>4, <3>1
    <3> QED BY <1>5, <2>1, <3>2 DEF w
  <2> QED BY <2>1, <2>2, <2>3, <2>4
<1>9. \A q \in RMWReads(g) \ {r} : q \in v => NextOf(q) \in v
  <2> SUFFICES ASSUME NEW q \in RMWReads(g) \ {r}, q \in v, NextOf(q) \notin v PROVE FALSE
    OBVIOUS
  <2> DEFINE w == NextOf(q)
  <2>1. q \in Reads(g) /\ w \in Events(g) /\ q \in Events(g) /\ q # r /\ g.lab[q].typ = "R"
    BY RMWReadIs DEF RMWReads
  <2>2. Stamp(g, q) \in Nat /\ Stamp(g, w) \in Nat /\ q \in Nat \X Nat
    BY <2>1, StampFacts, EventsArePairs
  <2>3. w[2] > 0
    BY <2>2 DEF NextOf
  <2> HIDE DEF w
  <2>4. q \notin P
    BY <1>5, <1>7, <2>1
  <2>5. Stamp(g, q) <= Stamp(g, r) /\ ~(Stamp(g, w) <= Stamp(g, r))
    BY <1>5, <2>1, <2>3, <2>4 DEF w
  <2>6. Stamp(g, q) # Stamp(g, r)
    BY <1>3, <2>1 DEF GraphOK, Stamps
  <2>7. Stamp(g, q) < Stamp(g, r) /\ Stamp(g, r) < Stamp(g, w)
    BY <1>6, <2>2, <2>5, <2>6
  <2>8. r \in Between(g, q, w)
    BY <1>3, <2>7 DEF Between
  <2> QED BY <1>4, <2>8 DEF w, Whole, Unsplit
<1>10. Settled(g) \cap K \subseteq Settled(k)
  BY <1>3
<1>11. Whole(h, {r})
  BY <1>3, <1>8, <1>9, <1>10, ViewWhole
<1>12. Settled(h) = Settled(k)
  BY <1>3, RepairStays DEF Stays
<1>13. PICK rf : Reread(k, h, rf) /\ DOMAIN rf = LostReads(k)
  BY <1>3, RepairOK
<1>14. Events(h) = K /\ \A e \in K : Stamp(h, e) = Stamp(k, e)
  BY <1>3, <1>13 DEF Reread, SameText, Stamp, Shrunk
<1>15. v \subseteq K /\ \A e \in K : e \in Events(g) /\ (e[2] > 0 <=> e \in v)
  <2>1. ViewOK(g, v)
    BY <1>3
  <2> QED BY <2>1, ViewClosed DEF KeptEvents
<1> HIDE DEF h, K
<1>16. r \in v /\ s \in v /\ s \in P
  <2>1. r \in v
    BY <1>3, <1>5, <1>6
  <2>2. s \in UpTo(s)
    <3>1. s \in Nat \X Nat
      BY <1>3, EventsArePairs
    <3>2. s[2] # 0
      BY <1>3 DEF GraphOK, Kinds
    <3>3. s[2] > 0 /\ s[2] <= s[2]
      BY <3>1, <3>2
    <3> QED BY <3>1, <3>3, UpToMember
  <2> QED BY <1>5, <2>1, <2>2 DEF P, FullPrefix
<1>17. AfterSettled(h, r)
  <2> SUFFICES ASSUME NEW e \in K, e[2] > 0, Stamp(k, r) < Stamp(k, e) PROVE e \in Settled(k)
    BY <1>12, <1>14, <1>15, <1>16 DEF AfterSettled
  <2>1. Stamp(g, r) < Stamp(g, e) /\ e \in v /\ e \in Events(g)
    BY <1>3, <1>15, <1>16 DEF Shrunk
  <2>2. ~(Stamp(g, e) <= Stamp(g, r))
    BY <1>6, <2>1, StampFacts
  <2> QED BY <1>3, <1>5, <2>1, <2>2 DEF InView
<1>18. StoreOlder(h, r, s)
  BY <1>3, <1>12, <1>15, <1>16 DEF StoreOlder, InView
<1> QED BY <1>1, <1>11, <1>17, <1>18 DEF r, s

(************************** Revisits are completed *************************)

(* calcRevisits() changes only reads that wait for another value. *)
LEMMA CalcWhole ==
  ASSUME CheckerOK, NEW p, ProgramOK(p), NEW x, ExecOK(p, x), Ipr => NoDangling(x.graph), NEW s \in Events(x.graph),
         x.graph.lab[s].typ = "W", s \in ToSet(x.graph.co[Loc(x.graph, s)]), Youngest(x.graph, s),
         SettledOK(x.graph), NEW X, Whole(x.graph, X)
  PROVE  Whole(calcRevisits(x, s).graph, X)
<1> DEFINE y == calcRevisits(x, s)
           g == x.graph
           h == y.graph
<1>1. PICK reads, more : Calculated(x, y, s, reads, more)
  BY CalcIs
<1>2. ExecOK(p, y)
  BY CalcRevisitsOK
<1> HIDE DEF y
<1>3. GraphOK(p, g, {}) /\ GraphOK(p, h, {})
  BY <1>2 DEF ExecOK
<1>4. reads \cap Settled(g) = {} /\ \A r \in reads : r \in Reads(g) /\ Loc(g, r) = Loc(g, s)
  BY <1>1, RevisitableNotSettled DEF Calculated, getRevisitable, readers
<1>5. CASE Ipr /\ h = revisitInPlace(g, reads, s) /\ \A r \in reads : ReadBlocks(g, r)
  <2>1. PICK k, K, rf : InPlace(p, g, k, h, rf, K) /\ DOMAIN rf = reads
    BY <1>3, <1>4, <1>5, RevisitInPlaceSteps
  <2>2. /\ Shrunk(g, k, K) /\ GraphOK(p, k, {}) /\ \A e \in K : k.lab[e] = g.lab[e]
        /\ \A e \in Events(g) \ K : g.lab[e].typ = "B"
    BY <2>1 DEF InPlace
  <2>3. Whole(k, X)
    BY <1>3, <2>2, BlocksGoWhole
  <2>4. /\ SameText(k, h) /\ h.co = k.co
        /\ \A e \in Events(k) \ reads : h.lab[e].rf = k.lab[e].rf
    BY <2>1 DEF InPlace, Reread
  <2>5. Settled(k) \subseteq Settled(h)
    <3>1. h = ReadMaximally(k, rf)
      BY <2>1 DEF InPlace
    <3>2. Relabels(k, h, reads)
      BY <2>1, <2>2, <3>1, ReadMaximallyRelabels
    <3> QED BY <3>2 DEF Relabels, Settled
  <2>6. \A r \in Reads(k) \ {} : k.lab[r].ins.op # "R" => h.lab[r].rf = k.lab[r].rf
    <3> SUFFICES ASSUME NEW r \in Reads(k), k.lab[r].ins.op # "R" PROVE h.lab[r].rf = k.lab[r].rf
      OBVIOUS
    <3>1. r \in K /\ r \in Events(k) /\ g.lab[r].ins.op # "R"
      BY <2>2 DEF Reads, OfType, Shrunk
    <3>2. r \notin reads
      BY <1>5, <3>1 DEF ReadBlocks
    <3> QED BY <2>4, <3>1, <3>2
  <2>7. \A l \in Locs : ToSet(k.co[l]) \subseteq ToSet(h.co[l])
    BY <2>4
  <2>8. Whole(h, X \cup {})
    <3>1. GraphOK(p, k, {}) /\ GraphOK(p, h, {}) /\ SameText(k, h)
      BY <1>3, <2>2, <2>4
    <3> HIDE DEF h
    <3> QED BY <2>3, <2>5, <2>6, <2>7, <3>1, TextWhole
  <2>9. X \cup {} = X
    OBVIOUS
  <2> QED BY <2>8, <2>9 DEF y
<1>6. CASE h = g
  BY <1>6 DEF y
<1> QED BY <1>1, <1>5, <1>6 DEF Calculated

(* The write of an RMW that a revisit completes. *)
LEMMA CompletingWhole ==
  ASSUME NEW p, NEW h, GraphOK(p, h, {}), NEW r \in Events(h), h.lab[r].typ = "R", NEW w, h.lab[r].rf = w,
         IsRMWOp(h.lab[r].ins), AfterSettled(h, r), StoreOlder(h, r, w), w \in Events(h), Whole(h, {r}),
         NEW l, NEW k, NEW m, ReadCompletes(p, h, r, w, l, k, m), Stays(h, k), Stays(k, m)
  PROVE  Whole(m, {})
<1>1. /\ l.pos = NextOf(r) /\ l.typ = "W" /\ l.ip = h.lab[r].ip /\ l.pos \notin Events(h)
      /\ GraphOK(p, k, {}) /\ Appended(h, k, l) /\ GraphOK(p, m, {}) /\ CoGrows(k, m) /\ m.lab = k.lab
      /\ l.pos \in Events(m) /\ l.pos \in ToSet(m.co[Loc(m, l.pos)])
  <2>1. RMWWriteLabel(h, r).ip = h.lab[r].ip
    BY DEF RMWWriteLabel, NewLabel
  <2> QED BY <2>1 DEF ReadCompletes
<1>2. r \in Nat \X Nat
  BY EventsArePairs
<1>3. RMWAfter(h, l)
  <2> SUFFICES ASSUME NEW q \in Reads(h), NextOf(q) = NextOf(r) PROVE AfterSettled(h, q)
    BY <1>1 DEF RMWAfter
  <2>1. q \in Nat \X Nat
    BY EventsArePairs DEF Reads, OfType
  <2>2. q = r
    BY <1>2, <2>1, NextOnce
  <2> QED BY <2>2
<1>4. Whole(k, {r} \cup {l.pos})
  BY <1>1, <1>3, AppendWhole
<1>5. /\ SameText(k, m) /\ Settled(k) \subseteq Settled(m) /\ Events(m) = Events(k)
      /\ \A j \in Locs : ToSet(k.co[j]) \subseteq ToSet(m.co[j])
      /\ \A q \in Reads(k) \ {} : k.lab[q].ins.op # "R" => m.lab[q].rf = k.lab[q].rf
  BY <1>1 DEF CoGrows, Stays, Reads, OfType, SameText
<1>6. Whole(m, {r} \cup {l.pos} \cup {})
  BY <1>1, <1>4, <1>5, TextWhole
<1>7. Finished(m, l.pos)
  <2>1. m.lab[l.pos].typ = "W"
    BY <1>1 DEF Appended
  <2> QED BY <1>1, <2>1 DEF Finished, Reads, OfType
<1>8. Finished(m, r)
  <2>1. m.lab[r] = h.lab[r] /\ m.lab[l.pos].typ = "W" /\ m.lab[l.pos].ip = l.ip /\ r \in Events(m)
    BY <1>1, <1>5 DEF Appended
  <2>2. r \in RMWReads(m)
    BY <1>1, <2>1, RMWReadIs
  <2>3. StoreOlder(m, r, w)
    <3>1. StoreOlder(k, r, w)
      BY <1>1, AppendMoves, MovedOlder DEF Appended
    <3> QED BY <1>5, <3>1 DEF StoreOlder, SameText, Stamp
  <2> QED BY <2>1, <2>2, <2>3 DEF Finished, Writes, OfType
<1> HIDE DEF Finished
<1> QED BY <1>6, <1>7, <1>8, WholeFinished

(* A revisit of a read, with nothing but settled events after it, completes *)
(* its RMW.                                                                 *)
LEMMA RevisitReadWhole ==
  ASSUME CheckerOK, NEW p, ProgramOK(p), NEW x, ExecOK(p, x), Ipr => NoDangling(x.graph), NEW r \in Events(x.graph),
         x.graph.lab[r].typ = "R", IsLast(x.graph, r), NEW w, w \in StoresOf(x.graph, r),
         ExecSettled(x), r \notin Settled(x.graph),
         Whole(x.graph, {r}), AfterSettled(x.graph, r), StoreOlder(x.graph, r, w)
  PROVE  Whole(revisitRead(x, r, w).exec.graph, {})
<1> DEFINE g == x.graph
           h == updateLabelViews(setRf(g, r, w), r)
           rv == revisitRead(x, r, w)
<1>1. /\ StoreRead(p, x, h, r, w)
      /\ IF valueMakesRMWSucceed(h, r, ValueOf(h, w)) THEN RevisitCompletes(p, x, h, r, w, rv)
         ELSE rv.exec = [graph |-> h, workqueue |-> x.workqueue] /\ rv.ok
  BY RevisitReadSteps
<1>2. GraphOK(p, g, {}) /\ SettledOK(g)
  BY DEF ExecOK, ExecSettled
<1>3. Relabels(g, h, {r})
  BY <1>2, ReadFromRelabels
<1>4. Stays(g, h)
  BY <1>3, RelabelStays
<1>5. NoDangling(g) => NoDangling(h)
  BY <1>1 DEF StoreRead, NoDangling, SameText, Reads, OfType
<1> HIDE DEF h, rv
<1>6. /\ GraphOK(p, h, {}) /\ SameText(g, h) /\ h.co = g.co /\ h.lab[r].rf = w /\ w # Bottom
      /\ \A e \in Events(g) \ {r} : h.lab[e].rf = g.lab[e].rf
      /\ Events(h) = Events(g) /\ h.lab[r].typ = "R"
  BY <1>1 DEF StoreRead, SameText
<1>7. Settled(h) = Settled(g)
  BY <1>4 DEF Stays
<1>8. Whole(h, {r})
  <2>1. \A q \in Reads(g) \ {r} : g.lab[q].ins.op # "R" => h.lab[q].rf = g.lab[q].rf
    BY <1>6 DEF Reads, OfType
  <2>2. \A l \in Locs : ToSet(g.co[l]) \subseteq ToSet(h.co[l])
    BY <1>6
  <2>3. Whole(h, {r} \cup {r})
    BY <1>2, <1>6, <1>7, <2>1, <2>2, TextWhole
  <2>4. {r} \cup {r} = {r}
    OBVIOUS
  <2> QED BY <2>3, <2>4
<1>9. AfterSettled(h, r) /\ StoreOlder(h, r, w)
  BY <1>6, <1>7 DEF AfterSettled, StoreOlder, SameText, Stamp
<1>10. ReadValue(h, r) = ValueOf(h, w)
  BY <1>6 DEF ReadValue
<1>11. CASE ~valueMakesRMWSucceed(h, r, ValueOf(h, w))
  <2>1. rv.exec.graph = h
    BY <1>1, <1>11
  <2>2. Finished(h, r)
    BY <1>6, <1>9, <1>10, <1>11 DEF Finished, AsksForWrite, Writes, OfType
  <2> HIDE DEF Finished
  <2>3. Whole(h, {})
    BY <1>8, <2>2, WholeFinished
  <2> QED BY <2>1, <2>3 DEF rv
<1>12. CASE valueMakesRMWSucceed(h, r, ValueOf(h, w))
  <2>1. PICK l, k, m, y :
          /\ ReadCompletes(p, h, r, w, l, k, m)
          /\ y.graph = m /\ ExecOK(p, y)
          /\ rv.exec = calcRevisits(y, l.pos)
          /\ (NoDangling(h) => NoDangling(m))
    BY <1>1, <1>12 DEF RevisitCompletes
  <2>2. /\ l.pos \in Events(y.graph) /\ y.graph.lab[l.pos].typ = "W"
        /\ l.pos \in ToSet(y.graph.co[Loc(y.graph, l.pos)]) /\ Youngest(y.graph, l.pos)
    BY <2>1 DEF ReadCompletes
  <2>3. Ipr => NoDangling(y.graph)
    BY <1>5, <2>1
  <2>4. Appended(h, k, l) /\ k = addLabelToGraph(h, l) /\ m.lab = k.lab /\ CoGrows(k, m)
    BY <2>1 DEF ReadCompletes
  <2>5. k.lab[l.pos].revisitable
    <3>1. DOMAIN l = LabelFields /\ l.revisitable /\ l.pos \notin Events(h)
      BY <2>1 DEF ReadCompletes, RMWWriteLabel, LabelFields, NewLabel
    <3>2. Shape(h) /\ Stamps(h)
      BY <1>6 DEF GraphOK
    <3> QED BY <2>4, <3>1, <3>2, AddedLabels
  <2>6. Stays(h, k)
    BY <2>4, <2>5, AppendStays
  <2>7. Stays(k, m)
    BY <2>4 DEF Stays, Settled, Events
  <2>8. IsRMWOp(h.lab[r].ins)
    BY <1>12 DEF valueMakesRMWSucceed, IsRMWOp
  <2>9. w \in Events(h)
    BY <1>6, StoreIsEvent
  <2>10. Whole(m, {})
    BY <1>6, <1>8, <1>9, <2>1, <2>6, <2>7, <2>8, <2>9, CompletingWhole
  <2>11. SettledOK(y.graph)
    BY <1>2, <1>4, <2>1, <2>6, <2>7, StaysOK
  <2>12. Whole(calcRevisits(y, l.pos).graph, {})
    BY <2>1, <2>2, <2>3, <2>10, <2>11, CalcWhole
  <2> QED BY <2>1, <2>12 DEF rv
<1> QED BY <1>11, <1>12

(* Moving a write in coherence keeps a graph whole. *)
LEMMA RevisitWriteWhole ==
  ASSUME CheckerOK, NEW p, ProgramOK(p), NEW x, ExecOK(p, x), Ipr => NoDangling(x.graph), NEW w \in Events(x.graph),
         x.graph.lab[w].typ = "W", w \in StoresOf(x.graph, w), NEW pred, pred \in StoresOf(x.graph, w) \ {w},
         Youngest(x.graph, w), ExecSettled(x), w \notin Settled(x.graph), Whole(x.graph, {})
  PROVE  Whole(revisitWrite(x, w, pred).exec.graph, {})
<1> DEFINE g == x.graph
           h == moveCo(g, w, pred)
           y == [x EXCEPT !.graph = h]
           rv == revisitWrite(x, w, pred)
<1>1. GraphOK(p, g, {}) /\ Joins(g) /\ ItemsOK(g, x.workqueue) /\ DOMAIN x = {"graph", "workqueue"} /\ SettledOK(g)
  BY DEF ExecOK, ExecSettled
<1>2. w \in ToSet(g.co[Loc(g, w)]) /\ Loc(g, w) \in Locs
  <2>1. w # InitEvent
    BY <1>1 DEF GraphOK, Kinds, Shape
  <2> QED BY <1>1, <2>1 DEF StoresOf, GraphOK, Texts, Loc
<1>3. CoGrows(g, h) /\ GraphOK(p, h, {})
  BY <1>1, <1>2, MoveCoOK
<1>4. rv.exec = calcRevisits(y, w)
  BY DEF revisitWrite, AtomicAt
<1>5. Relabels(g, h, {w})
  BY <1>1, MoveCoRelabels
<1> HIDE DEF h
<1>6. Stays(g, h) /\ SettledOK(h)
  BY <1>1, <1>5, RelabelStays, StaysOK
<1>7. y.graph = h /\ y.workqueue = x.workqueue /\ DOMAIN y = {"graph", "workqueue"}
  BY <1>1
<1> HIDE DEF y, rv
<1>8. ExecOK(p, y)
  <2>1. Joins(h) /\ ItemsOK(h, x.workqueue)
    BY <1>1, <1>3, CoGrowsKeeps, KeptAll, SameTextJoins DEF CoGrows
  <2> QED BY <1>3, <1>7, <2>1 DEF ExecOK
<1>9. Whole(h, {})
  <2>1. /\ SameText(g, h) /\ \A l \in Locs : ToSet(g.co[l]) \subseteq ToSet(h.co[l])
        /\ Settled(g) \subseteq Settled(h)
        /\ \A q \in Reads(g) \ {} : g.lab[q].ins.op # "R" => h.lab[q].rf = g.lab[q].rf
    BY <1>3, <1>6 DEF CoGrows, Stays, Reads, OfType
  <2>2. Whole(h, {} \cup {})
    BY <1>1, <1>3, <2>1, TextWhole
  <2> QED BY <2>2
<1>10. /\ w \in Events(h) /\ h.lab[w].typ = "W" /\ w \in ToSet(h.co[Loc(h, w)]) /\ Youngest(h, w)
       /\ NoDangling(g) => NoDangling(h)
  BY <1>2, <1>3 DEF CoGrows, SameText, Youngest, Stamp, Loc, NoDangling, Reads, OfType
<1>11. Whole(calcRevisits(y, w).graph, {})
  BY <1>6, <1>7, <1>8, <1>9, <1>10, CalcWhole
<1> QED BY <1>4, <1>11 DEF rv

(************************* The handlers and wholes *************************)

(* A handler finishes the event that it adds, or the execution ends with an *)
(* error.                                                                   *)
Finishes(c) == Whole(c.x.graph, {}) \/ (c.moot /\ ErrorLast(c.x))

(* What changes no store and no place in coherence leaves a graph whole. *)
LEMMA SameReadsWhole ==
  ASSUME NEW p, NEW g, NEW h, GraphOK(p, g, {}), GraphOK(p, h, {}), SameReads(g, h), Stays(g, h),
         NEW X, Whole(g, X)
  PROVE  Whole(h, X)
<1>1. SameText(g, h) /\ \A l \in Locs : ToSet(g.co[l]) \subseteq ToSet(h.co[l])
  BY DEF SameReads
<1>2. \A r \in Reads(g) \ {} : g.lab[r].ins.op # "R" => h.lab[r].rf = g.lab[r].rf
  BY DEF SameReads, Reads, OfType
<1>3. Whole(h, X \cup {})
  BY <1>1, <1>2, TextWhole DEF Stays
<1>4. X \cup {} = X
  OBVIOUS
<1> QED BY <1>3, <1>4

(* So does what adds stores to coherence. *)
LEMMA CoGrowsWhole ==
  ASSUME NEW p, NEW g, NEW h, GraphOK(p, g, {}), GraphOK(p, h, {}), CoGrows(g, h), Stays(g, h),
         NEW X, Whole(g, X)
  PROVE  Whole(h, X)
<1>1. SameText(g, h) /\ \A l \in Locs : ToSet(g.co[l]) \subseteq ToSet(h.co[l])
  BY DEF CoGrows
<1>2. \A r \in Reads(g) \ {} : g.lab[r].ins.op # "R" => h.lab[r].rf = g.lab[r].rf
  BY DEF CoGrows, Reads, OfType
<1>3. Whole(h, X \cup {})
  BY <1>1, <1>2, TextWhole DEF Stays
<1>4. X \cup {} = X
  OBVIOUS
<1> QED BY <1>3, <1>4

(* A write that is placed is finished. *)
LEMMA PlacedWhole ==
  ASSUME NEW p, NEW g, NEW m, GraphOK(p, g, {}), GraphOK(p, m, {}), CoGrows(g, m), Stays(g, m), NEW w,
         Whole(g, {w}), w \in Events(m), m.lab[w].typ = "W", w \in ToSet(m.co[Loc(m, w)])
  PROVE  Whole(m, {})
<1>1. Whole(m, {w})
  BY CoGrowsWhole
<1>2. Finished(m, w)
  BY DEF Finished, Reads, Writes, OfType
<1> QED BY <1>1, <1>2, WholeFinished

(* Labels are added without a change to the events before them. *)
LEMMA AddedWhole ==
  ASSUME CheckerOK, NEW p, NEW d, ContextOK(p, d), ExecSettled(d.x),
         NEW l, LabelOK(p, d.x.graph, l), Extends(p, d.x.graph, l), l.pos \notin Events(d.x.graph), l.typ # "B",
         l.revisitable, RMWAfter(d.x.graph, l), NEW X, Whole(d.x.graph, X)
  PROVE  LET c == SetGraph(d, addLabelToGraph(d.x.graph, l))
         IN /\ Whole(c.x.graph, X \cup {l.pos})
            /\ l.typ \notin {"R", "W"} => Whole(c.x.graph, X)
<1> DEFINE g == d.x.graph
           h == addLabelToGraph(g, l)
           c == SetGraph(d, h)
<1>1. GraphOK(p, g, {}) /\ DOMAIN d.x = {"graph", "workqueue"}
  BY DEF ContextOK, ExecOK
<1>2. GraphOK(p, h, {}) /\ Appended(g, h, l)
  BY <1>1, LabelAppends
<1>3. Settles(d.x, c.x)
  BY AddedSettles
<1> HIDE DEF h
<1>4. c.x.graph = h
  BY <1>1 DEF SetGraph, ContextOK
<1> HIDE DEF c
<1>5. Stays(g, h)
  BY <1>3, <1>4 DEF Settles
<1> HIDE DEF g
<1>6. Whole(h, X \cup {l.pos})
  BY <1>1, <1>2, <1>5, AppendWhole DEF g
<1>7. l.typ \notin {"R", "W"} => Whole(h, X)
  BY <1>1, <1>2, <1>5, AppendOther DEF g
<1> QED BY <1>4, <1>6, <1>7 DEF c, h, g

(* The load of an access is the only event that is not finished once it is  *)
(* checked.                                                                 *)
LEMMA LoadCheckedWhole ==
  ASSUME CheckerOK, NEW p, NEW d, ContextOK(p, d), ~d.moot, NoDangling(d.x.graph), ExecSettled(d.x),
         NEW l, LabelOK(p, d.x.graph, l), Extends(p, d.x.graph, l), l.pos \notin Events(d.x.graph), l.typ = "R",
         l.revisitable, Whole(d.x.graph, {})
  PROVE  Whole(AddedLoad(d, l).x.graph, {l.pos})
<1> DEFINE r == l.pos
           g == d.x.graph
           h == addLabelToGraph(g, l)
           d1 == SetGraph(d, h)
           err == LoadError(d1.x.graph, d1.st, r)
           c == Checked(d1, r, err)
<1>1. GraphOK(p, g, {})
  BY DEF ContextOK, ExecOK
<1>2. GraphOK(p, h, {}) /\ Appended(g, h, l)
  BY <1>1, LabelAppends
<1>3. IsLast(h, r) /\ r[2] > 0
  BY <1>1, <1>2, AppendedLast
<1>4. Settles(d.x, d1.x) /\ r \notin Settled(d1.x.graph)
  BY AddedSettles
<1>5. Whole(d1.x.graph, {} \cup {r})
  <2>1. RMWAfter(g, l)
    BY DEF RMWAfter
  <2> QED BY <2>1, AddedWhole
<1> HIDE DEF h
<1>6. ContextOK(p, d1) /\ d1.x.graph = h
  BY <1>2, AddedContext
<1> HIDE DEF d1, err
<1>7. AtHand(d1.x.graph, r)
  BY <1>2, <1>3, <1>6 DEF AtHand, Appended
<1>8. Settles(d1.x, c.x)
  <2>1. ExecSettled(d1.x)
    BY <1>4 DEF Settles
  <2> QED BY <1>4, <1>6, <1>7, <2>1, CheckedSettles
<1>9. Reported(p, d1, c)
  BY <1>6, <1>7, CheckedOK
<1>10. c = AddedLoad(d, l)
  BY DEF AddedLoad, d1, h, err
<1> HIDE DEF c, r
<1>11. {} \cup {r} = {r}
  OBVIOUS
<1>12. GraphOK(p, d1.x.graph, {}) /\ GraphOK(p, c.x.graph, {}) /\ SameReads(d1.x.graph, c.x.graph) /\ Stays(d1.x.graph, c.x.graph)
  BY <1>6, <1>8, <1>9 DEF Reported, ContextOK, ExecOK, Settles
<1>13. Whole(c.x.graph, {r})
  BY <1>5, <1>11, <1>12, SameReadsWhole
<1> QED BY <1>10, <1>13 DEF r

(* Reading one of the stores changes the load alone. *)
LEMMA ReadOneOfWhole ==
  ASSUME CheckerOK, NEW p, NEW x, ExecOK(p, x), NEW r, IsNewest(x.graph, r), r[2] > 0,
         x.graph.lab[r].typ = "R", IsLast(x.graph, r),
         NEW stores \in Seq(StoresOf(x.graph, r)), NEW i \in DOMAIN stores,
         ExecSettled(x), r \notin Settled(x.graph), Whole(x.graph, {r})
  PROVE  LET g == readOneOf(x, r, stores, i).graph
         IN /\ Whole(g, {r})
            /\ r \in Events(g) /\ g.lab[r].typ = "R" /\ g.lab[r].ins = x.graph.lab[r].ins
            /\ x.graph.lab[r].ins.op # "R" => IsNewest(g, r)
<1> DEFINE g == x.graph
           y == readOneOf(x, r, stores, i)
<1>1. PICK h, q : Choice(p, x, r, stores, i, h, q)
  BY ReadChoice
<1> DEFINE b == BlockIfAnnotFails(h, r)
           w == stores[i]
<1>2. y.graph = b
  <2>1. y = [graph |-> b, workqueue |-> x.workqueue \o q]
    BY <1>1 DEF Choice
  <2> HIDE DEF y, b
  <2> QED BY <2>1
<1>3. GraphOK(p, g, {}) /\ r \in Events(g)
  BY DEF ExecOK, IsNewest
<1>4. Relabels(g, h, {r})
  <2>1. h = updateLabelViews(setRf(g, r, w), r)
    BY <1>1 DEF Choice
  <2> HIDE DEF w
  <2> QED BY <1>3, <2>1, ReadFromRelabels
<1>5. Stays(g, h)
  BY <1>4, RelabelStays
<1>6. GraphOK(p, h, {}) /\ SameText(g, h) /\ h.co = g.co /\ \A e \in Events(g) \ {r} : h.lab[e].rf = g.lab[e].rf
  BY <1>1 DEF Choice, StoreRead
<1>7. r \in Events(h) /\ h.lab[r].typ = "R" /\ IsLast(h, r) /\ IsNewest(h, r) /\ h.lab[r].ins = g.lab[r].ins
  BY <1>1 DEF Choice
<1> HIDE DEF y, b, g, w
<1>8. Whole(h, {r} \cup {r})
  <2>1. \A e \in Reads(g) \ {r} : g.lab[e].ins.op # "R" => h.lab[e].rf = g.lab[e].rf
    BY <1>6 DEF Reads, OfType
  <2>2. \A l \in Locs : ToSet(g.co[l]) \subseteq ToSet(h.co[l])
    BY <1>6
  <2>3. Settled(g) \subseteq Settled(h) /\ Whole(g, {r})
    BY <1>5 DEF Stays, g
  <2> QED BY <1>3, <1>6, <2>1, <2>2, <2>3, TextWhole
<1>9. {r} \cup {r} = {r}
  OBVIOUS
<1>10. Whole(h, {r})
  BY <1>8, <1>9
<1>11. b = h \/ (h.lab[r].ins.op = "R" /\ \E l : BlockedBy(p, h, b, l))
  BY <1>6, <1>7, BlockedAfterRead DEF b
<1>12. CASE b = h
  BY <1>2, <1>7, <1>10, <1>12 DEF y, g
<1>13. CASE h.lab[r].ins.op = "R" /\ \E l : BlockedBy(p, h, b, l)
  <2>1. PICK l : BlockedBy(p, h, b, l)
    BY <1>13
  <2>2. GraphOK(p, b, {}) /\ Appended(h, b, l) /\ l.typ \notin {"R", "W"}
    BY <2>1 DEF BlockedBy
  <2>3. Stays(h, b)
    <3>1. b = add(h, l) /\ DOMAIN l = LabelFields /\ l.revisitable /\ l.pos \notin Events(h)
      BY <2>1, <2>2 DEF BlockedBy, Appended
    <3>2. b.lab[l.pos].revisitable
      BY <1>6, <3>1, AddedLabels DEF GraphOK
    <3> QED BY <2>2, <3>2, AppendStays
  <2>4. Whole(b, {r})
    BY <1>6, <1>10, <2>2, <2>3, AppendOther
  <2>5. r \in Events(b) /\ b.lab[r] = h.lab[r]
    BY <1>7, <2>2 DEF Appended
  <2> QED BY <1>2, <1>7, <1>13, <2>4, <2>5 DEF y, g
<1> QED BY <1>11, <1>12, <1>13

(* What handleLoad() leaves to be done. *)
Loaded(c, l) ==
    LET g == c.x.graph
        r == l.pos
    IN /\ Whole(g, {r})
       /\ r \in Events(g) /\ g.lab[r].typ = "R" /\ g.lab[r].ins = l.ins
       /\ c.moot => ErrorLast(c.x)
       /\ c.internal # NoError => g.lab[r].rf = Bottom
       /\ ~c.moot /\ c.internal = NoError /\ l.ins.op # "R" => IsNewest(g, r)

(* handleLoad() adds the load and chooses its store. *)
LEMMA LoadWhole ==
  ASSUME CheckerOK, NEW p, NEW d, ContextOK(p, d), ~d.moot, d.internal = NoError, NoDangling(d.x.graph),
         NEW l, LabelOK(p, d.x.graph, l), Extends(p, d.x.graph, l), l.pos \notin Events(d.x.graph), l.typ = "R",
         ExecSettled(d.x), l.revisitable, Whole(d.x.graph, {})
  PROVE  Loaded(handleLoad(d, l), l)
<1> DEFINE r == l.pos
           d2 == AddedLoad(d, l)
           c == handleLoad(d, l)
<1>1. /\ ContextOK(p, d2) /\ IsNewest(d2.x.graph, r) /\ r[2] > 0 /\ IsLast(d2.x.graph, r)
      /\ d2.x.graph.lab[r].typ = "R" /\ d2.x.graph.lab[r].ins = l.ins /\ d2.x.graph.lab[r].rf = Bottom
      /\ d2.internal = NoError /\ (d2.moot => ErrorLast(d2.x))
  BY LoadCheckedOK DEF LoadAtHand
<1>2. Settles(d.x, d2.x) /\ r \notin Settled(d2.x.graph)
  BY LoadCheckedSettles
<1>3. c = LoadChecked(d2, r)
  BY DEF handleLoad, LoadAdded, AddedLoad
<1>4. Whole(d2.x.graph, {r}) /\ r \in Events(d2.x.graph)
  BY <1>1, LoadCheckedWhole DEF IsNewest
<1> HIDE DEF d2, c
<1>5. CASE d2.moot
  <2>1. c = d2
    BY <1>3, <1>5 DEF LoadChecked
  <2> QED BY <1>1, <1>4, <1>5, <2>1 DEF Loaded, c
<1>6. CASE ~d2.moot
  <2> DEFINE stores == StoresToRead(d2.x.graph, r)
             st == onATLoad(d2.st, r, Loc(d2.x.graph, r), HbView(d2.x.graph, r))
             d3 == [d2 EXCEPT !.st = st]
             i == findConsistentRf(d2.x.graph, r, stores)
             y == readOneOf(d2.x, r, stores, i)
  <2>1. c = ReadConsistent(d3, r, stores)
    BY <1>3, <1>6 DEF LoadChecked
  <2> HIDE DEF stores, st
  <2>2. DOMAIN d3 = {"x", "st", "moot", "warned", "internal"} /\ d3.x = d2.x /\ d3.moot = d2.moot /\ d3.internal = NoError
    BY <1>1 DEF ContextOK
  <2> HIDE DEF d3
  <2>3. CASE stores = <<>>
    <3>1. c = [d3 EXCEPT !.internal = "noStore"]
      BY <2>1, <2>3 DEF ReadConsistent
    <3>2. c.x = d2.x /\ c.moot = d2.moot /\ c.internal = "noStore"
      BY <2>2, <3>1
    <3>3. "noStore" # NoError
      BY DEF NoError
    <3> QED BY <1>1, <1>4, <1>6, <3>2, <3>3 DEF Loaded, c
  <2>4. CASE stores # <<>>
    <3>1. c = [d3 EXCEPT !.x = y]
      BY <2>1, <2>2, <2>4 DEF ReadConsistent
    <3>2. stores \in Seq(StoresOf(d2.x.graph, r))
      <4>1. GraphOK(p, d2.x.graph, {}) /\ r \in Events(d2.x.graph)
        BY <1>1 DEF ContextOK, ExecOK, IsNewest
      <4> QED BY <1>1, <4>1, CoherentStoresOK DEF stores
    <3>3. i \in DOMAIN stores
      BY <2>4, <3>2, FindConsistentRfIn
    <3> HIDE DEF i
    <3>4. /\ Whole(y.graph, {r}) /\ r \in Events(y.graph) /\ y.graph.lab[r].typ = "R" /\ y.graph.lab[r].ins = l.ins
          /\ l.ins.op # "R" => IsNewest(y.graph, r)
      <4>1. /\ ExecOK(p, d2.x) /\ ExecSettled(d2.x) /\ IsNewest(d2.x.graph, r) /\ r[2] > 0
            /\ d2.x.graph.lab[r].typ = "R" /\ IsLast(d2.x.graph, r) /\ r \notin Settled(d2.x.graph)
            /\ Whole(d2.x.graph, {r})
        BY <1>1, <1>2, <1>4 DEF ContextOK, Settles
      <4> HIDE DEF r
      <4>2. /\ Whole(y.graph, {r}) /\ r \in Events(y.graph) /\ y.graph.lab[r].typ = "R"
            /\ y.graph.lab[r].ins = d2.x.graph.lab[r].ins
            /\ d2.x.graph.lab[r].ins.op # "R" => IsNewest(y.graph, r)
        BY <3>2, <3>3, <4>1, ReadOneOfWhole
      <4> HIDE DEF y
      <4> QED BY <1>1, <4>2 DEF r
    <3> HIDE DEF y
    <3>5. c.x = y /\ c.moot = d2.moot /\ c.internal = NoError
      BY <2>2, <3>1
    <3> QED BY <1>6, <3>4, <3>5 DEF Loaded, c
  <2> QED BY <2>3, <2>4
<1> QED BY <1>5, <1>6

(* A plain load needs nothing more. *)
LEMMA PlainLoadWhole ==
  ASSUME CheckerOK, NEW p, NEW d, ContextOK(p, d), ~d.moot, d.internal = NoError, NoDangling(d.x.graph),
         NEW l, LabelOK(p, d.x.graph, l), Extends(p, d.x.graph, l), l.pos \notin Events(d.x.graph), l.typ = "R",
         ExecSettled(d.x), l.revisitable, Whole(d.x.graph, {}), l.ins.op = "R"
  PROVE  Finishes(handleLoad(d, l))
<1> DEFINE c == handleLoad(d, l)
           g == c.x.graph
<1>1. Loaded(c, l)
  BY LoadWhole
<1> HIDE DEF c
<1>2. Whole(g, {l.pos}) /\ g.lab[l.pos].typ = "R" /\ g.lab[l.pos].ins.op = "R"
  BY <1>1 DEF Loaded
<1>3. Finished(g, l.pos)
  BY <1>2, OthersFinished
<1>4. Whole(g, {})
  <2> HIDE DEF g
  <2> QED BY <1>2, <1>3, WholeFinished
<1> QED BY <1>4 DEF Finishes, c

(* Nor does a non-atomic one. *)
LEMMA NALoadWhole ==
  ASSUME CheckerOK, NEW p, NEW d, ContextOK(p, d), ~d.moot, d.internal = NoError, NoDangling(d.x.graph),
         NEW l, LabelOK(p, d.x.graph, l), Extends(p, d.x.graph, l), l.pos \notin Events(d.x.graph), l.typ = "R",
         l.ins.mo = "na", ExecSettled(d.x), l.revisitable, Whole(d.x.graph, {}), l.ins.op = "R"
  PROVE  Finishes(handleNALoad(d, l))
<1> DEFINE r == l.pos
           d2 == AddedLoad(d, l)
           c == handleNALoad(d, l)
           g == d2.x.graph
<1>1. /\ ContextOK(p, d2) /\ IsNewest(g, r) /\ g.lab[r].typ = "R" /\ g.lab[r].ins = l.ins
      /\ (d2.moot => ErrorLast(d2.x))
  BY LoadCheckedOK DEF LoadAtHand
<1>2. Whole(g, {r})
  BY LoadCheckedWhole
<1>3. c = NALoadChecked(d2, r)
  BY DEF handleNALoad, NALoadAdded, AddedLoad
<1> HIDE DEF d2, c
<1>4. CASE d2.moot
  <2>1. c = d2
    BY <1>3, <1>4 DEF NALoadChecked
  <2> QED BY <1>1, <1>4, <2>1 DEF c, Finishes
<1>5. CASE ~d2.moot
  <2> DEFINE w == co_max(g, Loc(g, r))
             h == setRf(g, r, w)
             st == onNALoad(d2.st, r, Loc(g, r), HbView(g, r))
  <2>1. c = [d2 EXCEPT !.st = st, !.x.graph = h]
    BY <1>3, <1>5 DEF NALoadChecked
  <2>2. GraphOK(p, g, {}) /\ DOMAIN d2.x = {"graph", "workqueue"} /\ r \in Events(g)
    BY <1>1 DEF ContextOK, ExecOK, IsNewest
  <2> HIDE DEF w, st
  <2>3. SetsRf(g, h, r, w) /\ Relabels(g, h, {r})
    BY <2>2, SetRfSets, SetRfRelabels
  <2> HIDE DEF h
  <2>4. SameText(g, h) /\ h.co = g.co /\ \A e \in Events(g) \ {r} : h.lab[e] = g.lab[e]
    BY <2>3 DEF SetsRf
  <2>5. h.lab[r].typ = "R" /\ h.lab[r].ins = l.ins
    BY <1>1, <2>2, <2>4 DEF SameText
  <2>6. Stays(g, h)
    <3>1. NonAtomicRead(g.lab[r]) /\ NonAtomicRead(h.lab[r])
      BY <1>1, <2>5 DEF NonAtomicRead
    <3> QED BY <2>3, <3>1, RelabelStays
  <2>7. c.x.graph = h
    <3>1. c = [d2 EXCEPT !.st = st, !.x = [d2.x EXCEPT !.graph = h]]
      BY <1>1, <2>1 DEF ContextOK
    <3>2. c.x = [d2.x EXCEPT !.graph = h]
      BY <1>1, <3>1 DEF ContextOK
    <3> QED BY <2>2, <3>2
  <2>8. GraphOK(p, h, {})
    <3>1. Handles(p, c)
      BY NALoadHandlerOK DEF c
    <3> QED BY <2>7, <3>1 DEF Handles, ContextOK, ExecOK
  <2> HIDE DEF g
  <2>9. Whole(h, {r} \cup {r})
    <3>1. \A e \in Reads(g) \ {r} : g.lab[e].ins.op # "R" => h.lab[e].rf = g.lab[e].rf
      BY <2>4 DEF Reads, OfType
    <3>2. \A m \in Locs : ToSet(g.co[m]) \subseteq ToSet(h.co[m])
      BY <2>4
    <3>3. Settled(g) \subseteq Settled(h) /\ Whole(g, {r})
      BY <1>2, <2>6 DEF Stays
    <3>4. GraphOK(p, g, {}) /\ GraphOK(p, h, {}) /\ SameText(g, h)
      BY <2>2, <2>4, <2>8
    <3> QED BY <3>1, <3>2, <3>3, <3>4, TextWhole
  <2>10. {r} \cup {r} = {r}
    OBVIOUS
  <2>11. Finished(h, r)
    BY <2>5, OthersFinished
  <2>12. Whole(h, {})
    BY <2>9, <2>10, <2>11, WholeFinished
  <2> QED BY <2>7, <2>12 DEF Finishes, c
<1> QED BY <1>4, <1>5

(* A store is placed and what it can revisit is pushed. *)
LEMMA PlaceLastWhole ==
  ASSUME CheckerOK, NEW p, ProgramOK(p), NEW x, ExecOK(p, x), NoDangling(x.graph), NEW w, Placeable(x.graph, w),
         NEW cos \in Seq(StoresOf(x.graph, w)), cos # <<>>, ExecSettled(x), Whole(x.graph, {w})
  PROVE  Whole(PlaceLast(x, w, cos).graph, {})
<1>1. PICK z : ExecOK(p, z) /\ IsPlaced(x, w, z) /\ PlaceLast(x, w, cos) = calcRevisits(z, w)
  BY PlaceLastIs
<1> DEFINE m == z.graph
           g == x.graph
<1>2. /\ w \in Events(m) /\ m.lab[w].typ = "W" /\ Youngest(m, w) /\ w \in ToSet(m.co[Loc(m, w)])
      /\ NoDangling(m) /\ CoGrows(g, m) /\ m.lab = g.lab
  BY <1>1 DEF IsPlaced
<1>3. GraphOK(p, g, {}) /\ GraphOK(p, m, {}) /\ SettledOK(g) /\ Whole(g, {w})
  BY <1>1 DEF ExecOK, ExecSettled
<1> HIDE DEF m, g
<1>4. Stays(g, m)
  BY <1>2 DEF Stays, Settled, Events
<1>5. Whole(m, {}) /\ SettledOK(m)
  BY <1>2, <1>3, <1>4, PlacedWhole, StaysOK
<1> QED BY <1>1, <1>2, <1>5, CalcWhole DEF m

(* The same, and a race is looked for. *)
LEMMA StorePlacedWhole ==
  ASSUME CheckerOK, NEW p, ProgramOK(p), NEW d, ContextOK(p, d), NoDangling(d.x.graph), NEW w,
         Placeable(d.x.graph, w), NEW cos \in Seq(StoresOf(d.x.graph, w)), cos # <<>>,
         ExecSettled(d.x), w \notin Settled(d.x.graph), Whole(d.x.graph, {w})
  PROVE  Whole(StorePlaced(d, w, cos).x.graph, {})
<1> DEFINE y == PlaceLast(d.x, w, cos)
           d1 == [d EXCEPT !.x = y]
           d2 == StoreRaces(d1, w)
           st == onATStore(d2.st, w, Loc(d2.x.graph, w), HbView(d2.x.graph, w))
           c == [d2 EXCEPT !.st = st]
<1>1. c = StorePlaced(d, w, cos)
  BY DEF StorePlaced, StoreKnown
<1>2. ExecOK(p, y) /\ AtHand(y.graph, w) /\ Settles(d.x, y) /\ Whole(y.graph, {})
  BY PlaceLastOK, PlaceLastSettles, PlaceLastWhole DEF ContextOK
<1> HIDE DEF y, st
<1>3. ContextOK(p, d1) /\ d1.x = y
  BY <1>2 DEF ContextOK
<1> HIDE DEF d1
<1>4. w \notin Settled(y.graph) /\ ExecSettled(y)
  BY <1>2 DEF Settles, Stays
<1>5. ContextOK(p, d2) /\ Whole(d2.x.graph, {})
  <2>1. CASE violatesAtomicity(d1.x.graph, w)
    <3>1. d2 = [d1 EXCEPT !.moot = TRUE]
      BY <2>1 DEF StoreRaces
    <3>2. ContextOK(p, d2) /\ d2.x = d1.x
      BY <1>3, <3>1 DEF ContextOK
    <3> HIDE DEF d2
    <3> QED BY <1>2, <1>3, <3>2
  <2>2. CASE ~violatesAtomicity(d1.x.graph, w)
    <3>1. d2 = checkForRaces(d1, w)
      BY <2>2 DEF StoreRaces
    <3>2. Reported(p, d1, d2)
      BY <1>2, <1>3, <3>1, RacesOK
    <3>3. Settles(d1.x, d2.x)
      BY <1>2, <1>3, <1>4, <3>1, RacesSettle
    <3> HIDE DEF d2
    <3>4. /\ GraphOK(p, d1.x.graph, {}) /\ GraphOK(p, d2.x.graph, {}) /\ SameReads(d1.x.graph, d2.x.graph)
          /\ Stays(d1.x.graph, d2.x.graph) /\ Whole(d1.x.graph, {}) /\ ContextOK(p, d2)
      BY <1>2, <1>3, <3>2, <3>3 DEF Reported, ContextOK, ExecOK, Settles
    <3> QED BY <3>4, SameReadsWhole
  <2> QED BY <2>1, <2>2
<1> HIDE DEF d2
<1>6. c.x = d2.x
  BY <1>5 DEF ContextOK
<1> HIDE DEF c
<1> QED BY <1>1, <1>5, <1>6

(* The load of an RMW whose write comes next. *)
LoadOf(g, r, l) ==
    /\ r \in Events(g) /\ g.lab[r].typ = "R" /\ IsRMWOp(g.lab[r].ins)
    /\ l.pos = NextOf(r) /\ l.typ = "W" /\ l.ip = g.lab[r].ip
    /\ g.lab[r].rf \in Events(g) /\ StoreOlder(g, r, g.lab[r].rf)

(* Its write finishes it. *)
LEMMA WriteFinishes ==
  ASSUME NEW p, NEW g, NEW h, GraphOK(p, g, {}), GraphOK(p, h, {}), NEW l, Appended(g, h, l), Stays(g, h),
         NEW r, LoadOf(g, r, l)
  PROVE  Finished(h, r)
<1>1. /\ h.lab[r] = g.lab[r] /\ h.lab[l.pos].typ = "W" /\ h.lab[l.pos].ip = l.ip /\ r \in Events(h)
      /\ l.pos \in Events(h)
  BY DEF Appended, LoadOf
<1>2. r \in RMWReads(h)
  BY <1>1, RMWReadIs DEF LoadOf
<1>3. StoreOlder(h, r, g.lab[r].rf)
  BY AppendMoves, MovedOlder DEF Appended, LoadOf
<1> QED BY <1>1, <1>2, <1>3 DEF Finished, Writes, OfType, LoadOf

(* handleStore() adds the store and places it. *)
LEMMA StoreWhole ==
  ASSUME CheckerOK, NEW p, ProgramOK(p), NEW d, ContextOK(p, d), NoDangling(d.x.graph),
         NEW l, LabelOK(p, d.x.graph, l), Extends(p, d.x.graph, l), l.pos \notin Events(d.x.graph), l.typ = "W",
         RMWHasStore(d.x.graph, l), ExecSettled(d.x), l.revisitable,
         NEW X, Whole(d.x.graph, X), RMWAfter(d.x.graph, l), \A r \in X : LoadOf(d.x.graph, r, l)
  PROVE  Finishes(handleStore(d, l))
<1> DEFINE g == d.x.graph
           w == l.pos
           d1 == SetGraph(d, addLabelToGraph(g, l))
           h == d1.x.graph
           err == StoreError(h, d1.st, w)
           cos == GetCoherentPlacings(h, w)
           d2 == IF Len(cos) > 1 THEN reportWarningOnce(d1, w) ELSE d1
           c == handleStore(d, l)
<1>1. c = IF err # NoError THEN reportError(d1, err) ELSE StorePlaced(d2, w, cos)
  BY DEF handleStore, StoreAdded, StoreWarned
<1>2. ContextOK(p, d1) /\ NoDangling(d1.x.graph) /\ Placeable(d1.x.graph, l.pos) /\ Appended(g, d1.x.graph, l)
  BY WriteAdded
<1>3. Settles(d.x, d1.x) /\ w \notin Settled(h)
  BY AddedSettles
<1>4. Whole(h, X \cup {w})
  BY AddedWhole
<1> HIDE DEF d1
<1>5. GraphOK(p, h, {}) /\ AtHand(h, w) /\ w \in Events(h) /\ h.lab[w].typ = "W" /\ ExecSettled(d1.x)
  BY <1>2, <1>3 DEF ContextOK, ExecOK, Placeable, AtHand, IsNewest, Settles
<1>6. Whole(h, {w})
  <2>1. GraphOK(p, g, {}) /\ GraphOK(p, h, {}) /\ Appended(g, h, l) /\ Stays(g, h)
    BY <1>2, <1>3, <1>5 DEF ContextOK, ExecOK, Settles
  <2>2. ASSUME NEW r \in X PROVE Finished(h, r)
    <3>1. LoadOf(g, r, l)
      BY <2>2
    <3> HIDE DEF g, h
    <3> QED BY <2>1, <3>1, WriteFinishes
  <2> HIDE DEF h
  <2>3. \A e \in (X \cup {w}) \ {w} : Finished(h, e)
    BY <2>2
  <2> HIDE DEF w
  <2> QED BY <1>4, <2>3, WholeFinished
<1>7. CASE err # NoError
  <2> HIDE DEF err
  <2>1. c = reportError(d1, err)
    BY <1>1, <1>7
  <2>2. c.moot /\ ErrorLast(c.x)
    BY <1>2, <1>5, <1>7, <2>1, ReportErrorOK
  <2> QED BY <2>2 DEF Finishes
<1>8. CASE err = NoError
  <2>1. IsRMWOp(h.lab[w].ins) => h.lab[<<w[1], w[2] - 1>>].rf \in StoresOf(h, w)
    <3>1. h.lab[w].ins = l.ins /\ h.co = g.co /\ \A e \in Events(g) : h.lab[e] = g.lab[e]
      BY <1>2 DEF Appended
    <3>2. <<w[1], w[2] - 1>> \in Events(g)
      BY DEF Extends
    <3> HIDE DEF h, g
    <3> QED BY <3>1, <3>2 DEF RMWHasStore, StoresOf, Loc, g
  <2>2. cos \in Seq(StoresOf(h, w)) /\ cos # <<>>
    BY <1>5, <2>1, PlacingsOK
  <2>3. Reported(p, d1, d2) /\ Settles(d1.x, d2.x)
    <3>1. CASE Len(cos) > 1
      BY <1>2, <1>3, <1>5, <3>1, WarningOK, WarningSettles
    <3>2. CASE ~(Len(cos) > 1)
      BY <1>2, <1>5, <3>2, NothingReported, SettlesRefl
    <3> QED BY <3>1, <3>2
  <2>4. c = StorePlaced(d2, w, cos)
    BY <1>1, <1>8
  <2> HIDE DEF cos, d2, c, err
  <2>5. ContextOK(p, d2) /\ SameReads(h, d2.x.graph)
    BY <2>3 DEF Reported
  <2>6. NoDangling(d2.x.graph)
    BY <1>2, <2>5, SameReadsDangling
  <2>7. Placeable(d2.x.graph, w) /\ StoresOf(d2.x.graph, w) = StoresOf(h, w)
    <3>1. /\ AtHand(d2.x.graph, w) /\ d2.x.graph.lab[w].typ = h.lab[w].typ /\ d2.x.graph.co = h.co
          /\ Loc(d2.x.graph, w) = Loc(h, w)
      BY <1>5, <2>5, SameReadsAtHand
    <3> QED BY <1>2, <3>1 DEF Placeable, StoresOf
  <2>8. w \notin Settled(d2.x.graph) /\ ExecSettled(d2.x)
    BY <1>3, <2>3 DEF Settles, Stays
  <2>9. Whole(d2.x.graph, {w})
    <3>1. GraphOK(p, d2.x.graph, {}) /\ Stays(h, d2.x.graph)
      BY <2>3, <2>5 DEF ContextOK, ExecOK, Settles
    <3> HIDE DEF h, w
    <3> QED BY <1>5, <1>6, <2>5, <3>1, SameReadsWhole
  <2>10. Whole(c.x.graph, {})
    BY <2>2, <2>4, <2>5, <2>6, <2>7, <2>8, <2>9, StorePlacedWhole
  <2> QED BY <2>10 DEF Finishes, c
<1> QED BY <1>7, <1>8

(* The write of a store instruction does not belong to an RMW: the load     *)
(* before it comes from another instruction.                                *)
LEMMA PlainStoreAfter ==
  ASSUME NEW p, NEW g, GraphOK(p, g, {}), NEW l, StoreText(p, g, l)
  PROVE  RMWAfter(g, l)
<1> SUFFICES ASSUME NEW r \in Reads(g), NextOf(r) = l.pos, l.typ = "W", IsRMWOp(g.lab[r].ins), l.ip = g.lab[r].ip
             PROVE  FALSE
  BY DEF RMWAfter
<1>1. r \in Nat \X Nat /\ r \in Events(g) /\ g.lab[r].typ = "R"
  BY EventsArePairs DEF Reads, OfType
<1>2. l.pos[1] = r[1]
  BY <1>1 DEF NextOf
<1>3. g.lab[r].ins = CodeOf(p, g, r[1])[g.lab[r].ip]
  BY <1>1 DEF GraphOK, Texts
<1>4. l.ins = CodeOf(p, g, l.pos[1])[l.ip] /\ l.ins.op \in {"W", "COPY"}
  BY DEF StoreText
<1>5. l.ins = g.lab[r].ins
  BY <1>2, <1>3, <1>4
<1> QED BY <1>4, <1>5 DEF IsRMWOp

(* A plain store is placed. *)
LEMMA PlainStoreWhole ==
  ASSUME CheckerOK, NEW p, ProgramOK(p), NEW d, ContextOK(p, d), NoDangling(d.x.graph),
         NEW l, LabelOK(p, d.x.graph, l), Extends(p, d.x.graph, l), l.pos \notin Events(d.x.graph), l.typ = "W",
         RMWHasStore(d.x.graph, l), ExecSettled(d.x), l.revisitable,
         Whole(d.x.graph, {}), StoreText(p, d.x.graph, l)
  PROVE  Finishes(handleStore(d, l))
<1>1. GraphOK(p, d.x.graph, {})
  BY DEF ContextOK, ExecOK
<1>2. RMWAfter(d.x.graph, l)
  BY <1>1, PlainStoreAfter
<1>3. \A r \in {} : LoadOf(d.x.graph, r, l)
  OBVIOUS
<1> QED BY <1>2, <1>3, StoreWhole

(* So is a non-atomic one. *)
LEMMA NAStoreWhole ==
  ASSUME CheckerOK, NEW p, NEW d, ContextOK(p, d), ~d.moot, NoDangling(d.x.graph),
         NEW l, LabelOK(p, d.x.graph, l), Extends(p, d.x.graph, l), l.pos \notin Events(d.x.graph), l.typ = "W",
         ExecSettled(d.x), l.revisitable, Whole(d.x.graph, {}), StoreText(p, d.x.graph, l)
  PROVE  Finishes(handleNAStore(d, l))
<1> DEFINE w == l.pos
           d1 == SetGraph(d, addLabelToGraph(d.x.graph, l))
           err == StoreError(d1.x.graph, d1.st, w)
           d2 == Checked(d1, w, err)
           k == d2.x.graph
           c == handleNAStore(d, l)
<1>1. c = NAStoreChecked(d2, w)
  BY DEF handleNAStore, NAStoreAdded
<1>2. ContextOK(p, d1) /\ Placeable(d1.x.graph, w) /\ d1.moot = d.moot
  BY WriteAdded
<1>3. Settles(d.x, d1.x) /\ w \notin Settled(d1.x.graph)
  BY AddedSettles
<1>4. Whole(d1.x.graph, {} \cup {w})
  <2>1. RMWAfter(d.x.graph, l)
    BY PlainStoreAfter DEF ContextOK, ExecOK
  <2> QED BY <2>1, AddedWhole
<1> HIDE DEF d1, err
<1>5. Reported(p, d1, d2) /\ Settles(d1.x, d2.x)
  BY <1>2, <1>3, CheckedOK, CheckedSettles DEF Placeable, Settles
<1> HIDE DEF d2, c
<1>6. ContextOK(p, d2) /\ SameReads(d1.x.graph, k)
  BY <1>5 DEF Reported
<1>7. CASE d2.moot
  <2>1. c = d2
    BY <1>1, <1>7 DEF NAStoreChecked
  <2>2. ErrorLast(d2.x)
    BY <1>2, <1>5, <1>7 DEF Reported
  <2> QED BY <1>7, <2>1, <2>2 DEF c, Finishes
<1>8. CASE ~d2.moot
  <2> DEFINE pred == co_max(k, Loc(k, w))
             m == addCo(k, w, pred)
             st == onNAStore(d2.st, w, Loc(k, w), HbView(k, w))
  <2>1. c = [d2 EXCEPT !.st = st, !.x.graph = m]
    BY <1>1, <1>8 DEF NAStoreChecked
  <2>2. GraphOK(p, k, {}) /\ DOMAIN d2.x = {"graph", "workqueue"}
    BY <1>6 DEF ContextOK, ExecOK
  <2>3. w \in Events(k) /\ k.lab[w].typ = "W" /\ w \notin ToSet(k.co[Loc(k, w)])
    <3>1. /\ AtHand(k, w) /\ k.lab[w].typ = d1.x.graph.lab[w].typ /\ k.co = d1.x.graph.co
          /\ Loc(k, w) = Loc(d1.x.graph, w)
      BY <1>2, <1>6, SameReadsAtHand DEF Placeable
    <3> QED BY <1>2, <3>1 DEF Placeable, AtHand, IsNewest
  <2>4. Whole(k, {w})
    <3>1. {} \cup {w} = {w}
      OBVIOUS
    <3>2. GraphOK(p, d1.x.graph, {}) /\ Stays(d1.x.graph, k)
      BY <1>2, <1>5 DEF ContextOK, ExecOK, Settles
    <3> HIDE DEF k, w
    <3> QED BY <1>4, <1>6, <2>2, <3>1, <3>2, SameReadsWhole
  <2> HIDE DEF k
  <2>5. pred \in StoresOf(k, w)
    BY <2>2, <2>3, CoMaxIsStore
  <2> HIDE DEF pred, st
  <2>6. CoGrows(k, m) /\ m.lab = k.lab /\ w \in ToSet(m.co[Loc(m, w)]) /\ GraphOK(p, m, {})
    <3>1. CoGrows(k, m) /\ m.lab = k.lab /\ w \in ToSet(m.co[Loc(k, w)]) /\ GraphOK(p, m, {})
      BY <2>2, <2>3, <2>5, AddCoOK
    <3> HIDE DEF m
    <3> QED BY <3>1 DEF Loc
  <2>7. c.x.graph = m
    <3> HIDE DEF m
    <3>1. c = [d2 EXCEPT !.st = st, !.x = [d2.x EXCEPT !.graph = m]]
      BY <1>6, <2>1 DEF ContextOK
    <3>2. c.x = [d2.x EXCEPT !.graph = m]
      BY <1>6, <3>1 DEF ContextOK
    <3> QED BY <2>2, <3>2
  <2> HIDE DEF m
  <2>8. Stays(k, m) /\ w \in Events(m) /\ m.lab[w].typ = "W"
    BY <2>3, <2>6 DEF Stays, Settled, Events
  <2>9. Whole(m, {})
    BY <2>2, <2>4, <2>6, <2>8, PlacedWhole
  <2> QED BY <2>7, <2>9 DEF Finishes, c
<1> QED BY <1>7, <1>8

(* handleRMW() finishes the load, with its write if there is one. *)
LEMMA RMWWhole ==
  ASSUME CheckerOK, NEW p, ProgramOK(p), NEW d, ContextOK(p, d), ~d.moot, d.internal = NoError, NoDangling(d.x.graph),
         NEW l, LabelOK(p, d.x.graph, l), Extends(p, d.x.graph, l), l.pos \notin Events(d.x.graph), l.typ = "R",
         l.ins.op # "R", ExecSettled(d.x), l.revisitable, Whole(d.x.graph, {})
  PROVE  Finishes(handleRMW(d, l))
<1> DEFINE r == l.pos
           d1 == handleLoad(d, l)
           g == d1.x.graph
           m == RMWWriteLabel(g, r)
           c == handleRMW(d, l)
<1>1. c = AfterRMWLoad(d1, r)
  BY DEF handleRMW
<1>2. Handles(p, d1) /\ (~d1.moot /\ d1.internal = NoError => NoDangling(g) /\ ReadAtEnd(g, r, l.ins))
  BY LoadOK
<1>3. Settles(d.x, d1.x) /\ Loaded(d1, l)
  BY LoadSettles, LoadWhole
<1> HIDE DEF d1
<1>4. Whole(g, {r}) /\ r \in Events(g) /\ g.lab[r].typ = "R" /\ g.lab[r].ins = l.ins
  BY <1>3 DEF Loaded
<1>5. CASE d1.moot
  <2>1. c = d1
    BY <1>1, <1>5 DEF AfterRMWLoad
  <2> QED BY <1>3, <1>5, <2>1 DEF Loaded, Finishes
<1>6. CASE ~d1.moot /\ d1.internal # NoError
  <2>1. c = d1
    BY <1>1, <1>6 DEF AfterRMWLoad
  <2>2. g.lab[r].rf = Bottom
    BY <1>3, <1>6 DEF Loaded
  <2> HIDE DEF g
  <2>3. Finished(g, r)
    BY <1>4, <2>2 DEF Finished, AsksForWrite, Writes, OfType
  <2>4. Whole(g, {})
    BY <1>4, <2>3, WholeFinished
  <2> QED BY <2>1, <2>4 DEF Finishes, g
<1>7. CASE ~d1.moot /\ d1.internal = NoError
  <2>1. /\ NoDangling(g) /\ r \in Events(g) /\ IsLast(g, r) /\ g.lab[r].rf \in StoresOf(g, r) /\ IsNewest(g, r)
    BY <1>2, <1>3, <1>7 DEF ReadAtEnd, Loaded
  <2>2. GraphOK(p, g, {}) /\ ContextOK(p, d1) /\ ExecSettled(d1.x)
    BY <1>2, <1>3 DEF Handles, ContextOK, ExecOK, Settles
  <2> HIDE DEF g
  <2>3. g.lab[r].rf \in Events(g) /\ g.lab[r].rf # r
    <3>1. g.co[Loc(g, r)] \in Seq(Events(g)) /\ \A w \in ToSet(g.co[Loc(g, r)]) : w \in Events(g) /\ g.lab[w].typ = "W"
      BY <1>4, <2>2, CoOf
    <3>2. InitEvent \in Events(g) /\ r # InitEvent
      BY <1>4, <2>2 DEF GraphOK, Shape, Kinds
    <3> QED BY <1>4, <2>1, <3>1, <3>2 DEF StoresOf
  <2>4. StoreOlder(g, r, g.lab[r].rf)
    <3> DEFINE w == g.lab[r].rf
    <3>1. Stamp(g, w) <= Stamp(g, r) /\ Stamp(g, w) # Stamp(g, r)
      BY <2>1, <2>2, <2>3 DEF IsNewest, GraphOK, Stamps
    <3>2. Stamp(g, w) \in Nat /\ Stamp(g, r) \in Nat
      BY <2>1, <2>2, <2>3, StampFacts
    <3> HIDE DEF w
    <3> QED BY <3>1, <3>2 DEF StoreOlder, w
  <2>5. CASE ~valueMakesRMWSucceed(g, r, ReadValue(g, r))
    <3>1. c = d1
      BY <1>1, <1>7, <2>5 DEF AfterRMWLoad, g
    <3>2. Finished(g, r)
      BY <1>4, <2>4, <2>5 DEF Finished, AsksForWrite, Writes, OfType
    <3>3. Whole(g, {})
      BY <1>4, <3>2, WholeFinished
    <3> QED BY <3>1, <3>3 DEF Finishes, g
  <2>6. CASE valueMakesRMWSucceed(g, r, ReadValue(g, r))
    <3>1. c = handleStore(d1, m)
      BY <1>1, <1>7, <2>6 DEF AfterRMWLoad, g
    <3>2. m.revisitable /\ m.ip = g.lab[r].ip
      BY NewLabelsRevisitable DEF RMWWriteLabel, NewLabel
    <3>3. /\ LabelOK(p, g, m) /\ Extends(p, g, m) /\ m.pos \notin Events(g) /\ m.typ = "W"
          /\ m.pos = <<r[1], r[2] + 1>> /\ m.ins = g.lab[r].ins
      BY <1>4, <2>1, <2>2, WriteAfterRead
    <3>4. IsRMWOp(g.lab[r].ins)
      BY <2>6 DEF valueMakesRMWSucceed, IsRMWOp
    <3> HIDE DEF m
    <3>5. RMWHasStore(g, m)
      <4>1. <<m.pos[1], m.pos[2] - 1>> = r
        <5>1. r[1] \in Nat /\ r[2] \in Nat /\ r = <<r[1], r[2]>>
          BY <1>4, <2>2, ThreadOf
        <5>2. m.pos[1] = r[1] /\ m.pos[2] - 1 = r[2]
          BY <3>3, <5>1
        <5> QED BY <5>1, <5>2
      <4> QED BY <2>1, <3>3, <4>1 DEF RMWHasStore, StoresOf, Loc
    <3>6. LoadOf(g, r, m)
      BY <1>4, <2>3, <2>4, <3>2, <3>3, <3>4 DEF LoadOf, NextOf
    <3>7. RMWAfter(g, m)
      <4> SUFFICES ASSUME NEW q \in Reads(g), NextOf(q) = m.pos PROVE AfterSettled(g, q)
        BY DEF RMWAfter
      <4>1. q \in Nat \X Nat /\ r \in Nat \X Nat /\ NextOf(q) = NextOf(r)
        BY <1>4, <2>2, <3>6, EventsArePairs DEF Reads, OfType, LoadOf
      <4>2. q = r
        BY <4>1, NextOnce
      <4>3. \A e \in Events(g) : ~(Stamp(g, r) < Stamp(g, e))
        <5>1. \A e \in Events(g) : Stamp(g, e) \in Nat
          BY <2>2, StampFacts
        <5> QED BY <1>4, <2>1, <5>1 DEF IsNewest
      <4> QED BY <4>2, <4>3 DEF AfterSettled
    <3>8. \A q \in {r} : LoadOf(g, q, m)
      BY <3>6
    <3> HIDE DEF r
    <3>9. Finishes(handleStore(d1, m))
      BY <1>4, <2>1, <2>2, <3>2, <3>3, <3>5, <3>7, <3>8, StoreWhole DEF g
    <3> QED BY <3>1, <3>9
  <2> QED BY <2>5, <2>6
<1> QED BY <1>5, <1>6, <1>7

(* Allocations and frees are no accesses. *)
LEMMA ProbeWhole ==
  ASSUME NEW p, NEW d, ContextOK(p, d), NoDangling(d.x.graph),
         NEW l, LabelOK(p, d.x.graph, l), Extends(p, d.x.graph, l), l.pos \notin Events(d.x.graph),
         l.typ \in {"M", "D", "RET"}, ExecSettled(d.x), l.revisitable, Whole(d.x.graph, {})
  PROVE  Whole(addProbe(d, l).x.graph, {})
<1> DEFINE g == d.x.graph
           b == <<l.pos[1], l.pos[2] - 1>>
           h == add(g, Probe(g.lab[b], l))
           c == addProbe(d, l)
<1>1. GraphOK(p, g, {}) /\ DOMAIN d.x = {"graph", "workqueue"}
  BY DEF ContextOK, ExecOK
<1>2. b \in Events(g) /\ IsLast(g, b) /\ b[1] = l.pos[1]
  BY DEF Extends
<1>3. LastLabel(g, l.pos[1]) = g.lab[b]
  <2>1. b[2] = LastIndex(g, b[1])
    BY <1>1, <1>2, LastIndexIsLast
  <2>2. <<l.pos[1], LastIndex(g, l.pos[1])>> = b
    BY <1>2, <2>1
  <2> HIDE DEF b
  <2> QED BY <2>2 DEF LastLabel
<1>4. c = SetGraph(d, h)
  BY <1>3 DEF addProbe
<1>5. Appended(g, h, l) /\ GraphOK(p, h, {})
  BY <1>1, ProbeAppends
<1>6. Settles(d.x, c.x)
  BY ProbeSettles
<1> HIDE DEF h, c
<1>7. c.x.graph = h
  BY <1>1, <1>4 DEF SetGraph, ContextOK
<1>8. Stays(g, h) /\ l.typ \notin {"R", "W"} /\ Whole(g, {})
  BY <1>6, <1>7 DEF Settles
<1> HIDE DEF g
<1>9. Whole(h, {})
  BY <1>1, <1>5, <1>8, AppendOther
<1> QED BY <1>7, <1>9 DEF c

(* handleMalloc() leaves a whole graph. *)
LEMMA MallocWhole ==
  ASSUME NEW p, NEW d, ContextOK(p, d), NoDangling(d.x.graph),
         NEW l, LabelOK(p, d.x.graph, l), Extends(p, d.x.graph, l), l.pos \notin Events(d.x.graph),
         l.typ = "M", ExecSettled(d.x), l.revisitable, Whole(d.x.graph, {})
  PROVE  Finishes(handleMalloc(d, l))
<1> DEFINE d1 == addProbe(d, l)
           st == onAlloc(d1.st, l.pos, l.ins.loc)
           c == [d1 EXCEPT !.st = st]
<1>1. ContextOK(p, d1) /\ Whole(d1.x.graph, {})
  BY ProbeOK, ProbeWhole
<1>2. handleMalloc(d, l) = c
  BY DEF handleMalloc
<1> HIDE DEF d1, st
<1>3. c.x = d1.x
  BY <1>1, SetStateOK
<1> HIDE DEF c
<1> QED BY <1>1, <1>2, <1>3 DEF Finishes

(* handleFree() leaves a whole graph. *)
LEMMA FreeWhole ==
  ASSUME CheckerOK, NEW p, NEW d, ContextOK(p, d), NoDangling(d.x.graph),
         NEW l, LabelOK(p, d.x.graph, l), Extends(p, d.x.graph, l), l.pos \notin Events(d.x.graph),
         l.typ \in {"D", "RET"}, ExecSettled(d.x), l.revisitable, Whole(d.x.graph, {})
  PROVE  Finishes(handleFree(d, l))
<1> DEFINE d1 == addProbe(d, l)
           d2 == checkForRaces(d1, l.pos)
           st == onFree(d2.st, l.pos, l.ins.loc, l.typ = "RET")
           d3 == [d2 EXCEPT !.st = st]
           c == handleFree(d, l)
<1>1. /\ ContextOK(p, d1) /\ AtHand(d1.x.graph, l.pos) /\ Settles(d.x, d1.x) /\ l.pos \notin Settled(d1.x.graph)
      /\ Whole(d1.x.graph, {})
  BY ProbeOK, ProbeSettles, ProbeWhole
<1>2. c = IF d2.moot THEN d2 ELSE d3
  BY DEF handleFree, FreeChecked
<1> HIDE DEF d1, st, c
<1>3. Reported(p, d1, d2) /\ Settles(d1.x, d2.x)
  BY <1>1, RacesOK, RacesSettle DEF Settles
<1> HIDE DEF d2
<1>4. d3.x = d2.x
  BY <1>3, SetStateOK DEF Reported
<1> HIDE DEF d3
<1>5. /\ GraphOK(p, d1.x.graph, {}) /\ GraphOK(p, d2.x.graph, {}) /\ SameReads(d1.x.graph, d2.x.graph)
      /\ Stays(d1.x.graph, d2.x.graph)
  BY <1>1, <1>3 DEF Reported, ContextOK, ExecOK, Settles
<1>6. Whole(d2.x.graph, {})
  BY <1>1, <1>5, SameReadsWhole
<1> QED BY <1>2, <1>4, <1>6 DEF c, Finishes

(* So do fences, protections and method boundaries. *)
LEMMA DummyWhole ==
  ASSUME CheckerOK, NEW p, NEW d, ContextOK(p, d), NoDangling(d.x.graph),
         NEW l, LabelOK(p, d.x.graph, l), Extends(p, d.x.graph, l), l.pos \notin Events(d.x.graph),
         l.typ \in {"F", "HP", "MB", "ME"}, ExecSettled(d.x), l.revisitable, Whole(d.x.graph, {})
  PROVE  Finishes(handleDummy(d, l))
<1> DEFINE d1 == SetGraph(d, addLabelToGraph(d.x.graph, l))
           st == IF l.typ = "HP" THEN onProtect(d1.st, l.ins.loc, l.ins.val) ELSE d1.st
           c == [d1 EXCEPT !.st = st]
<1>1. handleDummy(d, l) = c
  BY DEF handleDummy
<1>2. Whole(d1.x.graph, {})
  <2>1. RMWAfter(d.x.graph, l)
    BY DEF RMWAfter
  <2> QED BY <2>1, AddedWhole
<1>3. DOMAIN d1 = {"x", "st", "moot", "warned", "internal"}
  BY DEF SetGraph, ContextOK
<1> HIDE DEF st, d1
<1>4. c.x = d1.x
  BY <1>3
<1> HIDE DEF c
<1> QED BY <1>1, <1>2, <1>4 DEF Finishes

(* Blocking a thread leaves a whole graph. *)
LEMMA BlockWhole ==
  ASSUME NEW d, ContextOK(prog, d), ProgramOK(prog), NEW t \in ThreadIds(d.x.graph), isSchedulable(d.x.graph, t),
         NEW ip \in Nat, NEW ins, NEW val, ExecSettled(d.x), Whole(d.x.graph, {})
  PROVE  Whole(SetGraph(d, blockThread(d.x.graph, t, ip, ins, val)).x.graph, {})
<1> DEFINE g == d.x.graph
           l == NewLabel(<<t, LastIndex(g, t) + 1>>, "B", ip, ins, val)
           h == blockThread(g, t, ip, ins, val)
           c == SetGraph(d, h)
<1>1. GraphOK(prog, g, {}) /\ DOMAIN d.x = {"graph", "workqueue"}
  BY DEF ContextOK, ExecOK
<1>2. Appended(g, h, l) /\ GraphOK(prog, h, {}) /\ l.typ = "B"
  BY <1>1, BlockLabelOK
<1>3. Settles(d.x, c.x)
  BY BlockSettles
<1> HIDE DEF h, l
<1>4. c.x.graph = h
  BY <1>1 DEF SetGraph, ContextOK
<1> HIDE DEF c
<1>5. Stays(g, h) /\ l.typ \notin {"R", "W"} /\ Whole(g, {})
  BY <1>2, <1>3, <1>4 DEF Settles
<1> HIDE DEF g
<1>6. Whole(h, {})
  BY <1>1, <1>2, <1>5, AppendOther
<1> QED BY <1>4, <1>6 DEF c, h, g

(* handleAssume() leaves a whole graph. *)
LEMMA AssumeWhole ==
  ASSUME NEW d, ContextOK(prog, d), NoDangling(d.x.graph), ProgramOK(prog),
         NEW t \in ThreadIds(d.x.graph), isSchedulable(d.x.graph, t), NextIns(d.x.graph, t).op = "ASSUME",
         ExecSettled(d.x), Whole(d.x.graph, {})
  PROVE  Finishes(handleAssume(d, t))
<1> DEFINE g == d.x.graph
           ip == NextIp(g, t)
           ins == NextIns(g, t)
           d1 == SetGraph(d, blockThread(g, t, ip, ins, 0))
           moot == \E e \in getPreviousVisibleAccessLabel(g, t) :
                              /\ g.lab[e].typ = "R"
                              /\ isStable(g, e)
                              /\ ~(Ipr /\ ReadBlocks(g, e))
           c == handleAssume(d, t)
<1>1. GraphOK(prog, g, {})
  BY DEF ContextOK, ExecOK
<1>2. ip \in Nat
  BY <1>1, NextIpIs
<1>3. c = [d1 EXCEPT !.moot = moot]
  BY DEF handleAssume
<1> HIDE DEF ip, ins, moot, c
<1>4. Whole(d1.x.graph, {})
  BY <1>2, BlockWhole
<1>5. DOMAIN d1 = {"x", "st", "moot", "warned", "internal"}
  BY DEF SetGraph, ContextOK
<1> HIDE DEF d1
<1>6. c.x = d1.x
  BY <1>3, <1>5
<1> QED BY <1>4, <1>6 DEF c, Finishes

(* handleThreadCreate() leaves a whole graph. *)
LEMMA ThreadCreateWhole ==
  ASSUME CheckerOK, NEW d, ContextOK(prog, d), NoDangling(d.x.graph), ProgramOK(prog),
         NEW t \in ThreadIds(d.x.graph), isSchedulable(d.x.graph, t), NextIns(d.x.graph, t).op = "CREATE",
         ExecSettled(d.x), Whole(d.x.graph, {})
  PROVE  Finishes(handleThreadCreate(d, t))
<1> DEFINE g == d.x.graph
           ins == NextIns(g, t)
           cid == ChildId(g, NextPos(g, t))
           l == NextLabel(g, t, "TC", cid)
           h == addLabelToGraph(g, l)
           d1 == SetGraph(d, h)
           m == ThreadStartLabel(cid, l.ins.val, l.pos)
           k == addLabelToGraph(h, m)
           c == handleThreadCreate(d, t)
<1>1. GraphOK(prog, g, {}) /\ ExecOK(prog, d.x)
  BY DEF ContextOK, ExecOK
<1>2. c = ThreadCreated(d, l, cid)
  BY DEF handleThreadCreate
<1> HIDE DEF cid
<1>3. LabelOK(prog, g, l) /\ Extends(prog, g, l) /\ l.pos \notin Events(g) /\ l.typ = "TC"
  BY <1>1, NextLabelOK DEF EventTypes
<1>4. l.revisitable /\ m.revisitable
  BY NewLabelsRevisitable
<1> HIDE DEF l
<1>5. Whole(d1.x.graph, {})
  <2>1. RMWAfter(g, l)
    BY <1>3 DEF RMWAfter
  <2> QED BY <1>3, <1>4, <2>1, AddedWhole
<1>6. CASE cid # Cardinality(ThreadIds(g))
  <2>1. c = [d1 EXCEPT !.internal = "tid"]
    BY <1>2, <1>6 DEF ThreadCreated
  <2>2. DOMAIN d1 = {"x", "st", "moot", "warned", "internal"}
    BY DEF SetGraph, ContextOK
  <2> HIDE DEF d1, c
  <2>3. c.x = d1.x
    BY <2>1, <2>2
  <2> QED BY <1>5, <2>3 DEF c, Finishes
<1>7. CASE cid = Cardinality(ThreadIds(g))
  <2>1. c = SetGraph(d, k)
    BY <1>2, <1>7 DEF ThreadCreated
  <2>2. l.ins = ins /\ l.pos = <<t, LastIndex(g, t) + 1>>
    BY <1>1, NextLabelOK DEF EventTypes, l
  <2>3. GraphOK(prog, h, {}) /\ Appended(g, h, l)
    BY <1>1, <1>3, LabelAppends
  <2>4. LabelOK(prog, h, m) /\ Starts(prog, h, m) /\ m.pos \notin Events(h) /\ m.typ = "TS"
    BY <1>1, <1>3, <1>7, <2>2, <2>3, ChildStarts
  <2>5. d1.x.graph = h
    <3> HIDE DEF h
    <3> QED BY <1>3, <2>3, AddedContext
  <2> HIDE DEF m, h
  <2>6. GraphOK(prog, k, {}) /\ Appended(h, k, m) /\ Stays(h, k)
    <3>1. GraphOK(prog, k, {}) /\ Appended(h, k, m)
      BY <2>3, <2>4, LabelAppends
    <3>2. k.lab[m.pos].revisitable
      BY <1>4, <2>3, <2>4, AddedLabels DEF GraphOK, LabelOK
    <3> HIDE DEF k
    <3> QED BY <3>1, <3>2, AppendStays
  <2>7. c.x.graph = k
    <3> HIDE DEF k, c
    <3> QED BY <1>1, <2>1 DEF SetGraph, ContextOK, ExecOK
  <2> HIDE DEF k, c, d1
  <2>8. Whole(k, {})
    BY <1>5, <2>3, <2>4, <2>5, <2>6, AppendOther
  <2> QED BY <2>7, <2>8 DEF c, Finishes
<1> QED BY <1>6, <1>7

(* handleThreadJoin() leaves a whole graph. *)
LEMMA ThreadJoinWhole ==
  ASSUME CheckerOK, NEW d, ContextOK(prog, d), NoDangling(d.x.graph), ProgramOK(prog),
         NEW t \in ThreadIds(d.x.graph), isSchedulable(d.x.graph, t), NextIns(d.x.graph, t).op = "JOIN",
         ExecSettled(d.x), Whole(d.x.graph, {})
  PROVE  Finishes(handleThreadJoin(d, t))
<1> DEFINE g == d.x.graph
           ip == NextIp(g, t)
           ins == NextIns(g, t)
           child == g.lab[Children(g, t)[ins.val]].val
           l == NextLabel(g, t, "TJ", child)
           c == handleThreadJoin(d, t)
<1>1. GraphOK(prog, g, {})
  BY DEF ContextOK, ExecOK
<1>2. c = SetGraph(d, IF Finish(g, child) = {} THEN blockThread(g, t, ip, ins, child) ELSE addLabelToGraph(g, l))
  BY DEF handleThreadJoin
<1>3. ip \in Nat
  BY <1>1, NextIpIs
<1> HIDE DEF child, c
<1>4. CASE Finish(g, child) = {}
  <2> HIDE DEF ip, ins
  <2>1. c = SetGraph(d, blockThread(g, t, ip, ins, child))
    BY <1>2, <1>4
  <2>2. Whole(c.x.graph, {})
    BY <1>3, <2>1, BlockWhole
  <2> QED BY <2>2 DEF c, Finishes
<1>5. CASE Finish(g, child) # {}
  <2>1. c = SetGraph(d, addLabelToGraph(g, l))
    BY <1>2, <1>5
  <2>2. LabelOK(prog, g, l) /\ Extends(prog, g, l) /\ l.pos \notin Events(g) /\ l.typ = "TJ"
    BY <1>1, NextLabelOK DEF EventTypes
  <2>3. l.revisitable
    BY NewLabelsRevisitable
  <2> HIDE DEF l
  <2>4. RMWAfter(g, l)
    BY <2>2 DEF RMWAfter
  <2>5. Whole(c.x.graph, {})
    BY <2>1, <2>2, <2>3, <2>4, AddedWhole
  <2> QED BY <2>5 DEF c, Finishes
<1> QED BY <1>4, <1>5

(* handleThreadFinish() leaves a whole graph: only blocks are removed. *)
LEMMA ThreadFinishWhole ==
  ASSUME CheckerOK, NEW d, ContextOK(prog, d), NoDangling(d.x.graph), ProgramOK(prog),
         NEW t \in ThreadIds(d.x.graph), isSchedulable(d.x.graph, t), NextIns(d.x.graph, t).op = "FINISH",
         ExecSettled(d.x), Whole(d.x.graph, {})
  PROVE  Finishes(handleThreadFinish(d, t))
<1> DEFINE g == d.x.graph
           l == NextLabel(g, t, "TF", 0)
           h == addLabelToGraph(g, l)
           d1 == SetGraph(d, h)
           W == Waiters(h, t)
           B == WaitBlocks(h, t)
           K == Events(h) \ B
           k == removeLast(h, W)
           c == handleThreadFinish(d, t)
<1>1. GraphOK(prog, g, {}) /\ ExecOK(prog, d.x)
  BY DEF ContextOK, ExecOK
<1>2. c = SetGraph(d, k)
  BY DEF handleThreadFinish, unblockThreads, Waiters
<1>3. LabelOK(prog, g, l) /\ Extends(prog, g, l) /\ l.pos \notin Events(g) /\ l.typ = "TF"
  BY <1>1, NextLabelOK DEF EventTypes
<1>4. l.revisitable
  BY NewLabelsRevisitable
<1> HIDE DEF l
<1>5. Whole(d1.x.graph, {})
  <2>1. RMWAfter(g, l)
    BY <1>3 DEF RMWAfter
  <2> QED BY <1>3, <1>4, <2>1, AddedWhole
<1>6. GraphOK(prog, h, {})
  BY <1>1, <1>3, LabelAppends
<1> HIDE DEF h
<1>7. d1.x.graph = h
  BY <1>1 DEF SetGraph, ContextOK, ExecOK
<1> HIDE DEF d1, c
<1>8. \A e \in B : e \in Events(h) /\ h.lab[e].typ = "B"
  BY <1>6, WaitersGo
<1>9. Shrunk(h, k, K) /\ GraphOK(prog, k, {}) /\ \A e \in K : k.lab[e] = h.lab[e]
  BY <1>6, WaitersGo
<1> HIDE DEF k
<1>10. c.x.graph = k
  BY <1>1, <1>2 DEF SetGraph, ContextOK, ExecOK
<1>11. \A e \in Events(h) \ K : h.lab[e].typ = "B"
  BY <1>8
<1> HIDE DEF K
<1>12. Whole(k, {})
  BY <1>5, <1>6, <1>7, <1>9, <1>11, BlocksGoWhole
<1> QED BY <1>10, <1>12 DEF c, Finishes

(*********************** The stack and what is whole ***********************)

(* The executions below the top one are whole. *)
LowerWhole(s) == \A i \in DOMAIN s : i # Len(s) => Whole(s[i].graph, {})

(* The top one is unless it ends with an error. *)
LEMMA WholeParts ==
  ASSUME DriverInv, WholeInv, phase # "finished"
  PROVE  LowerWhole(execStack) /\ (phase = "halted" \/ ErrorNext \/ Whole(Top.graph, {}))
<1>1. execStack # <<>> /\ StackOK(prog, execStack)
  BY TopOK
<1>2. Len(execStack) \in DOMAIN execStack /\ Top = execStack[Len(execStack)]
  BY <1>1, LastExecution DEF Top
<1>3. \A i \in DOMAIN execStack : Failed(i) \/ Whole(execStack[i].graph, {})
  BY DEF WholeInv
<1> QED BY <1>2, <1>3 DEF LowerWhole, Failed

(* The same of the state after a step. *)
LEMMA WholePartsNext ==
  ASSUME LowerWhole(execStack'), NEW y, execStack' # <<>> => Last(execStack') = y,
         \/ phase' = "halted" \/ ((isMoot' \/ phase' = "done") /\ ErrorLast(y))
         \/ Whole(y.graph, {})
  PROVE  WholeInv'
<1>1. ASSUME NEW i \in DOMAIN execStack'
      PROVE  \/ i = Len(execStack') /\ (phase' = "halted" \/ ((isMoot' \/ phase' = "done") /\ ErrorLast(Last(execStack'))))
             \/ Whole(execStack'[i].graph, {})
  <2>1. CASE i # Len(execStack')
    BY <2>1 DEF LowerWhole
  <2>2. CASE i = Len(execStack')
    <3>1. execStack' # <<>> /\ Last(execStack') = execStack'[i]
      BY <2>2 DEF Last
    <3> QED BY <2>2, <3>1
  <2> QED BY <2>1, <2>2
<1> QED BY <1>1 DEF WholeInv, Failed, ErrorNext, ErrorLast, Top

(* The top execution changes. *)
LEMMA TopWhole ==
  ASSUME NEW p, NEW s, StackOK(p, s), s # <<>>, LowerWhole(s), NEW y
  PROVE  LowerWhole(WithTop(s, y)) /\ (WithTop(s, y) # <<>> => Last(WithTop(s, y)) = y)
<1> DEFINE u == WithTop(s, y)
           n == Len(s)
<1>1. n \in Nat \ {0} /\ DOMAIN s = 1 .. n /\ s \in Seq(ToSet(s))
  BY LastExecution DEF StackOK, IsSeq
<1>2. DOMAIN u = DOMAIN s /\ u[n] = y /\ \A i \in DOMAIN s : i # n => u[i] = s[i]
  BY <1>1 DEF WithTop
<1>3. Len(u) = n
  <2> DEFINE R == ToSet(s) \cup {y}
  <2>1. s \in Seq(R) /\ y \in R
    BY <1>1
  <2> HIDE DEF R
  <2> QED BY <1>1, <2>1 DEF WithTop
<1> HIDE DEF u, n
<1>4. LowerWhole(u)
  BY <1>2, <1>3 DEF LowerWhole, n
<1>5. Last(u) = y
  BY <1>2, <1>3 DEF Last
<1> QED BY <1>4, <1>5 DEF u

(* popExecution(): the execution below is whole. *)
LEMMA PopWhole ==
  ASSUME NEW p, NEW s, StackOK(p, s), s # <<>>, LowerWhole(s)
  PROVE  LowerWhole(Front(s)) /\ (Front(s) # <<>> => Whole(Last(Front(s)).graph, {}))
<1> DEFINE u == Front(s)
           R == ToSet(s)
           n == Len(s)
<1>1. n \in Nat \ {0} /\ DOMAIN s = 1 .. n
  BY LastExecution
<1>2. s \in Seq(R)
  BY DEF StackOK, IsSeq
<1>3. u = SubSeq(s, 1, n - 1)
  BY DEF Front
<1> HIDE DEF u, R
<1>4. u \in Seq(R) /\ Len(u) = n - 1 /\ DOMAIN u = 1 .. n - 1 /\ \A i \in 1 .. n - 1 : u[i] = s[i]
  BY <1>1, <1>2, <1>3
<1>5. \A i \in DOMAIN u : i \in DOMAIN s /\ i # n /\ u[i] = s[i]
  BY <1>1, <1>4
<1> HIDE DEF n
<1>6. \A i \in DOMAIN u : Whole(u[i].graph, {})
  BY <1>5 DEF LowerWhole, n
<1>7. u # <<>> => Len(u) \in DOMAIN u /\ Last(u) = u[Len(u)]
  BY <1>1, <1>4 DEF Last
<1> QED BY <1>6, <1>7 DEF LowerWhole, u

(* pushExecution(): so is the one that was cut. *)
LEMMA PushWhole ==
  ASSUME NEW p, NEW s, StackOK(p, s), s # <<>>, LowerWhole(s), NEW x, Whole(x.graph, {}), NEW y
  PROVE  LET u == Front(s) \o <<x, y>> IN LowerWhole(u) /\ Last(u) = y
<1> DEFINE f == Front(s)
           u == f \o <<x, y>>
           R == ToSet(s) \cup {x, y}
           n == Len(s)
<1>1. n \in Nat \ {0} /\ DOMAIN s = 1 .. n
  BY LastExecution
<1>2. s \in Seq(R) /\ <<x, y>> \in Seq(R)
  <2>1. s \in Seq(ToSet(s))
    BY DEF StackOK, IsSeq
  <2>2. s \in Seq(R)
    BY <2>1
  <2>3. x \in R /\ y \in R
    OBVIOUS
  <2> HIDE DEF R
  <2> QED BY <2>2, <2>3
<1>3. f = SubSeq(s, 1, n - 1)
  BY DEF Front
<1> HIDE DEF f, R
<1>4. f \in Seq(R) /\ Len(f) = n - 1 /\ \A i \in 1 .. n - 1 : f[i] = s[i]
  BY <1>1, <1>2, <1>3
<1>5. Len(u) = n + 1 /\ DOMAIN u = 1 .. n + 1 /\ \A i \in 1 .. n - 1 : u[i] = s[i]
  BY <1>1, <1>2, <1>4
<1>6. u[n] = x /\ u[n + 1] = y
  BY <1>1, <1>2, <1>4
<1>7. Last(u) = y
  <2> HIDE DEF u
  <2> QED BY <1>5, <1>6 DEF Last
<1> HIDE DEF u
<1>8. ASSUME NEW i \in DOMAIN u, i # Len(u) PROVE Whole(u[i].graph, {})
  <2>1. i \in 1 .. n - 1 \/ i = n
    BY <1>1, <1>5, <1>8
  <2>2. i \in 1 .. n - 1 => i \in DOMAIN s /\ i # n
    BY <1>1
  <2> HIDE DEF n
  <2> QED BY <1>5, <1>6, <2>1, <2>2 DEF LowerWhole, n
<1> QED BY <1>7, <1>8 DEF LowerWhole, u, f

(************************* The actions and wholes **************************)

(* The steps of the program finish what they add. *)
LEMMA RunStepWhole ==
  ASSUME CheckerOK, DriverInv, ProgramOK(prog), StackSettled(execStack), WholeInv, NEW t, RunStep(t)
  PROVE  WholeInv'
<1>1. Scheduled(t)
  BY StepHandler
<1>2. PICK l, d : Handled(d) /\ (Access(l, d) \/ OtherEvent(l, d) \/ ThreadEvent(t, d))
  BY StepHandler
<1>3. execStack # <<>> /\ StackOK(prog, execStack)
  BY <1>1, TopOK DEF Scheduled
<1>4. Top = Last(execStack) /\ ExecSettled(Top)
  BY <1>3, LastExecution DEF Top, StackSettled
<1>5. LowerWhole(execStack) /\ Whole(Top.graph, {})
  <2>1. phase = "run" /\ ~isMoot
    BY <1>1 DEF Scheduled, Context
  <2>2. ~ErrorNext
    BY <2>1 DEF ErrorNext
  <2> QED BY <2>1, <2>2, WholeParts
<1>6. /\ ContextOK(prog, Context) /\ ~Context.moot /\ Context.internal = NoError /\ NoDangling(Context.x.graph)
      /\ Context.x = Top /\ t \in ThreadIds(Context.x.graph) /\ isSchedulable(Context.x.graph, t)
      /\ ExecSettled(Context.x) /\ Whole(Context.x.graph, {})
  BY <1>1, <1>4, <1>5 DEF Scheduled
<1>7. Finishes(d)
  <2>1. CASE Access(l, d)
    BY <1>6, <2>1, PlainLoadWhole, NALoadWhole, PlainStoreWhole, NAStoreWhole, RMWWhole DEF Access, NextEvent
  <2>2. CASE OtherEvent(l, d)
    BY <1>6, <2>2, MallocWhole, FreeWhole, DummyWhole DEF OtherEvent, NextEvent
  <2>3. CASE ThreadEvent(t, d)
    BY <1>6, <2>3, AssumeWhole, ThreadCreateWhole, ThreadJoinWhole, ThreadFinishWhole DEF ThreadEvent
  <2> QED BY <1>2, <2>1, <2>2, <2>3
<1>8. execStack' = WithTop(execStack, d.x) /\ isMoot' = d.moot
  BY <1>2 DEF Handled, SetTop, WithTop
<1>9. LowerWhole(execStack') /\ (execStack' # <<>> => Last(execStack') = d.x)
  BY <1>3, <1>5, <1>8, TopWhole
<1> QED BY <1>7, <1>8, <1>9, WholePartsNext DEF Finishes

(* done() cuts at the event of its item: all but that event is whole. *)
LEMMA TakenWhole ==
  ASSUME CheckerOK, DriverInv, ProgramOK(prog), StackSettled(execStack), WholeInv, NEW kind, NextItem(kind),
         kind # "ERROR"
  PROVE  LET c == CutEvent(Last(Top.workqueue))
         IN LowerWhole(execStack) /\ Whole(CutAt(Top, c).graph, {c} \cap Reads(Top.graph))
<1>1. phase = "done" /\ Top.workqueue # <<>> /\ Last(Top.workqueue).kind = kind /\ internalError = NoError
  BY DEF NextItem
<1>2. execStack # <<>> /\ ExecOK(prog, Top) /\ StackOK(prog, execStack)
  BY <1>1, TopOK
<1>3. ExecSettled(Top)
  BY <1>2, LastExecution DEF Top, StackSettled
<1>4. ~ErrorNext
  BY <1>1 DEF ErrorNext
<1>5. NoDangling(Top.graph)
  BY <1>1, <1>4, InvParts
<1>6. LowerWhole(execStack) /\ Whole(Top.graph, {})
  BY <1>1, <1>4, WholeParts
<1> QED BY <1>1, <1>2, <1>3, <1>5, <1>6, CutWhole

(* The item that done() takes belongs to the graph. *)
LEMMA TakenItemOK ==
  ASSUME DriverInv, NEW kind, NextItem(kind)
  PROVE  GraphOK(prog, Top.graph, {}) /\ ItemOK(Top.graph, Last(Top.workqueue))
<1>1. phase = "done" /\ Top.workqueue # <<>>
  BY DEF NextItem
<1>2. ExecOK(prog, Top)
  BY <1>1, TopOK
<1>3. GraphOK(prog, Top.graph, {}) /\ ItemsOK(Top.graph, Top.workqueue)
  BY <1>2 DEF ExecOK
<1>4. Last(Top.workqueue) = Top.workqueue[Len(Top.workqueue)] /\ Len(Top.workqueue) \in DOMAIN Top.workqueue
  BY <1>1, <1>3, FrontItems
<1> QED BY <1>3, <1>4 DEF ItemsOK

(* If it cuts at a write the graph is whole. *)
LEMMA TakenWriteWhole ==
  ASSUME CheckerOK, DriverInv, ProgramOK(prog), StackSettled(execStack), WholeInv,
         NEW kind \in {"CO", "BR", "WARN"}, NextItem(kind)
  PROVE  LowerWhole(execStack) /\ Whole(CutAt(Top, CutEvent(Last(Top.workqueue))).graph, {})
<1> DEFINE item == Last(Top.workqueue)
           c == CutEvent(item)
           g == Top.graph
<1>1. LowerWhole(execStack) /\ Whole(CutAt(Top, c).graph, {c} \cap Reads(g))
  BY TakenWhole
<1>2. GraphOK(prog, g, {}) /\ ItemOK(g, item) /\ item.kind = kind
  BY TakenItemOK DEF NextItem
<1> HIDE DEF item
<1>3. g.lab[c].typ = "W"
  <2>1. CASE kind = "BR"
    <3>1. c = item.rev /\ item.pos \in Events(g) /\ g.lab[item.pos].typ = "R" /\ c \in ToSet(g.co[Loc(g, item.pos)])
      BY <1>2, <2>1 DEF ItemOK, CutEvent
    <3> QED BY <1>2, <3>1, CoOf
  <2>2. CASE kind # "BR"
    BY <1>2, <2>2 DEF ItemOK, CutEvent
  <2> QED BY <2>1, <2>2
<1> HIDE DEF c, g
<1>4. {c} \cap Reads(g) = {}
  BY <1>3 DEF Reads, OfType
<1> QED BY <1>1, <1>4 DEF c, g, item

(* The steps of done() that end with one execution more or as many, whole. *)
LEMMA ContinueWhole ==
  ASSUME NEW s, StackOK(prog, s), s # <<>>, LowerWhole(s), NEW y, Whole(y.graph, {}), execStack' = WithTop(s, y)
  PROVE  WholeInv'
<1>1. LowerWhole(execStack') /\ (execStack' # <<>> => Last(execStack') = y)
  BY TopWhole
<1> QED BY <1>1, WholePartsNext

(* The store that a forward revisit gives a read is older than the read. *)
LEMMA OlderStore ==
  ASSUME NEW p, NEW g, GraphOK(p, g, {}), NEW r \in Events(g), g.lab[r].typ = "R", Youngest(g, r),
         NEW w, w \in StoresOf(g, r)
  PROVE  AfterSettled(g, r) /\ StoreOlder(g, r, w)
<1>1. \A e \in Events(g) : Stamp(g, e) \in Nat
  BY StampFacts
<1>2. AfterSettled(g, r)
  BY <1>1 DEF AfterSettled, Youngest
<1>3. CASE w \in ToSet(g.co[Loc(g, r)])
  <2>1. w \in Events(g) /\ g.lab[w].typ = "W"
    BY <1>3, CoOf
  <2>2. w[2] > 0 /\ w # r
    <3>1. w[2] # 0 /\ w[2] \in Nat /\ w # r
      BY <2>1, EventsArePairs DEF GraphOK, Kinds
    <3> QED BY <3>1
  <2>3. Stamp(g, w) <= Stamp(g, r) /\ Stamp(g, w) # Stamp(g, r)
    BY <2>1, <2>2 DEF Youngest, GraphOK, Stamps
  <2>4. Stamp(g, w) < Stamp(g, r)
    BY <1>1, <2>1, <2>3
  <2> QED BY <1>2, <2>4 DEF StoreOlder
<1>4. CASE w = InitEvent
  BY <1>2, <1>4 DEF StoreOlder
<1> QED BY <1>3, <1>4 DEF StoresOf

(* The forward revisit of a read completes the read. *)
LEMMA ForwardRevisitReadWhole ==
  ASSUME CheckerOK, DriverInv, ProgramOK(prog), StackSettled(execStack), WholeInv, ForwardRevisitRead
  PROVE  WholeInv'
<1> DEFINE item == Last(Top.workqueue)
           y == CutAt(Top, CutEvent(item))
           rv == revisitRead(y, item.pos, item.rev)
<1>1. NextItem("RF")
  BY DEF ForwardRevisitRead
<1>2. CutEvent(item) = item.pos
  BY <1>1 DEF NextItem, CutEvent
<1>3. Restricted(item.pos) = y
  BY <1>2 DEF Restricted, CutAt
<1>4. SetTop(rv.exec)
  BY <1>3 DEF ForwardRevisitRead
<1>5. /\ execStack # <<>> /\ StackOK(prog, execStack) /\ item.kind = "RF" /\ ExecOK(prog, y) /\ ItemOK(y.graph, item)
      /\ IsLast(y.graph, CutEvent(item)) /\ NoDangling(y.graph) /\ Youngest(y.graph, CutEvent(item))
  BY <1>1, TakenItem
<1>6. ItemSettled(y.graph, item) /\ ExecSettled(y)
  BY <1>1, TakenSettles
<1>7. LowerWhole(execStack) /\ Whole(y.graph, {item.pos} \cap Reads(Top.graph))
  BY <1>1, <1>2, TakenWhole
<1> HIDE DEF item, y
<1>8. /\ item.pos \in Events(y.graph) /\ y.graph.lab[item.pos].typ = "R" /\ IsLast(y.graph, item.pos)
      /\ item.rev \in StoresOf(y.graph, item.pos) /\ item.pos \notin Settled(y.graph) /\ Youngest(y.graph, item.pos)
  BY <1>2, <1>5, <1>6 DEF ItemOK, ItemSettled
<1>9. Whole(y.graph, {item.pos})
  <2>1. \A e \in ({item.pos} \cap Reads(Top.graph)) \ {item.pos} : Finished(y.graph, e)
    OBVIOUS
  <2> QED BY <1>7, <2>1, WholeFinished
<1>10. AfterSettled(y.graph, item.pos) /\ StoreOlder(y.graph, item.pos, item.rev)
  BY <1>5, <1>8, OlderStore DEF ExecOK
<1>11. Whole(rv.exec.graph, {})
  BY <1>5, <1>6, <1>8, <1>9, <1>10, RevisitReadWhole
<1> HIDE DEF rv
<1>12. execStack' = WithTop(execStack, rv.exec)
  BY <1>4 DEF SetTop, WithTop
<1> QED BY <1>5, <1>7, <1>11, <1>12, ContinueWhole

(* The forward revisit of a write keeps the graph whole. *)
LEMMA ForwardRevisitWriteWhole ==
  ASSUME CheckerOK, DriverInv, ProgramOK(prog), StackSettled(execStack), WholeInv, ForwardRevisitWrite
  PROVE  WholeInv'
<1> DEFINE item == Last(Top.workqueue)
           y == CutAt(Top, CutEvent(item))
           rv == revisitWrite(y, item.pos, item.rev)
<1>1. NextItem("CO")
  BY DEF ForwardRevisitWrite
<1>2. CutEvent(item) = item.pos
  BY <1>1 DEF NextItem, CutEvent
<1>3. Restricted(item.pos) = y
  BY <1>2 DEF Restricted, CutAt
<1>4. SetTop(rv.exec)
  BY <1>3 DEF ForwardRevisitWrite
<1>5. /\ execStack # <<>> /\ StackOK(prog, execStack) /\ item.kind = "CO" /\ ExecOK(prog, y) /\ ItemOK(y.graph, item)
      /\ Youngest(y.graph, CutEvent(item)) /\ NoDangling(y.graph)
  BY <1>1, TakenItem
<1>6. ItemSettled(y.graph, item) /\ ExecSettled(y)
  BY <1>1, TakenSettles
<1>7. LowerWhole(execStack) /\ Whole(y.graph, {})
  BY <1>1, TakenWriteWhole
<1> HIDE DEF item, y
<1>8. /\ item.pos \in Events(y.graph) /\ y.graph.lab[item.pos].typ = "W" /\ Youngest(y.graph, item.pos)
      /\ item.pos \in StoresOf(y.graph, item.pos) /\ item.rev \in StoresOf(y.graph, item.pos) \ {item.pos}
      /\ item.pos \notin Settled(y.graph)
  BY <1>2, <1>5, <1>6 DEF ItemOK, ItemSettled
<1>9. Whole(rv.exec.graph, {})
  BY <1>5, <1>6, <1>7, <1>8, RevisitWriteWhole
<1> HIDE DEF rv
<1>10. execStack' = WithTop(execStack, rv.exec)
  BY <1>4 DEF SetTop, WithTop
<1> QED BY <1>5, <1>7, <1>9, <1>10, ContinueWhole

(* backwardRevisit() completes the read in the copy; the execution that it  *)
(* takes its item from stays whole.                                         *)
LEMMA BackwardRevisitWhole ==
  ASSUME CheckerOK, DriverInv, ProgramOK(prog), StackSettled(execStack), WholeInv, BackwardRevisit
  PROVE  WholeInv'
<1> DEFINE item == Last(Top.workqueue)
           x == CutAt(Top, CutEvent(item))
           y == Copied(x.graph, item)
           rv == revisitRead(y, item.pos, item.rev)
<1>1. NextItem("BR")
  BY DEF BackwardRevisit
<1>2. CutEvent(item) = item.rev
  BY <1>1 DEF NextItem, CutEvent
<1>3. Restricted(item.rev) = x
  BY <1>2 DEF Restricted, CutAt
<1>4. execStack' = Front(execStack) \o <<x, rv.exec>>
  BY <1>3 DEF BackwardRevisit
<1>5. /\ execStack # <<>> /\ StackOK(prog, execStack) /\ item.kind = "BR"
      /\ ExecOK(prog, x) /\ ItemOK(x.graph, item) /\ NoDangling(x.graph)
  BY <1>1, TakenItem
<1>6. ItemSettled(x.graph, item) /\ ExecSettled(x)
  BY <1>1, TakenSettles
<1>7. LowerWhole(execStack) /\ Whole(x.graph, {})
  BY <1>1, TakenWriteWhole
<1> HIDE DEF item, x
<1>8. /\ ExecOK(prog, y) /\ NoDangling(y.graph)
      /\ item.pos \in Events(y.graph) /\ y.graph.lab[item.pos].typ = "R" /\ IsLast(y.graph, item.pos)
      /\ item.rev \in StoresOf(y.graph, item.pos)
  BY <1>5, CopiedOK DEF ExecOK
<1>9. ExecSettled(y) /\ item.pos \notin Settled(y.graph)
  BY <1>5, <1>6, CopySettles DEF ExecOK, ExecSettled
<1>10. Whole(y.graph, {item.pos}) /\ AfterSettled(y.graph, item.pos) /\ StoreOlder(y.graph, item.pos, item.rev)
  BY <1>5, <1>6, <1>7, CopyWhole DEF ExecOK, ExecSettled
<1> HIDE DEF y
<1>11. Whole(rv.exec.graph, {})
  BY <1>8, <1>9, <1>10, RevisitReadWhole
<1> DEFINE z == rv.exec
<1> HIDE DEF rv
<1>12. Whole(z.graph, {}) /\ execStack' = Front(execStack) \o <<x, z>>
  BY <1>4, <1>11
<1> HIDE DEF z
<1>13. LowerWhole(execStack') /\ Last(execStack') = z
  BY <1>5, <1>7, <1>12, PushWhole
<1> QED BY <1>12, <1>13, WholePartsNext

(* The replay of a warning leaves a whole graph; the replay of an error     *)
(* ends the run.                                                            *)
LEMMA ErrorReplayWhole ==
  ASSUME CheckerOK, DriverInv, ProgramOK(prog), StackSettled(execStack), WholeInv, ErrorReplay
  PROVE  WholeInv'
<1> DEFINE item == Last(Top.workqueue)
           y == CutAt(Top, CutEvent(item))
<1>1. PICK kind \in {"WARN", "ERROR"} : NextItem(kind)
  BY DEF ErrorReplay
<1>2. CutEvent(item) = item.pos /\ item.kind = kind
  BY <1>1 DEF NextItem, CutEvent
<1>3. Restricted(item.pos) = y
  BY <1>2 DEF Restricted, CutAt
<1>4. SetTop(y) /\ phase' = IF item.kind = "ERROR" THEN "halted" ELSE "done"
  BY <1>3 DEF ErrorReplay
<1>5. execStack # <<>> /\ StackOK(prog, execStack)
  BY <1>1, TakenItem
<1>6. LowerWhole(execStack)
  BY <1>1, WholeParts DEF NextItem
<1>7. kind = "WARN" => Whole(y.graph, {})
  BY <1>1, TakenWriteWhole
<1> HIDE DEF item, y
<1>8. execStack' = WithTop(execStack, y)
  BY <1>4 DEF SetTop, WithTop
<1>9. LowerWhole(execStack') /\ (execStack' # <<>> => Last(execStack') = y)
  BY <1>5, <1>6, <1>8, TopWhole
<1> QED BY <1>2, <1>4, <1>7, <1>9, WholePartsNext

(* Every step of the driver leaves the executions whole. *)
LEMMA StepWhole ==
  ASSUME CheckerOK, \A p \in Programs : ProgramOK(p), DriverInv, StackSettled(execStack), WholeInv, [Next]_vars
  PROVE  WholeInv'
<1>1. ProgramOK(prog)
  BY DEF DriverInv
<1>2. CASE \E t \in ThreadIds(Top.graph) : RunStep(t)
  BY <1>1, <1>2, RunStepWhole
<1>3. CASE HandleExecutionEnd
  <2>1. phase = "run" /\ phase' = "done" /\ execStack' = execStack
    BY <1>3 DEF HandleExecutionEnd
  <2>2. LowerWhole(execStack) /\ (ErrorNext \/ Whole(Top.graph, {}))
    BY <2>1, WholeParts
  <2>3. ErrorNext => ErrorLast(Top)
    BY DEF ErrorNext, ErrorLast
  <2>4. LowerWhole(execStack') /\ Last(execStack') = Top
    BY <2>1, <2>2 DEF Top
  <2> QED BY <2>1, <2>2, <2>3, <2>4, WholePartsNext
<1>4. CASE RevisitStep
  <2>1. CASE ForwardRevisitRead
    BY <1>1, <2>1, ForwardRevisitReadWhole
  <2>2. CASE ForwardRevisitWrite
    BY <1>1, <2>2, ForwardRevisitWriteWhole
  <2>3. CASE BackwardRevisit
    BY <1>1, <2>3, BackwardRevisitWhole
  <2>4. CASE ErrorReplay
    BY <1>1, <2>4, ErrorReplayWhole
  <2>5. CASE PopExecution
    <3>1. phase = "done" /\ execStack # <<>> /\ StackOK(prog, execStack) /\ execStack' = Front(execStack)
      BY <2>5, TopOK DEF PopExecution
    <3>2. LowerWhole(execStack)
      BY <3>1, WholeParts
    <3> DEFINE y == Last(execStack')
    <3>3. LowerWhole(execStack') /\ (execStack' # <<>> => Whole(y.graph, {}))
      BY <3>1, <3>2, PopWhole
    <3>4. CASE execStack' = <<>>
      BY <3>4 DEF WholeInv
    <3>5. CASE execStack' # <<>>
      BY <3>3, <3>5, WholePartsNext
    <3> QED BY <3>4, <3>5
  <2> QED BY <1>4, <2>1, <2>2, <2>3, <2>4, <2>5 DEF RevisitStep
<1>5. CASE UNCHANGED vars
  BY <1>5 DEF vars, WholeInv, Failed, ErrorNext, Top
<1> QED BY <1>2, <1>3, <1>4, <1>5 DEF Next, Terminated

(******************************* The theorems ******************************)

(* Handlers and revisits finish what they add and reread: in every          *)
(* execution on the stack, but one that ends with an error, every write is  *)
(* in coherence, every RMW whose load asks for a write has it, and only     *)
(* settled events come between the two.                                     *)
THEOREM WholeInvariant ==
  ASSUME CheckerOK, \A p \in Programs : ProgramOK(p)
  PROVE  Spec => []WholeInv
<1>1. Init => WholeInv
  <2> DEFINE g == EmptyGraph
             x == [graph |-> g, workqueue |-> <<>>]
  <2>1. Reads(g) = {} /\ Writes(g) = {}
    BY DEF EmptyGraph, Reads, Writes, OfType, Events, NewLabel
  <2> HIDE DEF g
  <2>2. Whole(x.graph, {})
    BY <2>1 DEF Whole, Placed, Completed, OlderStores, Unsplit, RMWReads
  <2> HIDE DEF x
  <2>3. ASSUME Init PROVE execStack = <<x>>
    BY <2>3 DEF Init, x, g
  <2> QED BY <2>2, <2>3 DEF WholeInv
<1>2. DriverInv /\ SettledInv /\ WholeInv /\ [Next]_vars => WholeInv'
  BY StepWhole DEF SettledInv
<1> QED BY <1>1, <1>2, DriverInvariant, SettledInvariant, PTL DEF Spec

(* Every graph on the stack is sound, whatever the program, the schedule    *)
(* and the revisits: threads have no gaps, reads read stores of their       *)
(* location that are in the graph, coherence is a list of the writes, and   *)
(* RMWs whose loads ask for a write have it.                                *)
THEOREM WellFormedAlways ==
  ASSUME CheckerOK, \A p \in Programs : ProgramOK(p)
  PROVE  Spec => []WellFormed
<1>1. ASSUME DriverInv, WholeInv PROVE WellFormed
  <2> SUFFICES ASSUME NEW i \in DOMAIN execStack
               PROVE  LET g == execStack[i].graph
                          stores(l) == {w \in Writes(g) : Loc(g, w) = l}
                      IN /\ \A e \in Events(g) : e[2] > 0 => /\ <<e[1], e[2] - 1>> \in Events(g)
                                                            /\ Stamp(g, <<e[1], e[2] - 1>>) < Stamp(g, e)
                         /\ \A r \in Reads(g) : g.lab[r].rf \in {InitEvent, Bottom} \cup stores(Loc(g, r))
                         /\ \A l \in Locs : ToSet(g.co[l]) \subseteq stores(l) /\ IsInjective(g.co[l])
                         /\ ~Failed(i) =>
                               /\ \A l \in Locs : stores(l) \subseteq ToSet(g.co[l])
                               /\ \A r \in Reads(g) :
                                     g.lab[r].rf # Bottom /\ valueMakesRMWSucceed(g, r, ReadValue(g, r))
                                       => IsRMWRead(g, r)
    BY DEF WellFormed
  <2> DEFINE g == execStack[i].graph
             stores(l) == {w \in Writes(g) : Loc(g, w) = l}
  <2>1. GraphOK(prog, g, {}) /\ (Failed(i) \/ Whole(g, {}))
    BY <1>1, InvParts DEF StackOK, ExecOK, WholeInv
  <2> HIDE DEF g
  <2>2. ASSUME NEW e \in Events(g), e[2] > 0
        PROVE  <<e[1], e[2] - 1>> \in Events(g) /\ Stamp(g, <<e[1], e[2] - 1>>) < Stamp(g, e)
    <3>1. e[2] \in Nat
      BY <2>1, EventsArePairs
    <3>2. e[2] - 1 \in 0 .. e[2] - 1
      BY <2>2, <3>1
    <3> QED BY <2>1, <3>2 DEF GraphOK, PoOrder
  <2>3. ASSUME NEW l \in Locs PROVE ToSet(g.co[l]) \subseteq stores(l) /\ IsInjective(g.co[l])
    <3>1. CoherenceOK(g)
      BY <2>1 DEF GraphOK
    <3>2. IsInjective(g.co[l])
      BY <3>1 DEF CoherenceOK, IsInjective
    <3>3. g.co[l] \in Seq(Events(g))
      BY <3>1 DEF CoherenceOK
    <3>4. ToSet(g.co[l]) \subseteq Events(g)
      BY <3>3, SeqFacts
    <3>5. \A w \in ToSet(g.co[l]) : g.lab[w].typ = "W" /\ Loc(g, w) = l
      BY <3>1 DEF CoherenceOK
    <3> QED BY <3>2, <3>4, <3>5 DEF Writes, OfType
  <2>4. ASSUME NEW r \in Reads(g) PROVE g.lab[r].rf \in {InitEvent, Bottom} \cup stores(Loc(g, r))
    <3>1. r \in Events(g) /\ g.lab[r].typ = "R"
      BY DEF Reads, OfType
    <3>2. g.lab[r].rf \in {Bottom, InitEvent} \cup ToSet(g.co[Loc(g, r)])
      BY <2>1, <3>1 DEF GraphOK, ReadsFrom
    <3>3. Loc(g, r) \in Locs
      BY <2>1, <3>1, CoOf
    <3> QED BY <2>3, <3>2, <3>3
  <2>5. ASSUME ~Failed(i), NEW l \in Locs PROVE stores(l) \subseteq ToSet(g.co[l])
    <3>1. Placed(g, {})
      BY <2>1, <2>5 DEF Whole
    <3> QED BY <3>1 DEF Placed
  <2>6. ASSUME ~Failed(i), NEW r \in Reads(g), g.lab[r].rf # Bottom, valueMakesRMWSucceed(g, r, ReadValue(g, r))
        PROVE  IsRMWRead(g, r)
    <3>1. Completed(g, {})
      BY <2>1, <2>6 DEF Whole
    <3>2. AsksForWrite(g, r)
      BY <2>6 DEF AsksForWrite
    <3>3. r \in RMWReads(g)
      BY <3>1, <3>2 DEF Completed
    <3> QED BY <3>3 DEF RMWReads
  <2> QED BY <2>2, <2>3, <2>4, <2>5, <2>6 DEF g
<1> QED BY <1>1, DriverInvariant, WholeInvariant, PTL

===============================================================================
