-------------------------- MODULE AxiomaticReference --------------------------
(***************************************************************************)
(* The executions of a program under the release/acquire and RC11 memory   *)
(* models, by their textbook definitions: a graph is an execution if its   *)
(* relations satisfy the model's axioms.  A load may read any store and a  *)
(* store may go anywhere in coherence, and the axioms say which of these   *)
(* graphs count.  They hold of a graph only if they hold of what was there *)
(* before the last event, so that graphs are built event by event.         *)
(***************************************************************************)
EXTENDS Reference

(******************************** Relations ********************************)

(* A relation on the events is the function to an event's successors.       *)
Id(E, S) == [e \in E |-> {e} \cap S]
Or(r, s) == [e \in DOMAIN r |-> r[e] \cup s[e]]
Seq2(r, s) == [e \in DOMAIN r |-> UNION {s[d] : d \in r[e]}]
Opt(r) == [e \in DOMAIN r |-> {e} \cup r[e]]
Filter(r, P(_, _)) == [e \in DOMAIN r |-> {d \in r[e] : P(e, d)}]
RECURSIVE Plus(_)
Plus(r) == LET s == CHOOSE f \in {Or(r, Seq2(r, r))} : TRUE IN IF s = r THEN r ELSE Plus(s)
Star(r) == Opt(Plus(r))
Irreflexive(r) == \A e \in DOMAIN r : e \notin r[e]

(* Program order with thread creation, join and hints; coherence; from-reads. *)
po(g) == Plus([e \in Events(g) |-> po_imm_succ(g, e)])
sb(g) == [e \in Events(g) |-> po_imm_succ(g, e) \cup tc_succ(g, e) \cup tj_succ(g, e) \cup lin_succs(g, e)]
rf(g) == [e \in Events(g) |-> rf_succs(g, e)]
mo(g) == [e \in Events(g) |-> IF g.lab[e].typ = "W" THEN ToSet(co_succs(g, e, Loc(g, e))) ELSE {}]
fr(g) == [e \in Events(g) |-> IF g.lab[e].typ = "R" THEN ToSet(co_succs(g, g.lab[e].rf, Loc(g, e))) ELSE {}]
rmw(g) == [e \in Events(g) |-> IF IsRMWRead(g, e) THEN po_imm_succ(g, e) ELSE {}]
eco(g) == Plus(Or(rf(g), Or(mo(g), fr(g))))

(* Releases and acquires; fences; the SC events. *)
Is(g, P(_)) == Id(Events(g), {e \in Events(g) : P(g.lab[e])})
Fences(g) == Id(Events(g), OfType(g, {"F"}))

(* A release synchronizes with an acquire that reads from its release       *)
(* sequence: the write and the RMWs that follow it, one from the other.     *)
sw(g) == LET before == Or(Id(Events(g), Writes(g)), Seq2(Fences(g), Seq2(po(g), Id(Events(g), Writes(g)))))
             after == Or(Id(Events(g), Reads(g)), Seq2(po(g), Fences(g)))
             chain == Seq2(Star(Seq2(rf(g), rmw(g))), rf(g))
         IN Seq2(Is(g, isAtLeastRelease), Seq2(before, Seq2(chain, Seq2(after, Is(g, isAtLeastAcquire)))))
hb(g) == Plus(Or(sb(g), sw(g)))

(********************************* Axioms **********************************)

Coherent(hbg, ecog) == Irreflexive(hbg) /\ Irreflexive(Seq2(hbg, ecog))
IsAtomic(g) == \A r \in Reads(g) : IsRMWRead(g, r) => CoBefore(g, <<r[1], r[2] + 1>>) = g.lab[r].rf

(* The partial SC order, for happens-before h and eco x. *)
SamePlace(g, d, e) == IsAccess(g, d) /\ IsAccess(g, e) /\ Loc(g, d) = Loc(g, e)
psc(g, h, x) ==
    LET F == Seq2(Fences(g), Is(g, isSC))
        E == Is(g, isSC)
        p == po(g)
        far == Filter(p, LAMBDA d, e : ~SamePlace(g, d, e))
        near == Filter(h, LAMBDA d, e : SamePlace(g, d, e))
        scb == Or(p, Or(Seq2(far, Seq2(h, far)), Or(near, Or(mo(g), fr(g)))))
        base == Seq2(Or(E, Seq2(F, Opt(h))), Seq2(scb, Or(E, Seq2(Opt(h), F))))
    IN Or(base, Seq2(F, Seq2(Or(h, Seq2(h, Seq2(x, h))), F)))

RAConsistent(g) == IsAtomic(g) /\ Coherent(hb(g), eco(g))
RC11Consistent(g) ==
    /\ IsAtomic(g)
    /\ \E h \in {hb(g)}, x \in {eco(g)} : Coherent(h, x) /\ Irreflexive(Plus(psc(g, h, x)))

(******************************* Executions ********************************)

StoresTo(g, l) == {InitEvent} \cup ToSet(g.co[l])
LoadFrom(g, l, w) == [Record(g, l) EXCEPT !.lab[l.pos].rf = w]
LoadAny(g, l) == {LoadFrom(g, l, w) : w \in StoresTo(g, l.ins.loc)}
StoreAny(g, l) == {addCo(Record(g, l), l.pos, w) : w \in StoresTo(g, l.ins.loc)}
StoreOfRMW(g, r) == IF Succeeds(g, r) THEN StoreAny(g, RMWWriteLabel(g, r)) ELSE {g}
CandidateStep(g, t) ==
    LET op == NextIns(g, t).op
        step(typ, val) == NextLabel(g, t, typ, val)
    IN CASE op = "R" -> LoadAny(g, step("R", 0))
         [] op \in {"W", "COPY"} -> StoreAny(g, step("W", WriteValue(g, t, NextIns(g, t))))
         [] op \in {"FAI", "CAS"} -> UNION {StoreOfRMW(h, NextPos(g, t)) : h \in LoadAny(g, step("R", 0))}
         [] op = "JOIN" -> {Record(g, step("TJ", Child(g, t))) : f \in Finish(g, Child(g, t))}
         [] op = "ASSUME" -> {}
         [] OTHER -> {LocalStep(g, t)}
ConsistentGraphs(Consistent(_)) ==
    LET Step(g) == {h \in UNION {CandidateStep(g, t) : t \in Movers(g)} : Consistent(h)}
    IN Reachable(NothingYet, Step)
Executions(Consistent(_)) == {Behaviour(g) : g \in {h \in ConsistentGraphs(Consistent) : Complete(h)}}

(********************************* Errors **********************************)

(* Two accesses of a location, one of them a write and one non-atomic, that *)
(* happens-before h does not order.                                         *)
Racy(g, h) ==
    \E d, e \in Reads(g) \cup Writes(g) :
        /\ d # e /\ Loc(g, d) = Loc(g, e)
        /\ g.lab[d].typ = "W" /\ (isNotAtomic(g.lab[d]) \/ isNotAtomic(g.lab[e]))
        /\ d \notin h[e] /\ e \notin h[d]

(* A hazard pointer of its own thread protects an access. *)
Protected(g, e) == \E p \in po_preds(g, e) : g.lab[p].typ = "HP" /\ g.lab[p].ins.val = Loc(g, e)

(* Memory that is used when it is not certain to be allocated, or not       *)
(* certain not to be free; that is freed twice, or read uninitialized.      *)
Misused(g, h) ==
    \E l \in DynLocs :
        LET at(types) == {e \in OfType(g, types) : Loc(g, e) = l}
            uses == at({"R", "W", "D", "RET"})
        IN \/ \E e \in uses : \A m \in at({"M"}) : e \notin h[m]
           \/ \E e \in at({"R"}) : g.lab[e].rf = InitEvent
           \/ \E d, e \in at({"D", "RET"}) : d # e
           \/ \E d \in at({"D"}), e \in uses : d # e /\ d \notin h[e]
           \/ \E d \in at({"RET"}), e \in at({"R", "W"}) : d \notin h[e] /\ ~Protected(g, e)
HasError(Consistent(_)) ==
    \E g \in ConsistentGraphs(Consistent) : \E h \in {hb(g)} : Racy(g, h) \/ Misused(g, h)

(******************************* Properties ********************************)

(* The happens-before view that a label carries, computed once from the     *)
(* views of earlier labels when it was added and again when its store was   *)
(* changed, is at any time what happens before it in the graph as it is     *)
(* now, after the cuts and copies that have been made.  The view for a      *)
(* linearizability specification, if there is one, is the same, as no locks *)
(* are taken.                                                               *)
HbViewsExact ==
    Running => \E g \in {Top.graph} : \E h \in {hb(g)} :
        \A e \in Events(g) \ {InitEvent} :
            /\ HbView(g, e) = {d \in Events(g) : d[2] > 0 /\ (d = e \/ e \in h[d])}
            /\ g.lab[e].views[3] \in {{}, HbView(g, e)}
=============================================================================
