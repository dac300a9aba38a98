------------------------------ MODULE Coherence ------------------------------
(***************************************************************************)
(* Coherence (genmc/Execution/Consistency), which is written by hand and   *)
(* the same in the checkers of all memory models up to the view that holds *)
(* happens-before (hb) and to whether the graph may grow out of program    *)
(* order (dep, isDepTracking()).  The prefix of an event is the same in    *)
(* all models that do not track dependencies.                              *)
(***************************************************************************)
EXTENDS ExecutionState

(* The prefix of an event, from the prefixes of the events it depends on. *)
PrefixOf(g, e) ==
    UpTo(e) \cup UNION {g.lab[d].prefix : d \in po_imm_pred(g, e) \cup rf_pred(g, e) \cup tc_pred(g, e)
                                               \cup tj_pred(g, e)}

(* w, or a read that reads from it, is in the view before. *)
isWriteRfBefore(g, w, before) == w \in before \/ readers(g, w, Loc(g, w)) \cap before # {}

(* e is hb-before w or before a read that reads from it. *)
isHbOptRfBefore(g, e, w, hb) ==
    \E d \in {w} \cup readers(g, w, Loc(g, w)) : InView(g.lab[d].views[hb], e)

(* How many of loc's stores, in coherence order, end with the last one that *)
(* is (rf?;hb)-before e.                                                    *)
splitLocMOBefore(g, loc, e, hb) ==
    Max({0} \cup {i \in DOMAIN g.co[loc] : isWriteRfBefore(g, g.co[loc][i], g.lab[e].views[hb])})

(* How many come before the first one that an out-of-order read, or write,  *)
(* is (hb;rf^-1?)-before.                                                   *)
splitLocMOAfterHb(g, r, hb) ==
    LET stores == g.co[Loc(g, r)]
        first == Min({Len(stores) + 1} \cup {i \in DOMAIN stores : isHbOptRfBefore(g, r, stores[i], hb)})
    IN IF \E q \in readers(g, InitEvent, Loc(g, r)) : r \in g.lab[q].views[hb] THEN 0
       ELSE IF first > Len(stores) \/ r \in g.lab[stores[first]].views[hb] THEN first - 1
       ELSE first
splitLocMOAfter(g, w, hb) ==
    LET stores == g.co[Loc(g, w)]
    IN Min({Len(stores) + 1} \cup {i \in DOMAIN stores : isHbOptRfBefore(g, w, stores[i], hb)}) - 1

(* The stores a read may read from, in coherence order: the last one it has *)
(* to know about and all the later ones.                                    *)
(* Fault: the last one it has to know about is forgotten. *)
StoresAfter(stores, n, m) == SubSeq(stores, n + 1, m)
StoresFrom(stores, n, m) ==
    <<IF n = 0 THEN InitEvent ELSE stores[n]>> \o SubSeq(stores, n + 1, m)
CoherentStores(g, r, hb, dep) ==
    LET loc == Loc(g, r)
        max == co_max(g, loc)
    IN IF max[1] = r[1] /\ max[2] < r[2] THEN <<max>>
       ELSE StoresFrom(g.co[loc], splitLocMOBefore(g, loc, r, hb),
                       IF dep THEN splitLocMOAfterHb(g, r, hb) ELSE Len(g.co[loc]))

(* The coherence predecessors a write may have; the last one is the store   *)
(* that is coherence-maximal so far.  An RMW's write follows the store its  *)
(* read reads from, and nothing may be put right before another RMW.        *)
RightBefore(g, stores) == [i \in DOMAIN stores |-> CoBefore(g, stores[i])]
CoherentPlacings(g, w, hb, dep) ==
    LET stores == g.co[Loc(g, w)]
        end == IF dep THEN splitLocMOAfter(g, w, hb) ELSE Len(stores)
        range == SubSeq(stores, splitLocMOBefore(g, Loc(g, w), w, hb) + 1, end)
    IN IF IsRMWWrite(g, w) THEN <<g.lab[<<w[1], w[2] - 1>>].rf>>
       ELSE RightBefore(g, Kept(range, {s \in ToSet(range) : ~IsRMWWrite(g, s)}))
              \o <<IF end = 0 THEN InitEvent ELSE stores[end]>>

(* The stores coherence-after s, or before it, and the reads that read from *)
(* them.                                                                    *)
WithReaders(g, ws, loc) == UNION {{w} \cup readers(g, w, loc) : w \in ws}
getMOOptRfAfter(g, s) == WithReaders(g, ToSet(co_succs(g, s, Loc(g, s))), Loc(g, s))
getMOInvOptRfAfter(g, s) ==
    WithReaders(g, ToSet(SubSeq(g.co[Loc(g, s)], 1, CoIndex(g, s, Loc(g, s)) - 1)), Loc(g, s))
      \cup readers(g, InitEvent, Loc(g, s))

(* A read that already knows of a store coherence-after s cannot read s.    *)
(* Out of order, neither can a read that s knows of, nor one that an event  *)
(* that stays and is coherence-before s knows of.                           *)
CoherentRevisits(g, s, loads, hb, dep) ==
    LET HbBefore(e) == UNION {g.lab[p].views[hb] : p \in po_imm_pred(g, e)}
        stays(r, e) == InView(getViewFromStamp(g, Stamp(g, r)) \cup g.lab[s].prefix, e)
    IN IF ~dep /\ s = co_max(g, Loc(g, s)) THEN loads
       ELSE {r \in loads :
               /\ HbBefore(r) \cap getMOOptRfAfter(g, s) = {}
               /\ dep => /\ r \notin g.lab[s].views[hb]
                         /\ \A e \in getMOInvOptRfAfter(g, s) : ~(stays(r, e) /\ r \in HbBefore(e))}
=============================================================================
