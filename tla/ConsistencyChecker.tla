------------------------- MODULE ConsistencyChecker -------------------------
(***************************************************************************)
(* What the consistency checkers of the five memory models have in common  *)
(* (genmc/Execution/Consistency): the searches their visitors make and     *)
(* what they look at for errors.                                           *)
(*                                                                         *)
(* The visitors are automata that run over the graph: visitX_q at an event *)
(* e follows relations and calls visitX_p at the events it finds there.    *)
(* Each visitor is an operator visitX_q(g, e): the set of the <<p, event>> *)
(* that it calls.  Its g is a record with the relations of a graph.        *)
(***************************************************************************)
EXTENDS Coherence

CONSTANT LinSpec  \* a linearizability specification is collected or checked

(* The relations of a graph as functions of the event, and the classes of   *)
(* events that visitors tell apart.                                         *)
Relations(g) ==
    LET E == Events(g)
        Class(P(_)) == {e \in E : P(g.lab[e])}
    IN [po_imm_pred |-> [e \in E |-> po_imm_pred(g, e)],
        po_imm_succ |-> [e \in E |-> po_imm_succ(g, e)],
        poloc_imm_pred |-> [e \in E |-> poloc_imm_pred(g, e)],
        tc_pred |-> [e \in E |-> tc_pred(g, e)], tc_succ |-> [e \in E |-> tc_succ(g, e)],
        tj_pred |-> [e \in E |-> tj_pred(g, e)], tj_succ |-> [e \in E |-> tj_succ(g, e)],
        lin_preds |-> [e \in E |-> lin_preds(g, e)], lin_succs |-> [e \in E |-> lin_succs(g, e)],
        rf_pred |-> [e \in E |-> rf_pred(g, e)], rf_succs |-> [e \in E |-> rf_succs(g, e)],
        rfe_pred |-> [e \in E |-> rfe_pred(g, e)], rfe_succs |-> [e \in E |-> rfe_succs(g, e)],
        rfi_pred |-> [e \in E |-> rfi_pred(g, e)],
        co_imm_pred |-> [e \in E |-> co_imm_pred(g, e)],
        co_imm_succ |-> [e \in E |-> co_imm_succ(g, e)],
        fr_imm_preds |-> [e \in E |-> fr_imm_preds(g, e)],
        fr_imm_succ |-> [e \in E |-> fr_imm_succ(g, e)],
        detour_preds |-> [e \in E |-> detour_preds(g, e)],
        addr_preds |-> [e \in E |-> g.lab[e].deps.addr],
        data_preds |-> [e \in E |-> g.lab[e].deps.data],
        ctrl_preds |-> [e \in E |-> g.lab[e].deps.ctrl],
        events |-> E, R |-> Reads(g), W |-> Writes(g), F |-> OfType(g, {"F"}),
        TC |-> OfType(g, {"TC"}), TF |-> OfType(g, {"TF"}), TS |-> OfType(g, {"TS"}),
        TJ |-> OfType(g, {"TJ"}), MB |-> OfType(g, {"MB"}),
        Lock |-> {e \in E : IsLockRead(g, e)},
        RMW |-> {e \in E : IsRMWRead(g, e) \/ IsRMWWrite(g, e)},
        Acq |-> Class(isAtLeastAcquire), Rel |-> Class(isAtLeastRelease),
        SC |-> Class(isSC), NA |-> Class(isNotAtomic), Dep |-> Class(isDependable)]

(* Evaluated once, however often the relations are used. *)
Tabulated(g) == CHOOSE r \in {Relations(g)} : TRUE

SbPreds(g, e) == g.tc_pred[e] \cup g.tj_pred[e] \cup g.lin_preds[e] \cup g.po_imm_pred[e]
SbSuccs(g, e) == g.tc_succ[e] \cup g.tj_succ[e] \cup g.lin_succs[e] \cup g.po_imm_succ[e]
EcoPreds(g, e) == g.rf_pred[e] \cup g.co_imm_pred[e] \cup g.fr_imm_preds[e]
EcoSuccs(g, e) == g.rf_succs[e] \cup g.co_imm_succ[e] \cup g.fr_imm_succ[e]

(* The calls of visitor p, for each p in states, at each of some events.    *)
To(states, events) == states \X events
When(cond, calls) == IF cond THEN calls ELSE {}

(* Everything a search visits that begins with some calls and, after a call *)
(* q at e, makes the calls Visit(q, e).                                     *)
RECURSIVE Search(_, _, _)
Search(Visit(_, _), seen, calls) ==
    IF calls \subseteq seen THEN seen
    ELSE Search(Visit, seen \cup calls, UNION {Visit(c[1], c[2]) : c \in calls \ seen})
Visited(Visit(_, _), calls) == Search(Visit, {}, calls)

(* A depth-first search for a cycle fails exactly if what it visits has     *)
(* one: taking away what has no successor left does not end with nothing.   *)
RECURSIVE Trim(_, _)
Trim(succs, nodes) ==
    LET rest == {n \in nodes : succs[n] \cap nodes # {}}
    IN IF rest = nodes THEN nodes ELSE Trim(succs, rest)
Searched(Visit(_, _), calls) ==
    CHOOSE f \in {[n \in Visited(Visit, calls) |-> Visit(n[1], n[2])]} : TRUE
isAcyclic(succs) == Trim(succs, DOMAIN succs) = {}

(* The view that a calculator builds: of each event that it calls visitor 1 *)
(* at, the event and its view i.                                            *)
ViewOf(g, e, i, called) ==
    UpTo(e) \cup UNION {UpTo(c[2]) \cup g.lab[c[2]].views[i] : c \in {d \in called : d[1] = 1}}

(***************************** Errors, warnings ****************************)

(* Errors compare an access with the last ones that the state knows of:     *)
(* those that the view i of e does not contain are unordered with e.        *)
Unordered(g, e, i, events) == \E d \in events : ~InView(g.lab[e].views[i], d)
IsDynamic(g, e) == g.lab[e].typ \in {"R", "W", "M", "D", "RET"} /\ Loc(g, e) \in DynLocs

(* The closest earlier event of the thread that protects the allocation is  *)
(* there, and its hazard pointer was not used for another one since.        *)
isHazptrProtected(g, e) ==
    LET protects == {d \in po_preds(g, e) : g.lab[d].typ = "HP"}
    IN \E p \in protects : /\ g.lab[p].ins.val = Loc(g, e)
                           /\ \A q \in protects : q[2] > p[2] => /\ g.lab[q].ins.val # Loc(g, e)
                                                                /\ Loc(g, q) # Loc(g, p)

AllocUnknown(g, st, e, hb) == IsDynamic(g, e) /\ Unordered(g, e, hb, {st.alloc[Loc(g, e)].pos})
FreedTwice(g, st, e) == g.lab[e].typ \in {"D", "RET"} /\ free(st, Loc(g, e))
AccessedWhenFreed(g, st, e, hb) ==
    /\ g.lab[e].typ = "D"
    /\ LET l == Loc(g, e) IN Unordered(g, e, hb, st.naR[l] \cup st.naW[l] \cup st.atR[l] \cup st.atW[l])
AccessOfFreed(g, st, e) == IsAccess(g, e) /\ free(st, Loc(g, e))
UnprotectedWhenRetired(g, st, e, hb) ==
    g.lab[e].typ = "RET" /\ Unordered(g, e, hb, st.unprot[Loc(g, e)])
AccessOfRetired(g, st, e) ==
    IsAccess(g, e) /\ IsDynamic(g, e) /\ ~isHazptrProtected(g, e) /\ isRetired(st, Loc(g, e))
(* Two accesses race if one of them is a write and one is non-atomic. *)
Conflicting(g, st, e) ==
    LET l == Loc(g, e)
        na == isNotAtomic(g.lab[e])
    IN CASE g.lab[e].typ = "W" -> st.naR[l] \cup st.naW[l] \cup (IF na THEN st.atR[l] \cup st.atW[l] ELSE {})
         [] g.lab[e].typ = "R" -> st.naW[l] \cup (IF na THEN st.atW[l] ELSE {})
         [] OTHER -> {}
Races(g, st, e, hb) == Unordered(g, e, hb, Conflicting(g, st, e))
UnorderedWrites(g, st, e, i) ==
    g.lab[e].typ = "W" /\ ~isNotAtomic(g.lab[e]) /\ Unordered(g, e, i, st.atW[Loc(g, e)])
=============================================================================
