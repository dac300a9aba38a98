----------------------------- MODULE RC11Checker -----------------------------
(***************************************************************************)
(* The consistency checker for RC11, the repaired C/C++11 model            *)
(* (genmc/Execution/Consistency/RC11Checker.cpp): coherence with respect   *)
(* to happens-before and, among the SC accesses and SC fences, no cycle in *)
(* the partial SC order psc.                                               *)
(***************************************************************************)
EXTENDS ConsistencyChecker

(********************************** Views **********************************)

(* Everything before an event in program order, reads-from, thread creation *)
(* and join (view 0); happens-before, where an acquire read or fence        *)
(* synchronizes with the release write or fence at the head of the RMWs     *)
(* that it reads from (view 1); the same without the lock acquisitions      *)
(* (view 2).                                                                *)
visitCalc72_2(g, e) ==
    To({1}, SbPreds(g, e) \cup g.rf_pred[e])
visitCalc72(g, q, e) == IF q = 2 THEN visitCalc72_2(g, e) ELSE {}
checkCalc72(g, e) ==
    LET r == Relations(g) IN ViewOf(g, e, 1, Visited(LAMBDA q, d : visitCalc72(r, q, d), {<<2, e>>}))
visitCalc78_2(g, e) ==
    To({1}, SbPreds(g, e))
      \cup When(e \in g.Acq,
                    To({3}, g.rf_pred[e])
               \cup To({5}, g.rf_pred[e] \cap g.RMW \cap g.W)
               \cup To({1}, g.rf_pred[e] \cap g.Rel))
      \cup When(e \in g.Acq \cap (g.F \cup g.TJ), To({6}, g.po_imm_pred[e]))
visitCalc78_3(g, e) ==
    To({3}, g.po_imm_pred[e])
      \cup To({1}, g.po_imm_pred[e] \cap g.Rel \cap (g.F \cup g.TC))
visitCalc78_4(g, e) ==
    To({3}, g.rf_pred[e])
      \cup To({5}, g.rf_pred[e] \cap g.RMW \cap g.W)
      \cup To({1}, g.rf_pred[e] \cap g.Rel)
visitCalc78_5(g, e) ==
    To({4}, g.po_imm_pred[e] \cap g.RMW \cap g.R)
visitCalc78_6(g, e) ==
    To({3}, g.rf_pred[e])
      \cup To({5}, g.rf_pred[e] \cap g.RMW \cap g.W)
      \cup To({1}, g.rf_pred[e] \cap g.Rel)
      \cup To({6}, g.po_imm_pred[e])
visitCalc78(g, q, e) ==
    CASE q = 2 -> visitCalc78_2(g, e) [] q = 3 -> visitCalc78_3(g, e)
      [] q = 4 -> visitCalc78_4(g, e) [] q = 5 -> visitCalc78_5(g, e)
      [] q = 6 -> visitCalc78_6(g, e) [] OTHER -> {}
checkCalc78(g, e) ==
    LET r == Relations(g) IN ViewOf(g, e, 2, Visited(LAMBDA q, d : visitCalc78(r, q, d), {<<2, e>>}))
visitCalc79_2(g, e) ==
    To({1}, SbPreds(g, e))
      \cup When(e \in g.Acq \ g.Lock,
                    To({5}, g.rf_pred[e] \cap g.RMW \cap g.W)
               \cup To({3}, g.rf_pred[e])
               \cup To({1}, g.rf_pred[e] \cap g.Rel))
      \cup When(e \in (g.Acq \cap (g.F \cup g.TJ \cup g.TS)) \ g.Lock, To({6}, g.po_imm_pred[e]))
visitCalc79_3(g, e) ==
    To({3}, g.po_imm_pred[e])
      \cup To({1}, g.po_imm_pred[e] \cap g.Rel \cap (g.F \cup g.TC))
visitCalc79_4(g, e) ==
    To({5}, g.rf_pred[e] \cap g.RMW \cap g.W)
      \cup To({3}, g.rf_pred[e])
      \cup To({1}, g.rf_pred[e] \cap g.Rel)
visitCalc79_5(g, e) ==
    To({4}, g.po_imm_pred[e] \cap g.RMW \cap g.R)
visitCalc79_6(g, e) ==
    To({5}, g.rf_pred[e] \cap g.RMW \cap g.W)
      \cup To({3}, g.rf_pred[e])
      \cup To({1}, g.rf_pred[e] \cap g.Rel)
      \cup To({6}, g.po_imm_pred[e])
visitCalc79(g, q, e) ==
    CASE q = 2 -> visitCalc79_2(g, e) [] q = 3 -> visitCalc79_3(g, e)
      [] q = 4 -> visitCalc79_4(g, e) [] q = 5 -> visitCalc79_5(g, e)
      [] q = 6 -> visitCalc79_6(g, e) [] OTHER -> {}
checkCalc79(g, e) ==
    LET r == Relations(g) IN ViewOf(g, e, 3, Visited(LAMBDA q, d : visitCalc79(r, q, d), {<<2, e>>}))
calculateViews(g, e) ==
    <<checkCalc72(g, e), checkCalc78(g, e), IF LinSpec THEN checkCalc79(g, e) ELSE {}>>
getHbView(g, e) == g.lab[e].views[2]

calculatePrefixView(g, e) == PrefixOf(g, e)

(******************************** Coherence ********************************)

getCoherentStores(g, r) == CoherentStores(g, r, 2, FALSE)
getCoherentPlacings(g, w) == CoherentPlacings(g, w, 2, FALSE)
filterCoherentRevisits(g, s, loads) == CoherentRevisits(g, s, loads, 2, FALSE)

(******************************* Consistency *******************************)

(* State 19 is at an SC event, a path from there to there a step of psc.    *)
(* Between two SC events: po;hb;po (0 to 5).  From an SC fence, along hb    *)
(* (6 to 10).  To an SC fence, along hb (11 and 14 to 17), after po (12),   *)
(* after co or from-reads (13), between two fences after eco (18).  Along   *)
(* hb there are states below a release fence (2, 7, 14), at a read that may *)
(* synchronize (3, 8, 15), in an RMW (4, 9, 16) and above an acquire fence  *)
(* (5, 10, 17).                                                             *)
(* Fault: linearization edges are left out. *)
visitNoLin_0(g, e) ==
    To({1}, g.tc_succ[e] \cup g.tj_succ[e] \cup g.po_imm_succ[e])
      \cup When(e \in g.Rel \cap (g.F \cup g.TC), To({2}, g.po_imm_succ[e]))
      \cup When(e \in g.Rel, To({3}, g.rf_succs[e]))
visitConsAcyclic1_0(g, e) ==
    To({1}, SbSuccs(g, e))
      \cup When(e \in g.Rel \cap (g.F \cup g.TC), To({2}, g.po_imm_succ[e]))
      \cup When(e \in g.Rel, To({3}, g.rf_succs[e]))
visitConsAcyclic1_1(g, e) ==
    To({1}, SbSuccs(g, e))
      \cup To({19}, g.po_imm_succ[e] \cap g.SC)
      \cup When(e \in g.Rel \cap (g.F \cup g.TC), To({2}, g.po_imm_succ[e]))
      \cup When(e \in g.Rel, To({3}, g.rf_succs[e]))
visitConsAcyclic1_2(g, e) ==
    To({2}, g.po_imm_succ[e])
      \cup To({3}, g.rf_succs[e])
visitConsAcyclic1_3(g, e) ==
    To({5}, g.po_imm_succ[e])
      \cup When(e \in g.RMW \cap g.R, To({4}, g.po_imm_succ[e]))
      \cup When(e \in g.Acq,
                    To({1}, g.lin_succs[e] \cup g.po_imm_succ[e])
               \cup To({19}, g.po_imm_succ[e] \cap g.SC))
      \cup When(e \in g.Acq \cap g.Rel \cap g.F, To({2}, g.po_imm_succ[e]))
      \cup When(e \in g.Acq \cap g.Rel, To({3}, g.rf_succs[e]))
visitConsAcyclic1_4(g, e) ==
    When(e \in g.RMW \cap g.W, To({3}, g.rf_succs[e]))
visitConsAcyclic1_5(g, e) ==
    To({5}, g.po_imm_succ[e])
      \cup When(e \in g.Acq \cap (g.F \cup g.TJ),
                    To({1}, g.po_imm_succ[e])
               \cup To({19}, g.po_imm_succ[e] \cap g.SC))
      \cup When(e \in g.Acq \cap g.Rel \cap g.F, To({2}, g.po_imm_succ[e]))
visitConsAcyclic1_6(g, e) ==
    To({6, 12}, g.po_imm_succ[e])
      \cup To({19}, (EcoSuccs(g, e) \cup g.po_imm_succ[e]) \cap g.SC)
      \cup To({6}, g.tc_succ[e] \cup g.tj_succ[e] \cup g.lin_succs[e])
      \cup To({13, 18}, g.co_imm_succ[e] \cup g.fr_imm_succ[e])
      \cup To({18}, g.rf_succs[e])
      \cup When(e \in g.Rel \cap (g.F \cup g.TC), To({7}, g.po_imm_succ[e]))
      \cup When(e \in g.Rel, To({8}, g.rf_succs[e]))
visitConsAcyclic1_7(g, e) ==
    To({7}, g.po_imm_succ[e])
      \cup To({8}, g.rf_succs[e])
visitConsAcyclic1_8(g, e) ==
    To({10}, g.po_imm_succ[e])
      \cup When(e \in g.Acq \cap g.Rel \cap g.F, To({7}, g.po_imm_succ[e]))
      \cup When(e \in g.Acq \cap g.Rel, To({8}, g.rf_succs[e]))
      \cup When(e \in g.Acq,
                    To({6, 12}, g.po_imm_succ[e])
               \cup To({19}, (EcoSuccs(g, e) \cup g.po_imm_succ[e]) \cap g.SC)
               \cup To({6}, g.lin_succs[e])
               \cup To({13, 18}, g.co_imm_succ[e] \cup g.fr_imm_succ[e])
               \cup To({18}, g.rf_succs[e]))
      \cup When(e \in g.RMW \cap g.R, To({9}, g.po_imm_succ[e]))
visitConsAcyclic1_9(g, e) ==
    When(e \in g.RMW \cap g.W, To({8}, g.rf_succs[e]))
visitConsAcyclic1_10(g, e) ==
    To({10}, g.po_imm_succ[e])
      \cup When(e \in g.Acq \cap g.Rel \cap g.F, To({7}, g.po_imm_succ[e]))
      \cup When(e \in g.Acq \cap (g.F \cup g.TJ),
                    To({6, 12}, g.po_imm_succ[e])
               \cup To({19}, g.po_imm_succ[e] \cap g.SC))
visitConsAcyclic1_11(g, e) ==
    To({11}, SbSuccs(g, e))
      \cup To({19}, g.po_imm_succ[e] \cap g.SC \cap g.F)
      \cup When(e \in g.Rel, To({15}, g.rf_succs[e]))
      \cup When(e \in g.Rel \cap (g.F \cup g.TC), To({14}, g.po_imm_succ[e]))
visitConsAcyclic1_12(g, e) ==
    To({11}, g.tc_succ[e] \cup g.tj_succ[e] \cup g.lin_succs[e])
      \cup To({12}, g.po_imm_succ[e])
      \cup To({19}, g.po_imm_succ[e] \cap g.SC)
      \cup To({19}, g.po_imm_succ[e] \cap g.SC \cap g.F)
      \cup When(e \in g.Rel, To({15}, g.rf_succs[e]))
      \cup When(e \in g.Rel \cap (g.F \cup g.TC), To({14}, g.po_imm_succ[e]))
(* Fault: a path may not go on to an SC fence after co or from-reads. *)
visitNoFence_13(g, e) ==
    To({19}, g.co_imm_succ[e] \cap g.SC) \cup To({13}, g.co_imm_succ[e])
visitConsAcyclic1_13(g, e) ==
    To({11}, SbSuccs(g, e))
      \cup To({19}, g.co_imm_succ[e] \cap g.SC)
      \cup To({19}, g.po_imm_succ[e] \cap g.SC \cap g.F)
      \cup To({13}, g.co_imm_succ[e])
      \cup When(e \in g.Rel, To({15}, g.rf_succs[e]))
      \cup When(e \in g.Rel \cap (g.F \cup g.TC), To({14}, g.po_imm_succ[e]))
visitConsAcyclic1_14(g, e) ==
    To({15}, g.rf_succs[e])
      \cup To({14}, g.po_imm_succ[e])
visitConsAcyclic1_15(g, e) ==
    To({17}, g.po_imm_succ[e])
      \cup To({19}, g.po_imm_succ[e] \cap g.SC \cap g.Acq \cap g.F)
      \cup When(e \in g.Acq,
                    To({11}, g.lin_succs[e] \cup g.po_imm_succ[e])
               \cup To({19}, g.po_imm_succ[e] \cap g.SC \cap g.F))
      \cup When(e \in g.RMW \cap g.R, To({16}, g.po_imm_succ[e]))
      \cup When(e \in g.Acq \cap g.Rel, To({15}, g.rf_succs[e]))
      \cup When(e \in g.Acq \cap g.Rel \cap g.F, To({14}, g.po_imm_succ[e]))
visitConsAcyclic1_16(g, e) ==
    When(e \in g.RMW \cap g.W, To({15}, g.rf_succs[e]))
visitConsAcyclic1_17(g, e) ==
    To({17}, g.po_imm_succ[e])
      \cup To({19}, g.po_imm_succ[e] \cap g.SC \cap g.Acq \cap g.F)
      \cup When(e \in g.Acq \cap (g.F \cup g.TJ),
                    To({11}, g.po_imm_succ[e])
               \cup To({19}, g.po_imm_succ[e] \cap g.SC \cap g.F))
      \cup When(e \in g.Acq \cap g.Rel \cap g.F, To({14}, g.po_imm_succ[e]))
visitConsAcyclic1_18(g, e) ==
    To({11}, SbSuccs(g, e))
      \cup To({19}, g.po_imm_succ[e] \cap g.SC \cap g.F)
      \cup To({18}, EcoSuccs(g, e))
      \cup When(e \in g.Rel, To({15}, g.rf_succs[e]))
      \cup When(e \in g.Rel \cap (g.F \cup g.TC), To({14}, g.po_imm_succ[e]))
visitConsAcyclic1_19(g, e) ==
    When(e \in g.SC \cap g.Rel \cap g.F, To({7, 14}, g.po_imm_succ[e]))
      \cup When(e \in g.SC,
                    To({11}, g.rf_succs[e])
               \cup To({0, 12}, g.po_imm_succ[e])
               \cup To({19}, (EcoSuccs(g, e) \cup g.po_imm_succ[e]) \cap g.SC)
               \cup To({13}, g.co_imm_succ[e] \cup g.fr_imm_succ[e]))
      \cup When(e \in g.SC \cap g.F,
                    To({6, 11}, g.po_imm_succ[e])
               \cup To({19}, g.po_imm_succ[e] \cap g.SC \cap g.F))
visitConsAcyclic1(g, q, e) ==
    CASE q = 0 -> visitConsAcyclic1_0(g, e) [] q = 1 -> visitConsAcyclic1_1(g, e)
      [] q = 2 -> visitConsAcyclic1_2(g, e) [] q = 3 -> visitConsAcyclic1_3(g, e)
      [] q = 4 -> visitConsAcyclic1_4(g, e) [] q = 5 -> visitConsAcyclic1_5(g, e)
      [] q = 6 -> visitConsAcyclic1_6(g, e) [] q = 7 -> visitConsAcyclic1_7(g, e)
      [] q = 8 -> visitConsAcyclic1_8(g, e) [] q = 9 -> visitConsAcyclic1_9(g, e)
      [] q = 10 -> visitConsAcyclic1_10(g, e) [] q = 11 -> visitConsAcyclic1_11(g, e)
      [] q = 12 -> visitConsAcyclic1_12(g, e) [] q = 13 -> visitConsAcyclic1_13(g, e)
      [] q = 14 -> visitConsAcyclic1_14(g, e) [] q = 15 -> visitConsAcyclic1_15(g, e)
      [] q = 16 -> visitConsAcyclic1_16(g, e) [] q = 17 -> visitConsAcyclic1_17(g, e)
      [] q = 18 -> visitConsAcyclic1_18(g, e) [] q = 19 -> visitConsAcyclic1_19(g, e)
      [] OTHER -> {}

(* No cycle is met from e, wherever e may be on it.  Nothing is looked for  *)
(* if e is the only SC event.                                               *)
Starts == {0, 1, 3, 6, 8, 11, 12, 13, 15, 18, 19}
visitConsAcyclic1At(g, e) ==
    LET r == Tabulated(g) IN isAcyclic(Searched(LAMBDA q, d : visitConsAcyclic1(r, q, d), Starts \X {e}))
visitUnlessConsAcyclic1(g, e) == \A d \in Events(g) \ {e} : ~isSC(g.lab[d])
checkConsAcyclic1(g, e) == visitUnlessConsAcyclic1(g, e) \/ visitConsAcyclic1At(g, e)
visitConsAcyclic1Full(g) ==
    LET r == Tabulated(g) IN isAcyclic(Searched(LAMBDA q, d : visitConsAcyclic1(r, q, d), {19} \X Events(g)))
isConsistent(g, e) == checkConsAcyclic1(g, e)
isGraphConsistent(g) == visitConsAcyclic1Full(g)

(* With the linearization edges of a specification: a method begin that is  *)
(* hb-after the end of another one does not come before it in hb;eco;hb.    *)
(* The states 2 to 6 and 8 to 12 walk back along happens-before: below a    *)
(* release fence (3, 9), at a read that may synchronize (4, 10), in an RMW  *)
(* (5, 11), above an acquire fence (6, 12); state 7 walks along eco.        *)
visitCoherence_1(g, e) ==
    To({10}, g.lin_preds[e] \cap g.Acq)
      \cup To({8}, g.lin_preds[e])
visitCoherence_2(g, e) ==
    To({6}, g.po_imm_pred[e] \cap g.Acq \cap (g.F \cup g.TJ))
      \cup To({0, 2}, SbPreds(g, e))
      \cup To({4}, (g.lin_preds[e] \cup g.po_imm_pred[e]) \cap g.Acq)
visitCoherence_3(g, e) ==
    To({4, 6}, g.po_imm_pred[e] \cap g.Acq \cap g.Rel \cap g.F)
      \cup To({0, 2}, g.po_imm_pred[e] \cap g.Rel \cap (g.F \cup g.TC))
      \cup To({3}, g.po_imm_pred[e])
visitCoherence_4(g, e) ==
    To({0, 2}, g.rf_pred[e] \cap g.Rel)
      \cup To({5}, g.rf_pred[e] \cap g.RMW \cap g.W)
      \cup To({3}, g.rf_pred[e])
      \cup To({4}, g.rf_pred[e] \cap g.Acq \cap g.Rel)
visitCoherence_5(g, e) ==
    To({4}, g.po_imm_pred[e] \cap g.RMW \cap g.R)
visitCoherence_6(g, e) ==
    To({4, 6}, g.po_imm_pred[e])
visitCoherence_7(g, e) ==
    To({2, 7}, EcoPreds(g, e))
      \cup To({4}, EcoPreds(g, e) \cap g.Acq)
visitCoherence_8(g, e) ==
    To({10}, (g.lin_preds[e] \cup g.po_imm_pred[e]) \cap g.Acq)
      \cup To({12}, g.po_imm_pred[e] \cap g.Acq \cap (g.F \cup g.TJ))
      \cup To({7, 8}, SbPreds(g, e))
visitCoherence_9(g, e) ==
    To({9}, g.po_imm_pred[e])
      \cup To({10, 12}, g.po_imm_pred[e] \cap g.Acq \cap g.Rel \cap g.F)
      \cup To({7, 8}, g.po_imm_pred[e] \cap g.Rel \cap (g.F \cup g.TC))
visitCoherence_10(g, e) ==
    To({9}, g.rf_pred[e])
      \cup To({10}, g.rf_pred[e] \cap g.Acq \cap g.Rel)
      \cup To({7, 8}, g.rf_pred[e] \cap g.Rel)
      \cup To({11}, g.rf_pred[e] \cap g.RMW \cap g.W)
visitCoherence_11(g, e) ==
    To({10}, g.po_imm_pred[e] \cap g.RMW \cap g.R)
visitCoherence_12(g, e) ==
    To({10, 12}, g.po_imm_pred[e])
visitCoherence(g, q, e) ==
    CASE q = 1 -> visitCoherence_1(g, e) [] q = 2 -> visitCoherence_2(g, e)
      [] q = 3 -> visitCoherence_3(g, e) [] q = 4 -> visitCoherence_4(g, e)
      [] q = 5 -> visitCoherence_5(g, e) [] q = 6 -> visitCoherence_6(g, e)
      [] q = 7 -> visitCoherence_7(g, e) [] q = 8 -> visitCoherence_8(g, e)
      [] q = 9 -> visitCoherence_9(g, e) [] q = 10 -> visitCoherence_10(g, e)
      [] q = 11 -> visitCoherence_11(g, e) [] q = 12 -> visitCoherence_12(g, e) [] OTHER -> {}
visitCoherenceRelinche(g) ==
    LET r == Tabulated(g)
    IN \A b \in r.MB : <<0, b>> \notin Visited(LAMBDA q, d : visitCoherence(r, q, d), {<<1, b>>})
isCoherentRelinche(g) == visitCoherenceRelinche(g)

(***************************** Errors, warnings ****************************)

checkError2(g, st, e) == ~AllocUnknown(g, st, e, 2)
checkError3(g, st, e) == ~FreedTwice(g, st, e)
checkError4(g, st, e) == ~AccessedWhenFreed(g, st, e, 2)
checkError5(g, st, e) == ~AccessOfFreed(g, st, e)
checkError6(g, st, e) == ~UnprotectedWhenRetired(g, st, e, 2)
checkError7(g, st, e) == ~AccessOfRetired(g, st, e)
checkError8(g, st, e) == ~Races(g, st, e, 2)
checkErrors(g, st, e) ==
    FirstError(<< <<checkError2(g, st, e), "AccessNonMalloc">>, <<checkError3(g, st, e), "DoubleFree">>,
                  <<checkError4(g, st, e), "AccessFreed">>, <<checkError5(g, st, e), "AccessFreed">>,
                  <<checkError6(g, st, e), "AccessFreed">>, <<checkError7(g, st, e), "AccessFreed">>,
                  <<checkError8(g, st, e), "RaceNotAtomic">> >>)
checkWarning9(g, st, e) == ~UnorderedWrites(g, st, e, 1)
checkWarnings(g, st, e, seen) == IF seen \/ checkWarning9(g, st, e) THEN {} ELSE {"WWRace"}
=============================================================================
