----------------------------- MODULE IMMChecker -----------------------------
(***************************************************************************)
(* The consistency checker for IMM, the intermediate memory model          *)
(* (genmc/Execution/Consistency/IMMChecker.cpp).  It tracks dependencies:  *)
(* the prefix of an event is not all of program order but what the event   *)
(* depends on, so that a load can read from a later store of a thread that *)
(* this load does not affect.  Besides coherence and the partial SC order  *)
(* psc of RC11, the order ar of dependencies, barriers and external reads  *)
(* has no cycle.                                                           *)
(***************************************************************************)
EXTENDS ConsistencyChecker

(********************************** Views **********************************)

(* Happens-before (view 0), the same without the lock acquisitions (view    *)
(* 1), everything before an event in program order, reads-from, thread      *)
(* creation and join (view 2).                                              *)
visitCalc75_2(g, e) ==
    To({1}, SbPreds(g, e))
      \cup When(e \in g.Acq,
                    To({3}, g.rf_pred[e])
               \cup To({1}, g.rf_pred[e] \cap g.Rel)
               \cup To({5}, g.rf_pred[e] \cap g.RMW \cap g.W))
      \cup When(e \in g.Acq \cap (g.F \cup g.TJ), To({6}, g.po_imm_pred[e]))
visitCalc75_3(g, e) ==
    To({3}, g.po_imm_pred[e])
      \cup To({1}, g.po_imm_pred[e] \cap g.Rel \cap (g.F \cup g.TC))
visitCalc75_4(g, e) ==
    To({3}, g.rf_pred[e])
      \cup To({1}, g.rf_pred[e] \cap g.Rel)
      \cup To({5}, g.rf_pred[e] \cap g.RMW \cap g.W)
visitCalc75_5(g, e) ==
    To({4}, g.po_imm_pred[e] \cap g.RMW \cap g.R)
visitCalc75_6(g, e) ==
    To({3}, g.rf_pred[e])
      \cup To({1}, g.rf_pred[e] \cap g.Rel)
      \cup To({5}, g.rf_pred[e] \cap g.RMW \cap g.W)
      \cup To({6}, g.po_imm_pred[e])
visitCalc75(g, q, e) ==
    CASE q = 2 -> visitCalc75_2(g, e) [] q = 3 -> visitCalc75_3(g, e)
      [] q = 4 -> visitCalc75_4(g, e) [] q = 5 -> visitCalc75_5(g, e)
      [] q = 6 -> visitCalc75_6(g, e) [] OTHER -> {}
checkCalc75(g, e) ==
    LET r == Relations(g) IN ViewOf(g, e, 1, Visited(LAMBDA q, d : visitCalc75(r, q, d), {<<2, e>>}))
visitCalc76_2(g, e) ==
    To({1}, SbPreds(g, e))
      \cup When(e \in g.Acq \ g.Lock,
                    To({1}, g.rf_pred[e] \cap g.Rel)
               \cup To({5}, g.rf_pred[e] \cap g.RMW \cap g.W)
               \cup To({3}, g.rf_pred[e]))
      \cup When(e \in (g.Acq \cap (g.F \cup g.TJ \cup g.TS)) \ g.Lock, To({6}, g.po_imm_pred[e]))
visitCalc76_3(g, e) ==
    To({1}, g.po_imm_pred[e] \cap g.Rel \cap (g.F \cup g.TC))
      \cup To({3}, g.po_imm_pred[e])
visitCalc76_4(g, e) ==
    To({1}, g.rf_pred[e] \cap g.Rel)
      \cup To({5}, g.rf_pred[e] \cap g.RMW \cap g.W)
      \cup To({3}, g.rf_pred[e])
visitCalc76_5(g, e) ==
    To({4}, g.po_imm_pred[e] \cap g.RMW \cap g.R)
visitCalc76_6(g, e) ==
    To({1}, g.rf_pred[e] \cap g.Rel)
      \cup To({5}, g.rf_pred[e] \cap g.RMW \cap g.W)
      \cup To({3}, g.rf_pred[e])
      \cup To({6}, g.po_imm_pred[e])
visitCalc76(g, q, e) ==
    CASE q = 2 -> visitCalc76_2(g, e) [] q = 3 -> visitCalc76_3(g, e)
      [] q = 4 -> visitCalc76_4(g, e) [] q = 5 -> visitCalc76_5(g, e)
      [] q = 6 -> visitCalc76_6(g, e) [] OTHER -> {}
checkCalc76(g, e) ==
    LET r == Relations(g) IN ViewOf(g, e, 2, Visited(LAMBDA q, d : visitCalc76(r, q, d), {<<2, e>>}))
visitCalc87_2(g, e) ==
    To({1}, SbPreds(g, e) \cup g.rf_pred[e])
visitCalc87(g, q, e) == IF q = 2 THEN visitCalc87_2(g, e) ELSE {}
checkCalc87(g, e) ==
    LET r == Relations(g) IN ViewOf(g, e, 3, Visited(LAMBDA q, d : visitCalc87(r, q, d), {<<2, e>>}))
calculateViews(g, e) ==
    <<checkCalc75(g, e), IF LinSpec THEN checkCalc76(g, e) ELSE {}, checkCalc87(g, e)>>
getHbView(g, e) == g.lab[e].views[1]

(* What an event depends on (state 0): what a dependency, a read from       *)
(* another thread, a detour or a thread leads to (2), the acquires and      *)
(* fences before it (1) and all before a release or a fence (7), release    *)
(* writes to the same location (3) and, of a write, what its values,        *)
(* addresses and branches come from, through local reads (4 to 6).          *)
visitPPoRf1(g, e) ==
    To({0, 1, 2}, g.po_imm_pred[e] \cap g.Acq)
      \cup To({0, 1, 2}, g.po_imm_pred[e] \cap g.F)
      \cup To({1}, g.po_imm_pred[e])
(* Fault: data dependencies are left out. *)
visitNoData2(g, e) ==
    To({0, 1, 2}, g.tc_pred[e] \cup g.tj_pred[e] \cup g.lin_preds[e] \cup g.rfe_pred[e]
           \cup g.detour_preds[e])
      \cup When(e \in g.Rel \cup g.F, To({1, 2, 7}, g.po_imm_pred[e]))
      \cup When(e \in g.W,
                    To({0, 1, 2}, (g.ctrl_preds[e] \cup g.addr_preds[e]) \cap g.Dep)
               \cup To({3}, g.poloc_imm_pred[e])
               \cup To({4, 6}, g.ctrl_preds[e] \cup g.addr_preds[e])
               \cup To({4}, g.po_imm_pred[e]))
      \cup When(e \in g.RMW \cap g.W, To({0, 1, 2}, g.po_imm_pred[e] \cap g.R))
visitPPoRf2(g, e) ==
    To({0, 1, 2}, g.tc_pred[e] \cup g.tj_pred[e] \cup g.lin_preds[e] \cup g.rfe_pred[e]
           \cup g.detour_preds[e])
      \cup When(e \in g.Rel, To({1, 2, 7}, g.po_imm_pred[e]))
      \cup When(e \in g.F, To({1, 2, 7}, g.po_imm_pred[e]))
      \cup When(e \in g.W,
                    To({0, 1, 2}, (g.ctrl_preds[e] \cup g.addr_preds[e]
                           \cup g.data_preds[e]) \cap g.Dep)
               \cup To({0, 1, 2}, g.poloc_imm_pred[e] \cap g.Rel \cap g.W)
               \cup To({3}, g.poloc_imm_pred[e])
               \cup To({4, 6}, g.ctrl_preds[e] \cup g.addr_preds[e] \cup g.data_preds[e])
               \cup To({4}, g.po_imm_pred[e]))
      \cup When(e \in g.RMW \cap g.W,
                    To({0, 1, 2}, g.po_imm_pred[e] \cap g.RMW \cap g.Dep \cap g.R)
               \cup To({4, 6}, g.po_imm_pred[e] \cap g.RMW \cap g.R))
visitPPoRf3(g, e) ==
    To({0, 1, 2}, g.poloc_imm_pred[e] \cap g.Rel \cap g.W)
      \cup To({3}, g.poloc_imm_pred[e])
visitPPoRf4(g, e) ==
    To({0, 1, 2}, g.addr_preds[e] \cap g.Dep)
      \cup To({4, 6}, g.addr_preds[e])
      \cup To({4}, g.po_imm_pred[e])
visitPPoRf5(g, e) ==
    To({0, 1, 2}, g.po_imm_pred[e] \cap g.RMW \cap g.Dep \cap g.R)
      \cup To({4, 6}, g.po_imm_pred[e] \cap g.RMW \cap g.R)
visitPPoRf6(g, e) ==
    To({0, 1, 2}, (g.ctrl_preds[e] \cup g.data_preds[e]) \cap g.Dep)
      \cup To({4, 6}, g.ctrl_preds[e] \cup g.data_preds[e] \cup g.rfi_pred[e])
      \cup To({5}, g.rfi_pred[e] \cap g.RMW \cap g.W)
visitPPoRf7(g, e) ==
    To({2, 7}, g.po_imm_pred[e])
visitPPoRf(g, q, e) ==
    CASE q = 1 -> visitPPoRf1(g, e) [] q = 2 -> visitPPoRf2(g, e) [] q = 3 -> visitPPoRf3(g, e)
      [] q = 4 -> visitPPoRf4(g, e) [] q = 5 -> visitPPoRf5(g, e) [] q = 6 -> visitPPoRf6(g, e)
      [] q = 7 -> visitPPoRf7(g, e) [] OTHER -> {}
calcPPoRfBefore(g, e) ==
    LET r == Relations(g)
    IN {e} \cup {c[2] : c \in {d \in Visited(LAMBDA q, d : visitPPoRf(r, q, d), {<<1, e>>, <<2, e>>}) : d[1] \in {0, 7}}}
calculatePrefixView(g, e) == {d \in calcPPoRfBefore(g, e) : d[2] > 0}

(******************************** Coherence ********************************)

getCoherentStores(g, r) == CoherentStores(g, r, 1, TRUE)
getCoherentPlacings(g, w) == CoherentPlacings(g, w, 1, TRUE)
filterCoherentRevisits(g, s, loads) == CoherentRevisits(g, s, loads, 1, TRUE)

(******************************* Consistency *******************************)

(* The partial SC order, as in RC11 and here from an event back to the ones *)
(* before it: a step from an SC event (state 19) to another one.            *)
visitConsAcyclic1_0(g, e) ==
    To({19}, g.po_imm_pred[e] \cap g.SC)
visitConsAcyclic1_1(g, e) ==
    To({0, 1}, SbPreds(g, e))
      \cup To({5}, g.po_imm_pred[e] \cap g.Acq \cap (g.F \cup g.TJ))
      \cup To({3}, (g.lin_preds[e] \cup g.po_imm_pred[e]) \cap g.Acq)
visitConsAcyclic1_2(g, e) ==
    To({0, 1}, g.po_imm_pred[e] \cap g.Rel \cap (g.F \cup g.TC))
      \cup To({2}, g.po_imm_pred[e])
      \cup To({3, 5}, g.po_imm_pred[e] \cap g.Acq \cap g.Rel \cap g.F)
visitConsAcyclic1_3(g, e) ==
    To({0, 1}, g.rf_pred[e] \cap g.Rel)
      \cup To({4}, g.rf_pred[e] \cap g.RMW \cap g.W)
      \cup To({2}, g.rf_pred[e])
      \cup To({3}, g.rf_pred[e] \cap g.Acq \cap g.Rel)
visitConsAcyclic1_4(g, e) ==
    To({3}, g.po_imm_pred[e] \cap g.RMW \cap g.R)
visitConsAcyclic1_5(g, e) ==
    To({3, 5}, g.po_imm_pred[e])
visitConsAcyclic1_6(g, e) ==
    To({8}, (g.lin_preds[e] \cup g.po_imm_pred[e]) \cap g.Acq)
      \cup To({10}, g.po_imm_pred[e] \cap g.Acq \cap (g.F \cup g.TJ))
      \cup To({6}, SbPreds(g, e))
      \cup To({19}, g.po_imm_pred[e] \cap g.SC \cap g.F)
visitConsAcyclic1_7(g, e) ==
    To({8, 10}, g.po_imm_pred[e] \cap g.Acq \cap g.Rel \cap g.F)
      \cup To({7}, g.po_imm_pred[e])
      \cup To({6}, g.po_imm_pred[e] \cap g.Rel \cap (g.F \cup g.TC))
      \cup To({19}, g.po_imm_pred[e] \cap g.SC \cap g.Rel \cap g.F)
visitConsAcyclic1_8(g, e) ==
    To({8}, g.rf_pred[e] \cap g.Acq \cap g.Rel)
      \cup To({7}, g.rf_pred[e])
      \cup To({6}, g.rf_pred[e] \cap g.Rel)
      \cup To({9}, g.rf_pred[e] \cap g.RMW \cap g.W)
visitConsAcyclic1_9(g, e) ==
    To({8}, g.po_imm_pred[e] \cap g.RMW \cap g.R)
visitConsAcyclic1_10(g, e) ==
    To({8, 10}, g.po_imm_pred[e])
visitConsAcyclic1_11(g, e) ==
    To({11, 12, 13, 18}, g.tc_pred[e] \cup g.tj_pred[e] \cup g.lin_preds[e])
      \cup To({11, 13, 18}, g.po_imm_pred[e])
      \cup To({19}, g.rf_pred[e] \cap g.SC)
      \cup To({19}, g.po_imm_pred[e] \cap g.SC \cap g.F)
      \cup To({15}, (g.lin_preds[e] \cup g.po_imm_pred[e]) \cap g.Acq)
      \cup To({17}, g.po_imm_pred[e] \cap g.Acq \cap (g.F \cup g.TJ))
visitConsAcyclic1_12(g, e) ==
    To({8}, g.po_imm_pred[e] \cap g.Acq)
      \cup To({6, 12}, g.po_imm_pred[e])
      \cup To({10}, g.po_imm_pred[e] \cap g.Acq \cap (g.F \cup g.TJ))
      \cup To({19}, g.po_imm_pred[e] \cap g.SC)
visitConsAcyclic1_13(g, e) ==
    To({8}, (g.co_imm_pred[e] \cup g.fr_imm_preds[e]) \cap g.Acq)
      \cup To({6, 13}, g.co_imm_pred[e])
      \cup To({6}, g.fr_imm_preds[e])
      \cup To({19}, (g.co_imm_pred[e] \cup g.fr_imm_preds[e]) \cap g.SC)
visitConsAcyclic1_14(g, e) ==
    To({14}, g.po_imm_pred[e])
      \cup To({11, 12, 13, 18}, g.po_imm_pred[e] \cap g.Rel \cap (g.F \cup g.TC))
      \cup To({19}, g.po_imm_pred[e] \cap g.SC \cap g.Rel \cap g.F)
      \cup To({15, 17}, g.po_imm_pred[e] \cap g.Acq \cap g.Rel \cap g.F)
visitConsAcyclic1_15(g, e) ==
    To({14}, g.rf_pred[e])
      \cup To({11, 12, 13, 18}, g.rf_pred[e] \cap g.Rel)
      \cup To({16}, g.rf_pred[e] \cap g.RMW \cap g.W)
      \cup To({15}, g.rf_pred[e] \cap g.Acq \cap g.Rel)
visitConsAcyclic1_16(g, e) ==
    To({15}, g.po_imm_pred[e] \cap g.RMW \cap g.R)
visitConsAcyclic1_17(g, e) ==
    To({15, 17}, g.po_imm_pred[e])
visitConsAcyclic1_18(g, e) ==
    To({8}, EcoPreds(g, e) \cap g.Acq)
      \cup To({6, 18}, EcoPreds(g, e))
visitConsAcyclic1_19(g, e) ==
    When(e \in g.SC,
                    To({1, 6, 12}, g.po_imm_pred[e])
               \cup To({8}, EcoPreds(g, e) \cap g.Acq)
               \cup To({3, 8}, g.po_imm_pred[e] \cap g.Acq)
               \cup To({6, 13}, g.co_imm_pred[e])
               \cup To({5, 10}, g.po_imm_pred[e] \cap g.Acq \cap (g.F \cup g.TJ))
               \cup To({6}, g.rf_pred[e] \cup g.fr_imm_preds[e])
               \cup To({19}, (EcoPreds(g, e) \cup g.po_imm_pred[e]) \cap g.SC))
      \cup When(e \in g.SC \cap g.F,
                    To({11, 12, 13, 18}, g.po_imm_pred[e])
               \cup To({19}, g.po_imm_pred[e] \cap g.SC \cap g.F)
               \cup To({15}, g.po_imm_pred[e] \cap g.Acq)
               \cup To({17}, g.po_imm_pred[e] \cap g.Acq \cap (g.F \cup g.TJ)))
      \cup When(e \in g.SC \cap g.Acq \cap g.F, To({15, 17}, g.po_imm_pred[e]))
visitConsAcyclic1(g, q, e) ==
    CASE q = 0 -> visitConsAcyclic1_0(g, e) [] q = 1 -> visitConsAcyclic1_1(g, e)
      [] q = 2 -> visitConsAcyclic1_2(g, e) [] q = 3 -> visitConsAcyclic1_3(g, e)
      [] q = 4 -> visitConsAcyclic1_4(g, e) [] q = 5 -> visitConsAcyclic1_5(g, e)
      [] q = 6 -> visitConsAcyclic1_6(g, e) [] q = 7 -> visitConsAcyclic1_7(g, e)
      [] q = 8 -> visitConsAcyclic1_8(g, e) [] q = 9 -> visitConsAcyclic1_9(g, e)
      [] q = 10 -> visitConsAcyclic1_10(g, e) [] q = 11 -> visitConsAcyclic1_11(g, e)
      [] q = 12 -> visitConsAcyclic1_12(g, e) [] q = 13 -> visitConsAcyclic1_13(g, e)
      [] q = 14 -> visitConsAcyclic1_14(g, e) [] q = 15 -> visitConsAcyclic1_15(g, e)
      [] q = 16 -> visitConsAcyclic1_16(g, e) [] q = 17 -> visitConsAcyclic1_17(g, e)
      [] q = 18 -> visitConsAcyclic1_18(g, e) [] q = 19 -> visitConsAcyclic1_19(g, e)
      [] OTHER -> {}
(* Fault: a new event is taken to be on a cycle only if it is SC. *)
StartsAtSC == {19}
Starts == {0, 1, 3, 6, 8, 11, 12, 13, 15, 18, 19}
visitConsAcyclic1At(g, e) ==
    LET r == Tabulated(g) IN isAcyclic(Searched(LAMBDA q, d : visitConsAcyclic1(r, q, d), Starts \X {e}))
visitUnlessConsAcyclic1(g, e) == \A d \in Events(g) \ {e} : ~isSC(g.lab[d])
checkConsAcyclic1(g, e) == visitUnlessConsAcyclic1(g, e) \/ visitConsAcyclic1At(g, e)
visitConsAcyclic1Full(g) ==
    LET r == Tabulated(g) IN isAcyclic(Searched(LAMBDA q, d : visitConsAcyclic1(r, q, d), {19} \X Events(g)))

(* The order ar: a step back from an event (state 17) to one that it        *)
(* depends on, as in the prefix (0 to 5), or from an SC fence to another    *)
(* one, back along hb (12 to 16), eco (11) and hb (6 to 10).  No event is   *)
(* in its own prefix, so a new event is taken to be on a cycle only between *)
(* two SC fences.                                                           *)
visitConsAcyclic2_0(g, e) ==
    To({0, 1}, g.ctrl_preds[e] \cup g.data_preds[e] \cup g.rfi_pred[e])
      \cup To({17}, (g.ctrl_preds[e] \cup g.data_preds[e]) \cap g.Dep)
      \cup To({2}, g.rfi_pred[e] \cap g.RMW \cap g.W)
visitConsAcyclic2_1(g, e) ==
    To({0, 1}, g.addr_preds[e])
      \cup To({1}, g.po_imm_pred[e])
      \cup To({17}, g.addr_preds[e] \cap g.Dep)
visitConsAcyclic2_2(g, e) ==
    To({0, 1}, g.po_imm_pred[e] \cap g.RMW \cap g.R)
      \cup To({17}, g.po_imm_pred[e] \cap g.RMW \cap g.Dep \cap g.R)
visitConsAcyclic2_3(g, e) ==
    To({3}, g.po_imm_pred[e])
      \cup To({17}, g.po_imm_pred[e] \cap g.Acq)
      \cup To({17}, g.po_imm_pred[e] \cap g.F)
visitConsAcyclic2_4(g, e) ==
    To({4, 17}, g.po_imm_pred[e])
visitConsAcyclic2_5(g, e) ==
    To({5}, g.poloc_imm_pred[e])
      \cup To({17}, g.poloc_imm_pred[e] \cap g.Rel \cap g.W)
visitConsAcyclic2_6(g, e) ==
    To({8}, (g.lin_preds[e] \cup g.po_imm_pred[e]) \cap g.Acq)
      \cup To({17}, g.po_imm_pred[e] \cap g.SC \cap g.F)
      \cup To({6}, SbPreds(g, e))
      \cup To({10}, g.po_imm_pred[e] \cap g.Acq \cap (g.F \cup g.TJ))
visitConsAcyclic2_7(g, e) ==
    To({8, 10}, g.po_imm_pred[e] \cap g.Acq \cap g.Rel \cap g.F)
      \cup To({7}, g.po_imm_pred[e])
      \cup To({17}, g.po_imm_pred[e] \cap g.SC \cap g.Rel \cap g.F)
      \cup To({6}, g.po_imm_pred[e] \cap g.Rel \cap (g.F \cup g.TC))
visitConsAcyclic2_8(g, e) ==
    To({8}, g.rf_pred[e] \cap g.Acq \cap g.Rel)
      \cup To({9}, g.rf_pred[e] \cap g.RMW \cap g.W)
      \cup To({7}, g.rf_pred[e])
      \cup To({6}, g.rf_pred[e] \cap g.Rel)
visitConsAcyclic2_9(g, e) ==
    To({8}, g.po_imm_pred[e] \cap g.RMW \cap g.R)
visitConsAcyclic2_10(g, e) ==
    To({8, 10}, g.po_imm_pred[e])
visitConsAcyclic2_11(g, e) ==
    To({8}, EcoPreds(g, e) \cap g.Acq)
      \cup To({6, 11}, EcoPreds(g, e))
visitConsAcyclic2_12(g, e) ==
    To({11, 12}, SbPreds(g, e))
      \cup To({16}, g.po_imm_pred[e] \cap g.Acq \cap (g.F \cup g.TJ))
      \cup To({14}, (g.lin_preds[e] \cup g.po_imm_pred[e]) \cap g.Acq)
visitConsAcyclic2_13(g, e) ==
    To({11, 12}, g.po_imm_pred[e] \cap g.Rel \cap (g.F \cup g.TC))
      \cup To({14, 16}, g.po_imm_pred[e] \cap g.Acq \cap g.Rel \cap g.F)
      \cup To({13}, g.po_imm_pred[e])
visitConsAcyclic2_14(g, e) ==
    To({11, 12}, g.rf_pred[e] \cap g.Rel)
      \cup To({15}, g.rf_pred[e] \cap g.RMW \cap g.W)
      \cup To({13}, g.rf_pred[e])
      \cup To({14}, g.rf_pred[e] \cap g.Acq \cap g.Rel)
visitConsAcyclic2_15(g, e) ==
    To({14}, g.po_imm_pred[e] \cap g.RMW \cap g.R)
visitConsAcyclic2_16(g, e) ==
    To({14, 16}, g.po_imm_pred[e])
visitConsAcyclic2_17(g, e) ==
    To({3}, g.po_imm_pred[e])
      \cup To({17}, g.rfe_pred[e] \cup g.detour_preds[e])
      \cup To({17}, g.po_imm_pred[e] \cap g.Acq)
      \cup To({17}, g.po_imm_pred[e] \cap g.F)
      \cup When(e \in g.SC \cap g.F,
                    To({11, 12}, g.po_imm_pred[e])
               \cup To({16}, g.po_imm_pred[e] \cap g.Acq \cap (g.F \cup g.TJ))
               \cup To({14}, g.po_imm_pred[e] \cap g.Acq))
      \cup When(e \in g.W,
                    To({0, 1}, g.ctrl_preds[e] \cup g.addr_preds[e] \cup g.data_preds[e])
               \cup To({5}, g.poloc_imm_pred[e])
               \cup To({1}, g.po_imm_pred[e])
               \cup To({17}, (g.ctrl_preds[e] \cup g.addr_preds[e] \cup g.data_preds[e]) \cap g.Dep)
               \cup To({17}, g.poloc_imm_pred[e] \cap g.Rel \cap g.W))
      \cup When(e \in g.RMW \cap g.W,
                    To({0, 1}, g.po_imm_pred[e] \cap g.RMW \cap g.R)
               \cup To({17}, g.po_imm_pred[e] \cap g.RMW \cap g.Dep \cap g.R))
      \cup When(e \in g.Rel, To({4, 17}, g.po_imm_pred[e]))
      \cup When(e \in g.F, To({4, 17}, g.po_imm_pred[e]))
      \cup When(e \in g.SC \cap g.Acq \cap g.F, To({14, 16}, g.po_imm_pred[e]))
visitConsAcyclic2(g, q, e) ==
    CASE q = 0 -> visitConsAcyclic2_0(g, e) [] q = 1 -> visitConsAcyclic2_1(g, e)
      [] q = 2 -> visitConsAcyclic2_2(g, e) [] q = 3 -> visitConsAcyclic2_3(g, e)
      [] q = 4 -> visitConsAcyclic2_4(g, e) [] q = 5 -> visitConsAcyclic2_5(g, e)
      [] q = 6 -> visitConsAcyclic2_6(g, e) [] q = 7 -> visitConsAcyclic2_7(g, e)
      [] q = 8 -> visitConsAcyclic2_8(g, e) [] q = 9 -> visitConsAcyclic2_9(g, e)
      [] q = 10 -> visitConsAcyclic2_10(g, e) [] q = 11 -> visitConsAcyclic2_11(g, e)
      [] q = 12 -> visitConsAcyclic2_12(g, e) [] q = 13 -> visitConsAcyclic2_13(g, e)
      [] q = 14 -> visitConsAcyclic2_14(g, e) [] q = 15 -> visitConsAcyclic2_15(g, e)
      [] q = 16 -> visitConsAcyclic2_16(g, e) [] q = 17 -> visitConsAcyclic2_17(g, e)
      [] OTHER -> {}
visitConsAcyclic2At(g, e) ==
    LET r == Tabulated(g) IN isAcyclic(Searched(LAMBDA q, d : visitConsAcyclic2(r, q, d), {6, 8, 11, 12, 14} \X {e}))
checkConsAcyclic2(g, e) == visitConsAcyclic2At(g, e)
visitConsAcyclic2Full(g) ==
    LET r == Tabulated(g) IN isAcyclic(Searched(LAMBDA q, d : visitConsAcyclic2(r, q, d), {17} \X Events(g)))
isConsistent(g, e) == checkConsAcyclic1(g, e) /\ checkConsAcyclic2(g, e)
isGraphConsistent(g) == visitConsAcyclic1Full(g) /\ visitConsAcyclic2Full(g)

(* With the linearization edges of a specification: a method begin that is  *)
(* hb-after the end of another one does not come before it in hb;eco;hb.    *)
(* The states 2 to 6 and 8 to 12 walk back along happens-before: below a    *)
(* release fence (3, 9), at a read that may synchronize (4, 10), in an RMW  *)
(* (5, 11), above an acquire fence (6, 12); state 7 walks along eco.        *)
visitCoherence_1(g, e) ==
    To({8}, g.lin_preds[e])
      \cup To({10}, g.lin_preds[e] \cap g.Acq)
visitCoherence_2(g, e) ==
    To({4}, (g.lin_preds[e] \cup g.po_imm_pred[e]) \cap g.Acq)
      \cup To({6}, g.po_imm_pred[e] \cap g.Acq \cap (g.F \cup g.TJ))
      \cup To({0, 2}, SbPreds(g, e))
visitCoherence_3(g, e) ==
    To({4, 6}, g.po_imm_pred[e] \cap g.Acq \cap g.Rel \cap g.F)
      \cup To({3}, g.po_imm_pred[e])
      \cup To({0, 2}, g.po_imm_pred[e] \cap g.Rel \cap (g.F \cup g.TC))
visitCoherence_4(g, e) ==
    To({4}, g.rf_pred[e] \cap g.Acq \cap g.Rel)
      \cup To({3}, g.rf_pred[e])
      \cup To({0, 2}, g.rf_pred[e] \cap g.Rel)
      \cup To({5}, g.rf_pred[e] \cap g.RMW \cap g.W)
visitCoherence_5(g, e) ==
    To({4}, g.po_imm_pred[e] \cap g.RMW \cap g.R)
visitCoherence_6(g, e) ==
    To({4, 6}, g.po_imm_pred[e])
visitCoherence_7(g, e) ==
    To({4}, EcoPreds(g, e) \cap g.Acq)
      \cup To({2, 7}, EcoPreds(g, e))
visitCoherence_8(g, e) ==
    To({12}, g.po_imm_pred[e] \cap g.Acq \cap (g.F \cup g.TJ))
      \cup To({7, 8}, SbPreds(g, e))
      \cup To({10}, (g.lin_preds[e] \cup g.po_imm_pred[e]) \cap g.Acq)
visitCoherence_9(g, e) ==
    To({10, 12}, g.po_imm_pred[e] \cap g.Acq \cap g.Rel \cap g.F)
      \cup To({9}, g.po_imm_pred[e])
      \cup To({7, 8}, g.po_imm_pred[e] \cap g.Rel \cap (g.F \cup g.TC))
visitCoherence_10(g, e) ==
    To({9}, g.rf_pred[e])
      \cup To({11}, g.rf_pred[e] \cap g.RMW \cap g.W)
      \cup To({7, 8}, g.rf_pred[e] \cap g.Rel)
      \cup To({10}, g.rf_pred[e] \cap g.Acq \cap g.Rel)
visitCoherence_11(g, e) ==
    To({10}, g.po_imm_pred[e] \cap g.RMW \cap g.R)
visitCoherence_12(g, e) ==
    To({10, 12}, g.po_imm_pred[e])
visitCoherence(g, q, e) ==
    CASE q = 1 -> visitCoherence_1(g, e) [] q = 2 -> visitCoherence_2(g, e)
      [] q = 3 -> visitCoherence_3(g, e) [] q = 4 -> visitCoherence_4(g, e)
      [] q = 5 -> visitCoherence_5(g, e) [] q = 6 -> visitCoherence_6(g, e)
      [] q = 7 -> visitCoherence_7(g, e) [] q = 8 -> visitCoherence_8(g, e)
      [] q = 9 -> visitCoherence_9(g, e) [] q = 10 -> visitCoherence_10(g, e)
      [] q = 11 -> visitCoherence_11(g, e) [] q = 12 -> visitCoherence_12(g, e) [] OTHER -> {}
visitCoherenceRelinche(g) ==
    LET r == Tabulated(g)
    IN \A b \in r.MB : <<0, b>> \notin Visited(LAMBDA q, d : visitCoherence(r, q, d), {<<1, b>>})
isCoherentRelinche(g) == visitCoherenceRelinche(g)

(***************************** Errors, warnings ****************************)

(* No errors are looked for under IMM; a warning compares a write with all  *)
(* the other ones of its location.                                          *)
checkErrors(g, st, e) == NoError
checkWarning3(g, st, e) ==
    ~(g.lab[e].typ = "W" /\ Unordered(g, e, 3, ToSet(g.co[Loc(g, e)])))
checkWarnings(g, st, e, seen) == IF seen \/ checkWarning3(g, st, e) THEN {} ELSE {"WWRace"}
=============================================================================
