------------------------------ MODULE RAChecker ------------------------------
(***************************************************************************)
(* The consistency checker for release/acquire (genmc/Execution/           *)
(* Consistency/RAChecker.cpp).  Coherence with respect to happens-before   *)
(* is all that this model asks for.                                        *)
(***************************************************************************)
EXTENDS ConsistencyChecker

(********************************** Views **********************************)

(* Everything before an event in program order, reads-from, thread creation *)
(* and join (view 0); happens-before, where an acquire read or fence        *)
(* synchronizes with the release write or fence at the head of the RMWs     *)
(* that it reads from (view 1); the same without the lock acquisitions      *)
(* (view 2).                                                                *)
visitCalc70_2(g, e) ==
    To({1}, SbPreds(g, e) \cup g.rf_pred[e])
visitCalc70(g, q, e) == IF q = 2 THEN visitCalc70_2(g, e) ELSE {}
checkCalc70(g, e) ==
    LET r == Relations(g) IN ViewOf(g, e, 1, Visited(LAMBDA q, d : visitCalc70(r, q, d), {<<2, e>>}))
(* Fault: a release fence does not help the writes after it. *)
visitNoFence_2(g, e) == To({2}, g.po_imm_pred[e])
visitCalc76_2(g, e) ==
    To({1}, g.po_imm_pred[e] \cap g.Rel \cap (g.F \cup g.TC \cup g.TF))
      \cup To({2}, g.po_imm_pred[e])
visitCalc76_3(g, e) ==
    To({4}, g.rf_pred[e] \cap g.RMW \cap g.W)
      \cup To({1}, g.rf_pred[e] \cap g.Rel)
      \cup To({2}, g.rf_pred[e])
(* Fault: RMWs do not go on with a release sequence. *)
visitNoSequence_4(g, e) == {}
visitCalc76_4(g, e) ==
    To({3}, g.po_imm_pred[e] \cap g.RMW \cap g.R)
visitCalc76_5(g, e) ==
    To({4}, g.rf_pred[e] \cap g.RMW \cap g.W)
      \cup To({1}, g.rf_pred[e] \cap g.Rel)
      \cup To({5}, g.po_imm_pred[e])
      \cup To({2}, g.rf_pred[e])
visitCalc76_6(g, e) ==
    To({1}, SbPreds(g, e))
      \cup When(e \in g.Acq,
                    To({4}, g.rf_pred[e] \cap g.RMW \cap g.W)
               \cup To({1}, g.rf_pred[e] \cap g.Rel)
               \cup To({2}, g.rf_pred[e]))
      \cup When(e \in g.Acq \cap (g.F \cup g.TJ \cup g.TS), To({5}, g.po_imm_pred[e]))
visitCalc76(g, q, e) ==
    CASE q = 2 -> visitCalc76_2(g, e) [] q = 3 -> visitCalc76_3(g, e)
      [] q = 4 -> visitCalc76_4(g, e) [] q = 5 -> visitCalc76_5(g, e)
      [] q = 6 -> visitCalc76_6(g, e) [] OTHER -> {}
checkCalc76(g, e) ==
    LET r == Relations(g) IN ViewOf(g, e, 2, Visited(LAMBDA q, d : visitCalc76(r, q, d), {<<6, e>>}))
visitCalc77_2(g, e) ==
    To({1}, SbPreds(g, e))
      \cup When(e \in g.Acq \ g.Lock,
                    To({3}, g.rf_pred[e])
               \cup To({5}, g.rf_pred[e] \cap g.RMW \cap g.W)
               \cup To({1}, g.rf_pred[e] \cap g.Rel))
      \cup When(e \in (g.Acq \cap (g.F \cup g.TJ \cup g.TS)) \ g.Lock, To({6}, g.po_imm_pred[e]))
visitCalc77_3(g, e) ==
    To({3}, g.po_imm_pred[e])
      \cup To({1}, g.po_imm_pred[e] \cap g.Rel \cap (g.F \cup g.TC \cup g.TF))
visitCalc77_4(g, e) ==
    To({3}, g.rf_pred[e])
      \cup To({5}, g.rf_pred[e] \cap g.RMW \cap g.W)
      \cup To({1}, g.rf_pred[e] \cap g.Rel)
visitCalc77_5(g, e) ==
    To({4}, g.po_imm_pred[e] \cap g.RMW \cap g.R)
visitCalc77_6(g, e) ==
    To({3}, g.rf_pred[e])
      \cup To({5}, g.rf_pred[e] \cap g.RMW \cap g.W)
      \cup To({6}, g.po_imm_pred[e])
      \cup To({1}, g.rf_pred[e] \cap g.Rel)
visitCalc77(g, q, e) ==
    CASE q = 2 -> visitCalc77_2(g, e) [] q = 3 -> visitCalc77_3(g, e)
      [] q = 4 -> visitCalc77_4(g, e) [] q = 5 -> visitCalc77_5(g, e)
      [] q = 6 -> visitCalc77_6(g, e) [] OTHER -> {}
checkCalc77(g, e) ==
    LET r == Relations(g) IN ViewOf(g, e, 3, Visited(LAMBDA q, d : visitCalc77(r, q, d), {<<2, e>>}))
calculateViews(g, e) ==
    <<checkCalc70(g, e), checkCalc76(g, e), IF LinSpec THEN checkCalc77(g, e) ELSE {}>>
getHbView(g, e) == g.lab[e].views[2]

calculatePrefixView(g, e) == PrefixOf(g, e)

(******************************** Coherence ********************************)

getCoherentStores(g, r) == CoherentStores(g, r, 2, FALSE)
getCoherentPlacings(g, w) == CoherentPlacings(g, w, 2, FALSE)
filterCoherentRevisits(g, s, loads) == CoherentRevisits(g, s, loads, 2, FALSE)

(******************************* Consistency *******************************)

isConsistent(g, e) == TRUE
isGraphConsistent(g) == TRUE

(* With the linearization edges of a specification: a method begin that is  *)
(* hb-after the end of another one does not come before it in hb;eco;hb.    *)
(* The states 2 to 6 and 8 to 12 walk back along happens-before: below a    *)
(* release fence (3, 9), at a read that may synchronize (4, 10), in an RMW  *)
(* (5, 11), above an acquire fence (6, 12); state 7 walks along eco.        *)
visitCoherence_1(g, e) ==
    To({10}, g.lin_preds[e] \cap g.Acq)
      \cup To({8}, g.lin_preds[e])
visitCoherence_2(g, e) ==
    To({0, 2}, SbPreds(g, e))
      \cup To({6}, g.po_imm_pred[e] \cap g.Acq \cap (g.F \cup g.TJ \cup g.TS))
      \cup To({4}, (g.lin_preds[e] \cup g.po_imm_pred[e]) \cap g.Acq)
visitCoherence_3(g, e) ==
    To({0, 2}, g.po_imm_pred[e] \cap g.Rel \cap (g.F \cup g.TC \cup g.TF))
      \cup To({4, 6}, g.po_imm_pred[e] \cap g.Acq \cap g.Rel \cap g.F)
      \cup To({3}, g.po_imm_pred[e])
visitCoherence_4(g, e) ==
    To({0, 2}, g.rf_pred[e] \cap g.Rel)
      \cup To({5}, g.rf_pred[e] \cap g.RMW \cap g.W)
      \cup To({3}, g.rf_pred[e])
      \cup To({4}, g.rf_pred[e] \cap g.Acq \cap g.Rel)
visitCoherence_5(g, e) ==
    To({4}, g.po_imm_pred[e] \cap g.RMW \cap g.R)
visitCoherence_6(g, e) ==
    To({4, 6}, g.po_imm_pred[e])
visitCoherence_7(g, e) ==
    To({2, 7}, EcoPreds(g, e))
      \cup To({4}, EcoPreds(g, e) \cap g.Acq)
visitCoherence_8(g, e) ==
    To({12}, g.po_imm_pred[e] \cap g.Acq \cap (g.F \cup g.TJ \cup g.TS))
      \cup To({10}, (g.lin_preds[e] \cup g.po_imm_pred[e]) \cap g.Acq)
      \cup To({7, 8}, SbPreds(g, e))
visitCoherence_9(g, e) ==
    To({10, 12}, g.po_imm_pred[e] \cap g.Acq \cap g.Rel \cap g.F)
      \cup To({9}, g.po_imm_pred[e])
      \cup To({7, 8}, g.po_imm_pred[e] \cap g.Rel \cap (g.F \cup g.TC \cup g.TF))
visitCoherence_10(g, e) ==
    To({9}, g.rf_pred[e])
      \cup To({10}, g.rf_pred[e] \cap g.Acq \cap g.Rel)
      \cup To({11}, g.rf_pred[e] \cap g.RMW \cap g.W)
      \cup To({7, 8}, g.rf_pred[e] \cap g.Rel)
visitCoherence_11(g, e) ==
    To({10}, g.po_imm_pred[e] \cap g.RMW \cap g.R)
visitCoherence_12(g, e) ==
    To({10, 12}, g.po_imm_pred[e])
visitCoherence(g, q, e) ==
    CASE q = 1 -> visitCoherence_1(g, e) [] q = 2 -> visitCoherence_2(g, e)
      [] q = 3 -> visitCoherence_3(g, e) [] q = 4 -> visitCoherence_4(g, e)
      [] q = 5 -> visitCoherence_5(g, e) [] q = 6 -> visitCoherence_6(g, e)
      [] q = 7 -> visitCoherence_7(g, e) [] q = 8 -> visitCoherence_8(g, e)
      [] q = 9 -> visitCoherence_9(g, e) [] q = 10 -> visitCoherence_10(g, e)
      [] q = 11 -> visitCoherence_11(g, e) [] q = 12 -> visitCoherence_12(g, e) [] OTHER -> {}
visitCoherenceRelinche(g) ==
    LET r == Tabulated(g)
    IN \A b \in r.MB : <<0, b>> \notin Visited(LAMBDA q, d : visitCoherence(r, q, d), {<<1, b>>})
isCoherentRelinche(g) == visitCoherenceRelinche(g)

(***************************** Errors, warnings ****************************)

checkError1(g, st, e) == ~AllocUnknown(g, st, e, 2)
checkError2(g, st, e) == ~FreedTwice(g, st, e)
checkError3(g, st, e) == ~AccessedWhenFreed(g, st, e, 2)
checkError4(g, st, e) == ~AccessOfFreed(g, st, e)
checkError5(g, st, e) == ~UnprotectedWhenRetired(g, st, e, 2)
checkError6(g, st, e) == ~AccessOfRetired(g, st, e)
checkError7(g, st, e) == ~Races(g, st, e, 2)
checkErrors(g, st, e) ==
    FirstError(<< <<checkError1(g, st, e), "AccessNonMalloc">>, <<checkError2(g, st, e), "DoubleFree">>,
                  <<checkError3(g, st, e), "AccessFreed">>, <<checkError4(g, st, e), "AccessFreed">>,
                  <<checkError5(g, st, e), "AccessFreed">>, <<checkError6(g, st, e), "AccessFreed">>,
                  <<checkError7(g, st, e), "RaceNotAtomic">> >>)
checkWarning8(g, st, e) == ~UnorderedWrites(g, st, e, 1)
checkWarnings(g, st, e, seen) == IF seen \/ checkWarning8(g, st, e) THEN {} ELSE {"WWRace"}
=============================================================================
