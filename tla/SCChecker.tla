------------------------------ MODULE SCChecker ------------------------------
(***************************************************************************)
(* The consistency checker for sequential consistency (genmc/Execution/    *)
(* Consistency/SCChecker.cpp).                                             *)
(***************************************************************************)
EXTENDS ConsistencyChecker

(********************************** Views **********************************)

(* Everything before an event in program order, reads-from, thread creation *)
(* and join (view 0); the same, reading from non-atomics left out, which is *)
(* happens-before (view 1); and what synchronizes for a linearizability     *)
(* specification (view 2).                                                  *)
visitCalc71_2(g, e) ==
    To({1}, SbPreds(g, e) \cup g.rf_pred[e])
visitCalc71(g, q, e) == IF q = 2 THEN visitCalc71_2(g, e) ELSE {}
checkCalc71(g, e) ==
    LET r == Relations(g) IN ViewOf(g, e, 1, Visited(LAMBDA q, d : visitCalc71(r, q, d), {<<2, e>>}))
visitCalc72_2(g, e) ==
    To({1}, SbPreds(g, e))
      \cup When(e \notin g.NA, To({1}, g.rf_pred[e] \ g.NA))
visitCalc72(g, q, e) == IF q = 2 THEN visitCalc72_2(g, e) ELSE {}
checkCalc72(g, e) ==
    LET r == Relations(g) IN ViewOf(g, e, 2, Visited(LAMBDA q, d : visitCalc72(r, q, d), {<<2, e>>}))
visitCalc73_2(g, e) ==
    To({1}, SbPreds(g, e))
      \cup When(e \notin g.Lock, To({1}, g.rf_pred[e] \ g.NA))
visitCalc73(g, q, e) == IF q = 2 THEN visitCalc73_2(g, e) ELSE {}
checkCalc73(g, e) ==
    LET r == Relations(g) IN ViewOf(g, e, 3, Visited(LAMBDA q, d : visitCalc73(r, q, d), {<<2, e>>}))
calculateViews(g, e) ==
    <<checkCalc71(g, e), checkCalc72(g, e), IF LinSpec THEN checkCalc73(g, e) ELSE {}>>
getHbView(g, e) == g.lab[e].views[2]

calculatePrefixView(g, e) == PrefixOf(g, e)

(******************************** Coherence ********************************)

getCoherentStores(g, r) == CoherentStores(g, r, 2, FALSE)
getCoherentPlacings(g, w) == CoherentPlacings(g, w, 2, FALSE)
filterCoherentRevisits(g, s, loads) == CoherentRevisits(g, s, loads, 2, FALSE)

(******************************* Consistency *******************************)

(* Fault: from-reads is left out. *)
visitNoFr_0(g, e) == To({0}, SbSuccs(g, e) \cup g.rf_succs[e] \cup g.co_imm_succ[e])
visitConsAcyclic1_0(g, e) ==
    To({0}, SbSuccs(g, e) \cup EcoSuccs(g, e))
(* No cycle is met from e; no cycle at all. *)
checkConsAcyclic1(g, e) ==
    LET r == Tabulated(g) IN isAcyclic(Searched(LAMBDA q, d : visitConsAcyclic1_0(r, d), {<<0, e>>}))
visitConsAcyclic1Full(g) ==
    LET r == Tabulated(g) IN isAcyclic(Searched(LAMBDA q, d : visitConsAcyclic1_0(r, d), {0} \X Events(g)))
isConsistent(g, e) == checkConsAcyclic1(g, e)
isGraphConsistent(g) == visitConsAcyclic1Full(g)

(* With the linearization edges of a specification: no method begin that is *)
(* before the end of an earlier one comes after that one in coherence.      *)
visitCoherence_1(g, e) ==
    To({6}, g.lin_preds[e] \ g.NA)
      \cup To({5}, g.lin_preds[e])
visitCoherence_2(g, e) ==
    To({3}, SbPreds(g, e) \ g.NA)
      \cup To({0, 2}, SbPreds(g, e))
visitCoherence_3(g, e) ==
    To({0, 2, 3}, g.rf_pred[e] \ g.NA)
visitCoherence_4(g, e) ==
    To({2, 4}, EcoPreds(g, e))
      \cup To({3}, EcoPreds(g, e) \ g.NA)
visitCoherence_5(g, e) ==
    To({6}, SbPreds(g, e) \ g.NA)
      \cup To({4, 5}, SbPreds(g, e))
visitCoherence_6(g, e) ==
    To({4, 5, 6}, g.rf_pred[e] \ g.NA)
visitCoherence(g, q, e) ==
    CASE q = 1 -> visitCoherence_1(g, e) [] q = 2 -> visitCoherence_2(g, e)
      [] q = 3 -> visitCoherence_3(g, e) [] q = 4 -> visitCoherence_4(g, e)
      [] q = 5 -> visitCoherence_5(g, e) [] q = 6 -> visitCoherence_6(g, e) [] OTHER -> {}
visitCoherenceRelinche(g) ==
    LET r == Tabulated(g)
    IN \A b \in r.MB : <<0, b>> \notin Visited(LAMBDA q, d : visitCoherence(r, q, d), {<<1, b>>})
isCoherentRelinche(g) == visitCoherenceRelinche(g)

(***************************** Errors, warnings ****************************)

checkError2(g, st, e) == ~AllocUnknown(g, st, e, 2)
checkError3(g, st, e) == ~FreedTwice(g, st, e)
checkError4(g, st, e) == ~AccessedWhenFreed(g, st, e, 2)
checkError5(g, st, e) == ~AccessOfFreed(g, st, e)
checkError6(g, st, e) == ~UnprotectedWhenRetired(g, st, e, 2)
checkError7(g, st, e) == ~AccessOfRetired(g, st, e)
checkError8(g, st, e) == ~Races(g, st, e, 2)
checkErrors(g, st, e) ==
    FirstError(<< <<checkError2(g, st, e), "AccessNonMalloc">>, <<checkError3(g, st, e), "DoubleFree">>,
                  <<checkError4(g, st, e), "AccessFreed">>, <<checkError5(g, st, e), "AccessFreed">>,
                  <<checkError6(g, st, e), "AccessFreed">>, <<checkError7(g, st, e), "AccessFreed">>,
                  <<checkError8(g, st, e), "RaceNotAtomic">> >>)
checkWarning9(g, st, e) == ~UnorderedWrites(g, st, e, 1)
checkWarnings(g, st, e, seen) == IF seen \/ checkWarning9(g, st, e) THEN {} ELSE {"WWRace"}
=============================================================================
