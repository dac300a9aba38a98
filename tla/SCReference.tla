----------------------------- MODULE SCReference -----------------------------
(***************************************************************************)
(* What the exploration has to find: the executions of a program under     *)
(* sequential consistency, by their textbook definition.  The threads take *)
(* turns in every possible way, a load reads the last store to its         *)
(* location, and an execution is complete when every thread has finished.  *)
(***************************************************************************)
EXTENDS Reference

LoadLast(g, l) == setRf(Record(g, l), l.pos, co_max(g, l.ins.loc))
StoreLast(g, l) == addCo(Record(g, l), l.pos, co_max(g, l.ins.loc))
StoreIfRMW(g, r) == IF Succeeds(g, r) THEN StoreLast(g, RMWWriteLabel(g, r)) ELSE g

(* The graph after thread t takes its next step, if it can take one. *)
SCStep(g, t) ==
    LET op == NextIns(g, t).op
        step(typ, val) == NextLabel(g, t, typ, val)
    IN CASE op = "R" -> {LoadLast(g, step("R", 0))}
         [] op \in {"W", "COPY"} -> {StoreLast(g, step("W", WriteValue(g, t, NextIns(g, t))))}
         [] op \in {"FAI", "CAS"} -> {StoreIfRMW(LoadLast(g, step("R", 0)), NextPos(g, t))}
         [] op = "JOIN" -> {Record(g, step("TJ", Child(g, t))) : f \in Finish(g, Child(g, t))}
         [] op = "ASSUME" -> {}
         [] OTHER -> {LocalStep(g, t)}
SCGraphs == Reachable(NothingYet, LAMBDA g : UNION {SCStep(g, t) : t \in Movers(g)})
SCExecutions == {Behaviour(g) : g \in {h \in SCGraphs : Complete(h)}}

(* Soundness and completeness of the exploration: when it ends without an   *)
(* error, the complete executions it went through are exactly the program's *)
(* executions under sequential consistency.  No revisit that was dropped as *)
(* incoherent, non-maximal or conflicting was needed, and none that was     *)
(* taken leads to an execution the program does not have.                   *)
SoundAndComplete == phase = "finished" => explored = SCExecutions

(* "maximal extensibility guarantees consistency": the last store that      *)
(* findConsistentRf() is left with, and the coherence-maximal place of      *)
(* findConsistentCo(), are taken without a check and yet the graph is       *)
(* consistent whenever the program runs on: there is an order of all events *)
(* that respects program order, reads-from, coherence and from-reads.       *)
SCSuccs(g, e) == po_imm_succ(g, e) \cup rf_succs(g, e) \cup co_imm_succ(g, e) \cup fr_imm_succ(g, e)
                   \cup tc_succ(g, e) \cup tj_succ(g, e) \cup lin_succs(g, e)
SCConsistent(g) ==
    LET rest[n \in 0 .. Cardinality(Events(g))] ==
          IF n = 0 THEN Events(g)
          ELSE LET left == rest[n - 1] IN {x \in left : SCSuccs(g, x) \cap left # {}}
    IN rest[Cardinality(Events(g))] = {}
ConsistentSoFar == Running => \E g \in {Top.graph} : SCConsistent(g)

(* A hint is an error exactly if the execution is consistent when the added *)
(* synchronization is part of happens-before: an inconsistent one is no     *)
(* behaviour of the extended client, a consistent one is a violation.       *)
HintsExact == HintsAgree(SCConsistent)
=============================================================================
