------------------------------ MODULE Reference ------------------------------
(***************************************************************************)
(* What the definitions of a program's executions under the memory models  *)
(* have in common.  They use the program, and a graph to record a run, but *)
(* nothing of the exploration or of the checkers.                          *)
(***************************************************************************)
EXTENDS LinearizabilityChecker

(* The order of the run is forgotten, so that equal executions are equal. *)
Record(g, l) == [g EXCEPT !.lab = WithLabel(g, l)]
NothingYet == [EmptyGraph EXCEPT !.stamp = <<>>]
CreateNext(g, l) == Record(Record(g, l), ThreadStartLabel(l.val, l.ins.val, l.pos))
Child(g, t) == g.lab[Children(g, t)[NextIns(g, t).val]].val

(* The events that do not access memory and do not wait. *)
LocalStep(g, t) ==
    LET op == NextIns(g, t).op
    IN CASE op = "CREATE" -> CreateNext(g, NextLabel(g, t, "TC", Cardinality(ThreadIds(g))))
         [] op = "FINISH" -> Record(g, NextLabel(g, t, "TF", 0))
         [] OTHER -> Record(g, NextLabel(g, t, op, 0))

(* The threads that are considered to step next: one of those with such an  *)
(* event, if there is one, as it commutes with what the others do.          *)
Movers(g) ==
    LET quiet == {t \in Schedulable(g) : NextIns(g, t).op \in {"CREATE", "FINISH", "F", "MB", "ME"}}
    IN IF quiet = {} THEN Schedulable(g) ELSE {Min(quiet)}

Succeeds(g, r) == valueMakesRMWSucceed(g, r, ReadValue(g, r))

(* Everything that n steps lead to, n being at most the number of events. *)
MaxSteps == 2 * FoldSeq(LAMBDA code, n : Len(code) + 1 + n, 0, prog)
Reachable(first, Step(_)) ==
    LET after[n \in 0 .. MaxSteps] ==
          IF n = 0 THEN {first} ELSE LET gs == after[n - 1] IN UNION {Step(g) : g \in gs}
    IN UNION {after[n] : n \in 0 .. MaxSteps}

Complete(g) == \A t \in ThreadIds(g) : Finish(g, t) # {}
=============================================================================
