----------------------- MODULE LinearizabilityChecker -----------------------
(***************************************************************************)
(* Checking an execution against hints (genmc/Verification/Relinche/       *)
(* LinearizabilityChecker.cpp).  A hint is a set of edges from the end of  *)
(* a method call to the begin of another one: synchronization that a       *)
(* client could add and that no linearization of the specification with    *)
(* the same results allows.  If the execution is still consistent with     *)
(* these edges, the implementation can go wrong in that client.            *)
(***************************************************************************)
EXTENDS GenMCDriver

(* The checker's tests of a whole graph. *)
CONSTANTS IsCoherentRelinche(_), IsGraphConsistent(_)

(* The calls of a graph, by their begins; the end of a call. *)
Calls(g) == OfType(g, {"MB"})
EndOf(g, b) == CHOOSE e \in OfType(g, {"ME"}) :
                   e[1] = b[1] /\ e[2] > b[2] /\ \A d \in Calls(g) : d[1] = b[1] => ~(b[2] < d[2] /\ d[2] < e[2])

(* Edges between calls that the client does not order. *)
ExtEdges(g) == {<<EndOf(g, c[1]), c[2]>> : c \in {d \in Calls(g) \X Calls(g) : d[1][1] # d[2][1]}}
Extended(g, hint) == [g EXCEPT !.lin = hint]

(* The execution with the hint is an error. *)
checkHint(g, hint) ==
    \E h \in {Extended(g, hint)} : IsCoherentRelinche(h) /\ IsGraphConsistent(h)

(* Sets of one or two edges, no two of them against each other. *)
Hints(g) == {h \in UNION {kSubset(n, ExtEdges(g)) : n \in 1 .. 2} :
               \A a, b \in h : a[1][1] = b[2][1] => a[2][1] # b[1][1]}
HintsAgree(Consistent(_)) ==
    Running /\ (\A t \in ThreadIds(Top.graph) : Finish(Top.graph, t) # {}) =>
        \A hint \in Hints(Top.graph) : checkHint(Top.graph, hint) <=> Consistent(Extended(Top.graph, hint))
=============================================================================
