-------------------------------- MODULE MCTSO -------------------------------
(* The driver with the checker for total store order. *)
EXTENDS TSOReference, TSOChecker, MCPrograms, GraphInvariant

(* Any two of these threads: store buffering with and without fences, SC    *)
(* accesses and RMWs, reading one's own store early, message passing.       *)
TSOBodies == {<<W("x", 1), R("y")>>, <<W("y", 1), R("x")>>, <<W("y", 1), Fence, R("x")>>,
              <<With(W("x", 1), "sc"), R("x"), With(R("y"), "sc")>>, <<With(W("y", 1), "sc"), With(R("x"), "sc")>>,
              <<W("x", 2), R("x"), R("y")>>, <<FAI("x"), R("y")>>, <<W("y", 2), CAS("x", 1, 2)>>,
              <<R("y"), R("x")>>, <<W("x", 1), W("y", 1)>>, <<R("x"), Copy("y")>>,
              <<W("y", 3), FAI("y"), R("x")>>}
TSOTwoThreads == {Parallel(<<p, q>>) : p, q \in TSOBodies}
(* Independent readers of independent writes, and write-to-read causality. *)
TSOThreeThreads == {Parallel(<<p, q, r>>) : p \in {<<W("x", 1), R("y")>>, <<W("x", 1)>>},
                       q \in {<<R("x"), W("y", 1)>>, <<R("x"), R("y")>>},
                       r \in {<<W("y", 2), R("x")>>, <<R("y"), R("x")>>}}
TSOJoins == {<< <<Create(1), W("x", 2), Create(2), R("y"), JoinChild(1), R("x")>>, p, q >> :
               p, q \in {<<W("y", 1), R("x")>>, <<W("x", 1)>>}}
TSOPrograms == TSOTwoThreads \cup TSOThreeThreads \cup TSOJoins

(* The programs are what the proofs ask of a program. *)
ASSUME TSOProgramsOK == \A p \in Programs : ProgramOK(p) /\ AtomicLoads(p)
=============================================================================
