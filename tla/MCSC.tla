-------------------------------- MODULE MCSC --------------------------------
(* The driver with the checker for sequential consistency. *)
EXTENDS SCReference, SCChecker, MCPrograms, GraphInvariant

(* The programs are what the proofs ask of a program. *)
ASSUME SCProgramsOK == \A p \in TwoThreads \cup ThreeThreads \cup Joined : ProgramOK(p) /\ AtomicLoads(p)
=============================================================================
