-------------------------------- MODULE MCRA --------------------------------
(* The driver with the checker for release/acquire. *)
EXTENDS RAReference, RAChecker, MCLitmus, GraphInvariant

(* The programs are what the proofs ask of a program. *)
ASSUME RAProgramsOK == \A p \in Programs : ProgramOK(p) /\ AtomicLoads(p)
=============================================================================
