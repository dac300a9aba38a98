----------------------------- MODULE RAReference -----------------------------
(***************************************************************************)
(* The exploration has to find the executions of the release/acquire       *)
(* memory model.                                                           *)
(***************************************************************************)
EXTENDS AxiomaticReference

(* Soundness and completeness for RA: the complete executions that the      *)
(* exploration goes through are exactly the program's.                      *)
SoundAndComplete == phase = "finished" => explored = Executions(RAConsistent)

(* A hint is an error exactly if the execution is consistent when the added *)
(* synchronization is part of happens-before: an inconsistent one is no     *)
(* behaviour of the extended client, a consistent one is a violation.       *)
HintsExact == HintsAgree(RAConsistent)
=============================================================================
