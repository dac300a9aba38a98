---------------------------- MODULE RC11Reference ----------------------------
(***************************************************************************)
(* The exploration has to find the executions of RC11, and the races and   *)
(* memory errors in them.                                                  *)
(***************************************************************************)
EXTENDS AxiomaticReference

(* Soundness and completeness for RC11: the complete executions that the    *)
(* exploration goes through are exactly the program's.                      *)
SoundAndComplete == phase = "finished" => explored = Executions(RC11Consistent)

(* "maximal extensibility guarantees consistency", and so does a search for *)
(* psc cycles that begins at the last event only: whenever the program runs *)
(* on, all of the graph is consistent.                                      *)
ConsistentSoFar == Running => RC11Consistent(Top.graph)

(* "GenMC will report executions containing races as erroneous": the        *)
(* exploration halts with an error exactly if some execution of the program *)
(* has a race or misuses memory, although it looks only at the accesses it  *)
(* remembers as the last ones, in the order in which it adds them.          *)
ErrorsFound == Ended => (result.status # NoError <=> HasError(RC11Consistent))

(* A hint is an error exactly if the execution is consistent when the added *)
(* synchronization is part of happens-before: an inconsistent one is no     *)
(* behaviour of the extended client, a consistent one is a violation.       *)
HintsExact == HintsAgree(RC11Consistent)
=============================================================================
