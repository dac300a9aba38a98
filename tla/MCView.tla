------------------------------- MODULE MCView -------------------------------
(* Model checking views: labels, drivers and bases are model values. *)
EXTENDS View, TLC

CONSTANTS l1, l2, d1, d2, b1, b2, b3, b4
Symm == Permutations({l1, l2}) \cup Permutations({d1, d2}) \cup Permutations({b1, b2, b3, b4})
=============================================================================
