---------------------------- MODULE MCThreadPool ----------------------------
(* Model checking the thread pool: workers and executions are model values. *)
EXTENDS ThreadPoolProofs

CONSTANTS w1, w2, w3, t0, t1, t2
=============================================================================
