------------------------------- MODULE MCLitmus -------------------------------
(* Litmus tests for the memory models with orderings: threads that pass a   *)
(* message, buffer stores or loads, with relaxed, release/acquire and SC    *)
(* accesses and with fences.                                                *)
EXTENDS MCPrograms

RelFence == With(Fence, "rel")
AcqFence == With(Fence, "acq")

(* Passing a message in x about y; looking for one. *)
Senders == {<<W("y", 1), W("x", 1)>>, <<W("y", 1), With(W("x", 1), "rel")>>, <<W("y", 1), RelFence, W("x", 1)>>,
            <<W("y", 1), With(FAI("x"), "rel")>>, <<With(W("x", 1), "rel"), W("x", 2)>>}
Receivers == {<<R("x"), R("y")>>, <<With(R("x"), "acq"), R("y")>>, <<R("x"), AcqFence, R("y")>>,
              <<With(CAS("x", 1, 2), "acq"), R("y")>>, <<With(R("x"), "acq"), W("y", 2)>>}
(* Storing to one location and reading the other one. *)
Buffering(l, k) == {<<W(l, 1), Fence, R(k)>>, <<With(W(l, 1), "sc"), With(R(k), "sc")>>,
                    <<With(W(l, 1), "sc"), R(k)>>, <<With(FAI(l), "sc"), With(R(k), "acq")>>}
Messages == {Parallel(<<p, q>>) : p \in Senders, q \in Receivers}
Buffers == {Parallel(<<p, q>>) : p \in Buffering("x", "y"), q \in Buffering("y", "x")}
(* A third thread: an RMW in the release sequence, causality, SC stores and *)
(* relaxed ones, reads of independent writes.                               *)
Relayed == {Parallel(<< <<W("y", 1), With(W("x", 1), "rel")>>, <<p>>, <<With(R("x"), "acq"), R("y")>> >>) :
               p \in {FAI("x"), W("x", 2), CAS("x", 1, 2)}}
Causality == {Parallel(<< <<W("x", 1)>>, <<With(R("x"), m), With(W("y", 1), n)>>, <<With(R("y"), m), R("x")>> >>) :
                 m \in {"rlx", "acq"}, n \in {"rlx", "rel"}}
Litmus == Messages \cup Buffers \cup Relayed \cup Causality \cup Clients
=============================================================================
