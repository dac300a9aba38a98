-------------------------------- MODULE MCIMM -------------------------------
(* The driver with the checker for IMM. *)
EXTENDS IMMReference, IMMChecker, MCLitmus

(* Loading a and storing to b: without a dependency, with one by data, by   *)
(* control, by an address or by a barrier, through a local read, with RMWs. *)
ByAddress(ins) == [ins EXCEPT !.byAddr = TRUE]
Loading(a, b) == {<<R(a), W(b, 1)>>, <<R(a), Copy(b)>>, <<R(a), Guard(1), W(b, 1)>>,
                  <<With(R(a), "acq"), W(b, 1)>>, <<R(a), With(W(b, 1), "rel")>>, <<R(a), Fence, W(b, 1)>>,
                  <<R(a), ByAddress(R(b)), W(b, 1)>>, <<W(b, 1), R(a)>>,
                  <<R(a), FAI(b)>>, <<CAS(a, 0, 1), W(b, 1)>>, <<R(a), W(b, 1), W(b, 2)>>,
                  <<R(a), W(b, 1), R(b), Copy(a)>>}
LoadBuffers == {Parallel(<<p, q>>) : p \in Loading("x", "y"), q \in Loading("y", "x")}
(* Three threads in a circle; a store of another thread in between. *)
Circles == {Parallel(<<p, q, <<R("z"), W("x", 1)>> >>) :
               p \in {<<R("x"), W("y", 1)>>, <<R("x"), Copy("y")>>},
               q \in {<<R("y"), W("z", 1)>>, <<R("y"), Copy("z")>>}}
Detour == Parallel(<< <<W("x", 1)>>, <<R("a"), Copy("x"), R("x"), Copy("z")>>, <<R("z"), Copy("a")>> >>)
IMMPrograms == LoadBuffers \cup Circles \cup {Detour} \cup Buffers \cup Relayed \cup Clients

(* Exploration and definition do not agree: a read of one's own store after *)
(* another one.                                                             *)
OnlyOwnStores ==
    {Parallel(<< <<R("a"), Copy("x"), W("x", 2), R("x"), Copy("z")>>, <<R("z"), Copy("a")>> >>)}
=============================================================================
