------------------------------ MODULE MCPrograms ------------------------------
(* The programs that are explored.  Thread 0 is main. *)
EXTENDS ExecutionGraph

W(l, v) == Instr("W", l, v, 0, NoAnnot, "rlx")
R(l) == Instr("R", l, 0, 0, NoAnnot, "rlx")
Copy(l) == Instr("COPY", l, 0, 0, NoAnnot, "rlx")
FAI(l) == Instr("FAI", l, 1, 0, NoAnnot, "rlx")
CAS(l, e, v) == Instr("CAS", l, v, e, NoAnnot, "rlx")
Fence == Instr("F", "", 0, 0, NoAnnot, "sc")
With(ins, mo) == [ins EXCEPT !.mo = mo]
Assume(v) == Instr("ASSUME", "", 0, v, NoAnnot, "na")
Await(l, v) == <<Instr("R", l, 0, 0, v, "rlx"), Assume(v)>>  \* an annotated load and its assume()
Guard(v) == Instr("GUARD", "", 0, v, NoAnnot, "na")
Create(f) == Instr("CREATE", "", f, 0, NoAnnot, "na")
JoinChild(k) == Instr("JOIN", "", k, 0, NoAnnot, "na")
Malloc(l) == Instr("M", l, 0, 0, NoAnnot, "na")
Free(l) == Instr("D", l, 0, 0, NoAnnot, "na")
Retire(l) == Instr("RET", l, 0, 0, NoAnnot, "na")
Protect(h, l) == Instr("HP", h, l, 0, NoAnnot, "na")

MethodBegin == Instr("MB", "", 0, 0, NoAnnot, "na")
MethodEnd == Instr("ME", "", 0, 0, NoAnnot, "na")
Call(body) == <<MethodBegin>> \o body \o <<MethodEnd>>

(* Threads that main creates, and nothing else. *)
Parallel(bodies) == <<[i \in DOMAIN bodies |-> Create(i)]>> \o bodies

(* Clients that make one call in each thread. *)
CallBodies == {<<W("x", 1), With(W("y", 1), "rel")>>, <<With(R("y"), "acq"), R("x")>>, <<R("x"), W("y", 1)>>,
               <<With(W("x", 1), "sc"), With(R("y"), "sc")>>, <<With(W("y", 1), "sc"), With(R("x"), "sc")>>}
Clients == {Parallel(<<Call(p), Call(q)>>) : p, q \in CallBodies}
             \cup {Parallel(<<Call(<<W("x", 1)>>), Call(<<With(R("x"), "acq"), With(W("y", 1), "rel")>>),
                              Call(<<With(R("y"), "acq"), R("x")>>)>>),
                   Parallel(<<Call(<<With(W("x", 1), "sc"), With(R("y"), "sc")>>),
                              Call(<<With(W("y", 1), "sc")>>), Call(<<With(R("x"), "sc")>>)>>)}

(* Every program of two threads with two accesses each, up to the order of  *)
(* the threads, and the clients.                                            *)
Accesses == <<W("x", 1), W("y", 1), R("x"), R("y"), FAI("x"), CAS("x", 0, 1)>>
TwoThreads == {Parallel(<< <<Accesses[t[1]], Accesses[t[2]]>>, <<Accesses[t[3]], Accesses[t[4]]>> >>) :
                 t \in {u \in [1 .. 4 -> 1 .. 6] : 6 * u[1] + u[2] >= 6 * u[3] + u[4]}} \cup Clients

(* Three of these threads, in this order. *)
Bodies == << <<W("x", 1), R("y")>>, <<W("y", 1), R("x")>>, <<FAI("x")>>, <<CAS("x", 1, 2), R("y")>>,
             <<R("x"), Copy("y")>>, <<R("y"), W("x", 1)>>, <<R("x"), Guard(1), W("x", 2)>>,
             <<R("x"), Assume(1), W("y", 1)>> >>
(* Threads that wait for a value, and what they wait for. *)
AwaitBodies == << Await("x", 1) \o <<FAI("x")>>, Await("x", 1) \o <<W("y", 1)>>, <<R("y"), W("x", 1)>>,
                  <<FAI("x")>>, <<W("x", 2)>>, <<W("y", 1), R("x")>>, <<W("x", 1), R("y")>> >>
ThreeOf(bodies) == {Parallel(<<bodies[t[1]], bodies[t[2]], bodies[t[3]]>>) :
                      t \in {u \in [1 .. 3 -> DOMAIN bodies] : u[1] <= u[2] /\ u[2] <= u[3]}}
ThreeThreads == ThreeOf(Bodies) \cup ThreeOf(AwaitBodies)
SomeThreads == TwoThreads \cup ThreeThreads

(* An await, a competitor and what it waits for: without race detection one *)
(* execution is counted twice.                                              *)
OnlyAwaits == {Parallel(<<Await("x", 1) \o <<W("y", 1)>>, <<FAI("x")>>, <<R("y"), W("x", 1)>> >>)}

(* Two threads that main joins, accessing memory in between. *)
Joined == {<< <<Create(1), W("x", 2), Create(2), JoinChild(1), R("x"), JoinChild(2)>>, p, q >> :
              p, q \in {<<W("x", 1)>>, <<FAI("x")>>, <<R("x"), Assume(2), W("x", 1)>>,
                        <<R("x"), Guard(2), W("y", 1)>>}}

(* Threads that create threads: the store of the fourth revisits the load   *)
(* before the creation of the third.                                        *)
NestedCreation ==
    {<< <<Create(1), Create(2)>>, <<R("y"), Create(3)>>, <<R("x"), Create(4)>>, <<>>, <<W("y", 1)>> >>}
=============================================================================
