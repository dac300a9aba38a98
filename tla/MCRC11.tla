------------------------------- MODULE MCRC11 -------------------------------
(* The driver with the checker for RC11. *)
EXTENDS RC11Reference, RC11Checker, MCLitmus, MCMemory, GraphInvariant

(* Z6.U: SC accesses and a relaxed read, m is the ordering of a store. *)
PartialSC(m) == Parallel(<< <<With(W("x", 1), "sc"), With(W("y", 1), m)>>,
                            <<With(FAI("y"), "sc"), With(R("y"), "rlx")>>,
                            <<With(W("y", 3), "sc"), With(R("x"), "sc")>> >>)
RC11Programs == Litmus \cup {PartialSC("sc")} \cup MemoryPrograms

(* The programs are what the proofs ask of a program. *)
ASSUME RC11ProgramsOK == \A p \in Programs : ProgramOK(p)

(* Programs for which exploration and definition do not agree: the test     *)
(* Z6.U, a read from an SC store that reaches an SC fence, a thread that is *)
(* created between two stores.                                              *)
OnlyZ6U == {PartialSC("rel")}
OnlySCReadAndFence ==
    {Parallel(<< <<With(W("y", 1), "sc"), With(W("x", 1), "sc")>>, <<R("x"), With(W("z", 1), "rel")>>,
                 <<With(R("z"), "acq"), Fence, R("y")>> >>)}
OnlyCreateBetweenStores ==
    {<< <<Create(1), W("y", 1), Create(2), W("x", 1)>>, <<With(R("x"), "acq"), R("y")>>, <<>> >>}
=============================================================================
