------------------------------ MODULE MCMemory ------------------------------
(* Programs with non-atomic accesses and with memory that is allocated,     *)
(* freed and retired.                                                       *)
EXTENDS MCPrograms

NA(ins) == With(ins, "na")

(* A location that main allocates and initializes.  One thread uses it and  *)
(* may tell another one in x, which uses or frees it, maybe without asking. *)
Users == {<<NA(R("p"))>>, <<Free("p")>>, <<NA(R("p")), With(W("x", 1), "rel")>>, <<NA(W("p", 2)), W("x", 1)>>,
          <<NA(W("p", 2)), With(FAI("x"), "rel")>>, <<NA(W("p", 2))>>, <<R("p")>>}
Owners == {<<With(R("x"), "acq"), Guard(1), NA(R("p"))>>, <<With(R("x"), "acq"), Guard(1), Free("p")>>,
           <<R("x"), With(Fence, "acq"), Guard(1), NA(W("p", 2))>>, <<FAI("p")>>,
           <<R("x"), Guard(1), Free("p")>>, <<Free("p")>>, <<NA(R("p"))>>}
Shared == {<< <<Malloc("p"), NA(W("p", 1)), Create(1), Create(2)>>, p, q >> : p \in Users, q \in Owners}

(* Two threads use it before a third one does; only one of them may tell. *)
TwoUsers == {<<NA(R("p"))>>, <<NA(R("p")), With(W("x", 1), "rel")>>, <<R("p"), With(W("x", 1), "rel")>>}
Lent == {<< <<Malloc("p"), NA(W("p", 1)), Create(1), Create(2), Create(3)>>, p, q, r >> :
            p, q \in TwoUsers, r \in {<<With(R("x"), "acq"), Guard(1), Free("p")>>,
                                       <<With(R("x"), "acq"), Guard(1), NA(W("p", 2))>>}}

(* Main waits for the user, or does not; initializes late or not at all. *)
Managed == {<< m, p >> : p \in {<<R("p")>>, <<NA(R("p"))>>, <<W("p", 2)>>},
               m \in {<<Malloc("p"), NA(W("p", 1)), Create(1), JoinChild(1), Free("p")>>,
                       <<Malloc("p"), NA(W("p", 1)), Create(1), Free("p")>>,
                       <<Malloc("p"), Create(1), W("p", 1)>>, <<Create(1), Malloc("p"), JoinChild(1)>>,
                       <<Malloc("p"), Create(1), JoinChild(1), Free("p"), Free("p")>>}}

(* Retiring what a hazard pointer protects, or another one does. *)
Retiring == {<< <<Malloc("p"), W("p", 1), Create(1), Create(2)>>, p, <<Retire("p")>> >> :
               p \in {<<R("p")>>, <<Protect("h", "p"), R("p")>>, <<Protect("h", "p"), W("p", 2), R("p")>>,
                      <<W("x", 1)>>}}
MemoryPrograms == Shared \cup Lent \cup Managed \cup Retiring

(* A store of an RMW that gets its value by a revisit, next to a non-atomic *)
(* load; two stores that initialize.                                        *)
OnlyRevisitedRMW == {Parallel(<< <<CAS("x", 1, 2)>>, <<NA(R("x")), W("x", 1)>> >>)}
OnlyTwoInitializers ==
    {<< <<Malloc("p"), Create(1), Create(2)>>, <<W("p", 1)>>, <<W("p", 2), R("p")>> >>}
=============================================================================
