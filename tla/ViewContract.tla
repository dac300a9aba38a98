---------------------------- MODULE ViewContract ----------------------------
(***************************************************************************)
(* What the owner of a view may rely on: a view is a map from threads to   *)
(* the last event seen of each (the Oracle of tests/unit/ViewTest.cpp),    *)
(* and an operation changes the view it is called on and no other.         *)
(***************************************************************************)
EXTENDS Integers

CONSTANTS Labels, Drivers, Threads, Indices

VARIABLE clock  \* the last index that each view has seen of each thread

Views == Labels \X Drivers  \* those of the labels of each driver's graph

Larger(i, j) == IF i >= j THEN i ELSE j
(* Nothing but the views in S changes. *)
Others(S) == \A w \in Views \ S : clock'[w] = clock[w]
Set(v, c) == Others({v}) /\ clock'[v] = c

Init == clock = [v \in Views |-> [t \in Threads |-> 0]]
Clear(v) == Set(v, [t \in Threads |-> 0])
Copy(v, w) == Set(v, clock[w])
(* What is left of a view that was moved is anything. *)
Move(v, w) == Others({v, w}) /\ clock'[v] = clock[w] /\ clock'[w] \in [Threads -> Indices]
UpdateIdx(v, e) == Set(v, [clock[v] EXCEPT ![e[1]] = Larger(@, e[2])])
SetMax(v, e) == Set(v, [clock[v] EXCEPT ![e[1]] = e[2]])
Update(v, w) == Set(v, [t \in Threads |-> Larger(clock[v][t], clock[w][t])])
(* The driver c goes on with the graph of d. *)
Clone(d, c) == clock' = [v \in Views |-> IF v[2] = c THEN clock[<<v[1], d>>] ELSE clock[v]]

Kin(v) == {w \in Views : w[2] = v[2]}
Next ==
    \/ \E v \in Views :
         \/ Clear(v)
         \/ \E w \in Kin(v) \ {v} : Copy(v, w) \/ Move(v, w)
         \/ \E w \in Kin(v) : Update(v, w)
         \/ \E e \in Threads \X Indices : UpdateIdx(v, e) \/ SetMax(v, e)
    \/ \E d \in Drivers : \E c \in Drivers \ {d} : Clone(d, c)

Spec == Init /\ [][Next]_clock
=============================================================================
