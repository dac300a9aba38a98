-------------------------------- MODULE View --------------------------------
(***************************************************************************)
(* genmc/ADT/View: vector clocks with copy-on-write.  A view points to a   *)
(* ViewBase, which it may share with others, and has a diff: one event     *)
(* that was seen in addition.  While a base is shared, an update goes to   *)
(* the diff; when that is taken, the view is hydrated: it gets a base of   *)
(* its own.  The reference count of a base (genmc/ADT/Rc.hpp) is the       *)
(* number of views that point to it, and a base without views is deleted.  *)
(*                                                                         *)
(* Views belong to the labels of an execution graph, and each driver has a *)
(* graph of its own.  A driver that hands work to another one clones its   *)
(* graph (ExecutionGraph::clone(), GenMCDriver::extractState()), views and *)
(* all.  An event is <<thread, index>>, a view <<label, driver>>.          *)
(***************************************************************************)
EXTENDS Integers, Sequences, Functions

CONSTANTS Labels,      \* the views of a graph
          DepLabels,   \* those that are part of a DepView
          Drivers,     \* the drivers, each in a thread of its own
          Bases,       \* where a ViewBase may be allocated
          Null,
          NumThreads,
          Indices      \* the indices of the events in use

ASSUME ViewAssumption == /\ NumThreads \in Nat \ {0}
                         /\ Indices \subseteq Nat
                         /\ 0 \in Indices
                         /\ Null \notin Bases
                         /\ DepLabels \subseteq Labels

VARIABLES view,  \* base_ and diff_ of each view
          vec    \* view_ of each ViewBase

vars == <<view, vec>>

Views == Labels \X Drivers
Threads == 0 .. NumThreads - 1
Events == Threads \X Indices
InitEvent == <<0, 0>>
Larger(i, j) == IF i >= j THEN i ELSE j

(* Up to one entry for each thread. *)
Vectors == UNION {[1 .. n -> Indices] : n \in 0 .. NumThreads}

(******************************** ViewBase *********************************)

BaseGetMax(s, t) == IF t < Len(s) THEN s[t + 1] ELSE 0
BaseContainsEvent(s, e) == e[2] <= BaseGetMax(s, e[1])
(* Fault: a larger base is compared as far as both go. *)
BaseContainsPrefix(s, r) == \A i \in 1 .. Len(r) : i <= Len(s) => r[i] <= s[i]
BaseContains(s, r) == Len(r) <= Len(s) /\ \A i \in 1 .. Len(r) : r[i] <= s[i]

ZeroesAfter(s, n) == \A i \in n + 1 .. Len(s) : s[i] = 0
Trim(s) == LET n == CHOOSE k \in 0 .. Len(s) : ZeroesAfter(s, k) /\ \A j \in 0 .. k - 1 : ~ZeroesAfter(s, j)
           IN [i \in 1 .. n |-> s[i]]

(* view_.resize() if need be, and the new index. *)
Resized(s, e) == [i \in 1 .. Larger(Len(s), e[1] + 1) |-> IF i = e[1] + 1 THEN e[2] ELSE BaseGetMax(s, i - 1)]
(* Fault: setting the last index to zero leaves the zero there. *)
BaseSetUntrimmed(s, e) == IF e[2] = 0 /\ e[1] >= Len(s) THEN s ELSE Resized(s, e)
BaseSetMax(s, e) ==
    IF e[2] = 0 /\ e[1] >= Len(s) THEN s
    ELSE IF e[2] = 0 /\ e[1] + 1 = Len(s) THEN Trim(Resized(s, e))
    ELSE Resized(s, e)
BaseUpdateIdx(s, e) == IF BaseGetMax(s, e[1]) < e[2] THEN BaseSetMax(s, e) ELSE s
BaseUpdate(s, r) == [i \in 1 .. Larger(Len(s), Len(r)) |-> Larger(BaseGetMax(s, i - 1), BaseGetMax(r, i - 1))]

(********************************** View ***********************************)

Content(b) == IF b = Null THEN <<>> ELSE vec[b]
MaxWithDiff(s, d, t) ==
    IF d # InitEvent /\ d[1] = t THEN Larger(BaseGetMax(s, t), d[2]) ELSE BaseGetMax(s, t)
getMax(x, t) == MaxWithDiff(Content(x.base), x.diff, t)
containsEvent(x, e) == e[2] <= getMax(x, e[1])
contains(x, y) ==
    /\ y.diff = InitEvent \/ y.diff[2] <= getMax(x, y.diff[1])
    /\ \/ y.base = Null
       \/ x.base = y.base
       \/ x.base = Null /\ Content(y.base) = <<>>
       \/ x.base # Null /\ BaseContains(Content(x.base), Content(y.base))

(* Fault: whatever has a base is taken to own it. *)
HasBase(v) == view[v].base # Null
(* base_.use_count() is one. *)
SoleOwner(v) == view[v].base # Null /\ \A w \in Views \ {v} : view[w].base # view[v].base

(* The view v gets the base b, with the contents s, and the diff d.  The    *)
(* base that it had is deleted if nobody else has it.                       *)
Become(v, b, s, d) ==
    /\ view' = [view EXCEPT ![v] = [base |-> b, diff |-> d]]
    /\ vec' = [c \in Bases |-> IF c = b THEN s
                               ELSE IF \E w \in Views \ {v} : view[w].base = c THEN vec[c] ELSE <<>>]

Unused == {b \in Bases : \A w \in Views : view[w].base # b}
hydrate(x) == IF x.diff = InitEvent THEN Content(x.base) ELSE BaseUpdateIdx(Content(x.base), x.diff)

Init == /\ view = [v \in Views |-> [base |-> Null, diff |-> InitEvent]]
        /\ vec = [b \in Bases |-> <<>>]

Clear(v) == Become(v, Null, <<>>, InitEvent)
Copy(v, w) == Become(v, view[w].base, Content(view[w].base), view[w].diff)
(* The moved view loses its base and keeps its diff. *)
Move(v, w) ==
    /\ view' = [view EXCEPT ![v] = view[w], ![w].base = Null]
    /\ vec' = [c \in Bases |-> IF \E u \in Views \ {v} : view[u].base = c THEN vec[c] ELSE <<>>]

UpdateIdx(v, e) ==
    LET x == view[v] IN
    \/ containsEvent(x, e) /\ UNCHANGED vars
    \/ ~containsEvent(x, e) /\ SoleOwner(v) /\ Become(v, x.base, BaseUpdateIdx(vec[x.base], e), x.diff)
    \/ /\ ~containsEvent(x, e) /\ ~SoleOwner(v)
       /\ x.diff = InitEvent \/ x.diff[1] = e[1]
       /\ Become(v, x.base, Content(x.base), e)
    \/ /\ ~containsEvent(x, e) /\ ~SoleOwner(v)
       /\ x.diff # InitEvent /\ x.diff[1] # e[1]
       /\ \E b \in Unused : Become(v, b, BaseUpdateIdx(hydrate(x), e), InitEvent)

(* A sole owner keeps the diff that it may have from when its base was      *)
(* shared, and the diff hides a lower index.  The only callers that lower   *)
(* an index (ContextBoundDecider) do so on copies of a view that setMax     *)
(* filled in, which have no diff when they own their base.                  *)
HidesLower(v, e) == SoleOwner(v) /\ view[v].diff # InitEvent /\ e[2] < getMax(view[v], e[1])
SetMax(v, e) ==
    LET x == view[v]
        fits == /\ x.base = Null \/ ~BaseContainsEvent(Content(x.base), e)
                /\ x.diff = InitEvent \/ x.diff[1] = e[1]
    IN /\ ~HidesLower(v, e)
       /\ \/ SoleOwner(v) /\ Become(v, x.base, BaseSetMax(vec[x.base], e), x.diff)
          \/ ~SoleOwner(v) /\ fits /\ Become(v, x.base, Content(x.base), IF e[2] = 0 THEN InitEvent ELSE e)
          \/ ~SoleOwner(v) /\ ~fits /\ \E b \in Unused : Become(v, b, BaseSetMax(hydrate(x), e), InitEvent)

(* What is in s, the contents of the base b, and in the view y. *)
Merged(s, b, y) ==
    LET r == IF y.base # Null /\ y.base # b THEN BaseUpdate(s, vec[y.base]) ELSE s
    IN IF y.diff # InitEvent THEN BaseUpdateIdx(r, y.diff) ELSE r

(* The bases are the same, or one view has none. *)
Compatible(x, y) == x.base = Null \/ y.base = Null \/ x.base = y.base
(* The diff that stands for both, if there is one. *)
JoinedDiffs(x, y) ==
    CASE x.diff = InitEvent -> {IF x.base # Null /\ ~BaseContainsEvent(Content(x.base), y.diff) THEN y.diff ELSE x.diff}
      [] x.diff # InitEvent /\ y.diff = InitEvent ->
           {IF x.base # Null /\ BaseContainsEvent(Content(x.base), x.diff) THEN InitEvent ELSE x.diff}
      [] x.diff # InitEvent /\ y.diff # InitEvent /\ x.diff[1] = y.diff[1] ->
           {<<x.diff[1], Larger(x.diff[2], y.diff[2])>>}
      [] OTHER -> {}
Update(v, w) ==
    LET x == view[v]
        y == view[w]
        z == IF Compatible(x, y) /\ x.base = Null THEN [x EXCEPT !.base = y.base] ELSE x
        joined == IF Compatible(x, y) THEN JoinedDiffs(z, y) ELSE {}
    IN \/ SoleOwner(v) /\ Become(v, x.base, Merged(vec[x.base], x.base, y), x.diff)
       \/ /\ ~SoleOwner(v) /\ x.base = Null /\ x.diff = InitEvent
          /\ Become(v, y.base, Content(y.base), y.diff)
       \/ /\ ~SoleOwner(v) /\ ~(x.base = Null /\ x.diff = InitEvent)
          /\ \E d \in joined : Become(v, z.base, Content(z.base), d)
       \/ /\ ~SoleOwner(v) /\ ~(x.base = Null /\ x.diff = InitEvent) /\ joined = {}
          /\ contains(z, y)
          /\ Become(v, z.base, Content(z.base), z.diff)
       \/ /\ ~SoleOwner(v) /\ ~(x.base = Null /\ x.diff = InitEvent) /\ joined = {}
          /\ ~contains(z, y)
          /\ \E b \in Unused : Become(v, b, Merged(hydrate(z), b, y), InitEvent)

(* What c can allocate once its last graph is deleted. *)
Available(c) == {b \in Bases : \A w \in Views : w[2] # c => view[w].base # b}
(* viewMap: a new base for every base of the graph's views. *)
PlainBases(d) == {view[<<l, d>>].base : l \in Labels \ DepLabels} \ {Null}
ViewMaps(d, c) == Injection(PlainBases(d), Available(c))
(* Fault: the views are copied with what they point to. *)
keepView(l, x, viewMap) == x
(* The views inside DepViews are left as the copying of labels made them. *)
fixView(l, x, viewMap) ==
    IF x.base = Null \/ l \in DepLabels THEN x ELSE [x EXCEPT !.base = viewMap[x.base]]
(* The driver c gets a clone of the graph of d, and deletes the one it had. *)
Clone(d, c) == \E viewMap \in ViewMaps(d, c) :
    /\ view' = [v \in Views |-> IF v[2] = c THEN fixView(v[1], view[<<v[1], d>>], viewMap) ELSE view[v]]
    /\ vec' = [b \in Bases |-> IF \E a \in PlainBases(d) : viewMap[a] = b
                               THEN vec[CHOOSE a \in PlainBases(d) : viewMap[a] = b]
                               ELSE IF b \in Available(c) THEN <<>> ELSE vec[b]]

(* The views that v can be given: those of the same graph and kind. *)
Kin(v) == {w \in Views : w[2] = v[2] /\ (w[1] \in DepLabels <=> v[1] \in DepLabels)}
(* DepViews have holes besides their view, and only use its setMax(). *)
Next ==
    \/ \E v \in Views :
         \/ Clear(v)
         \/ \E w \in Kin(v) \ {v} : Copy(v, w) \/ Move(v, w)
         \/ \E e \in Events : SetMax(v, e)
         \/ v[1] \notin DepLabels /\ \E e \in Events : UpdateIdx(v, e)
         \/ v[1] \notin DepLabels /\ \E w \in Kin(v) : Update(v, w)
    \/ \E d \in Drivers : \E c \in Drivers \ {d} : Clone(d, c)

Spec == Init /\ [][Next]_vars

(******************************* Properties ********************************)

(* A base has at most one entry for each thread of the program, a diff is   *)
(* one event.                                                               *)
TypeOK == /\ view \in [Views -> [base : Bases \cup {Null}, diff : Events]]
          /\ vec \in [Bases -> Vectors]

(* size() counts the threads up to the last one of which an event was seen: *)
(* no base ends with a zero.  ViewBase::contains() says no to anything that *)
(* is longer, without a look at it.                                         *)
Trimmed(s) == Len(s) > 0 => s[Len(s)] # 0
BasesTrimmed == \A b \in Bases : Trimmed(vec[b])

(* A ViewBase and its reference count are not protected by anything: "all   *)
(* pointers to an object are owned by a single thread" (Rc.hpp).            *)
OwnedByOneThread ==
    \A v, w \in Views : view[v].base # Null /\ view[w].base = view[v].base => w[2] = v[2]

(* If contains() says that a view contains another one, it does, whichever  *)
(* of the shortcuts for shared bases and for diffs said so.                 *)
ContainsSound ==
    \A v, w \in Views : contains(view[v], view[w]) => \A t \in Threads : getMax(view[w], t) <= getMax(view[v], t)

(* Sharing is invisible: every view is a map of its own from threads to     *)
(* indices, as if all of it were copied each time, and update(), updateIdx()*)
(* and setMax() do what they say to it.                                     *)
Clock == [v \in Views |-> [t \in Threads |-> getMax(view[v], t)]]
Contract == INSTANCE ViewContract WITH clock <- Clock
ImplementsContract == Contract!Spec
=============================================================================
