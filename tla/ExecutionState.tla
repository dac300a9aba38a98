--------------------------- MODULE ExecutionState ---------------------------
(***************************************************************************)
(* What the driver remembers about memory while an execution runs          *)
(* (genmc/Execution/ExecutionState, genmc/ADT/AdaptiveView): allocations   *)
(* and frees, the first store of a location, the last accesses by kind for *)
(* race detection, and hazard pointers.  It is updated as events are added *)
(* and rebuilt from the graph when an execution starts on a graph that has *)
(* events already.                                                         *)
(*                                                                         *)
(* The last accesses are kept per location as a set of events (an          *)
(* AdaptiveView): an access replaces the events that it knows of.  Of the  *)
(* non-atomic writes only the last one is kept.                            *)
(***************************************************************************)
EXTENDS ExecutionGraph

CONSTANT DynLocs  \* the locations that malloc() provides; the others are static

NoLoc == ""

(* The first check that fails, of some <<holds, error>>. *)
NoError == "none"
FirstError(checks) ==
    LET failed == SelectSeq(checks, LAMBDA c : ~c[1]) IN IF failed = <<>> THEN NoError ELSE failed[1][2]

clear == [alloc |-> <<>>,                     \* allocInfoMap_: what was allocated
          init |-> [l \in Locs |-> {}],       \* initialized_: who wrote it first
          naR |-> [l \in Locs |-> {}],        \* lastNAReadView_
          naW |-> [l \in Locs |-> {}],        \* lastNAWriteEvent_
          atR |-> [l \in Locs |-> {}],        \* lastAReadView_
          atW |-> [l \in Locs |-> {}],        \* lastAWriteView_
          unprot |-> [l \in Locs |-> {}],     \* lastUnprotectedAccess_
          hp |-> [l \in Locs |-> NoLoc]]      \* hpProtectMap_: what a location protects

(* AdaptiveView::operator+=: e, and what its view does not contain. *)
(* Fault: e replaces everything that was known. *)
JoinLast(v, e, view) == {e}
Join(v, e, view) == {d \in v : ~InView(view, d)} \cup {e}

isAllocated(st, l) == l \in DOMAIN st.alloc
isInitialized(st, l) == st.init[l] # {}
Freed(st, l) == isAllocated(st, l) /\ st.alloc[l].freePos # Bottom
isRetired(st, l) == Freed(st, l) /\ st.alloc[l].isRetire
(* ExecutionGraph::free(): there is a free of l, and it is not retired. *)
free(st, l) == Freed(st, l) /\ ~st.alloc[l].isRetire

(* Some location protects l (hpProtectCount_ is positive). *)
isProtected(st, l) == \E h \in Locs : st.hp[h] = l

RecordUnprotected(st, l, e, view) ==
    IF isProtected(st, l) THEN st ELSE [st EXCEPT !.unprot[l] = Join(@, e, view)]
markInitialized(st, l, e) == IF isInitialized(st, l) THEN st ELSE [st EXCEPT !.init[l] = {e}]

onNALoad(st, e, l, view) == RecordUnprotected([st EXCEPT !.naR[l] = Join(@, e, view)], l, e, view)
onATLoad(st, e, l, view) == RecordUnprotected([st EXCEPT !.atR[l] = Join(@, e, view)], l, e, view)
onNAStore(st, e, l, view) ==
    RecordUnprotected([markInitialized(st, l, e) EXCEPT !.naW[l] = {e}], l, e, view)
(* Storing to a hazard pointer ends its protection. *)
onATStore(st, e, l, view) ==
    [markInitialized(RecordUnprotected([st EXCEPT !.atW[l] = Join(@, e, view)], l, e, view), l, e)
       EXCEPT !.hp[l] = NoLoc]
onAlloc(st, e, l) ==
    [st EXCEPT !.alloc = [k \in DOMAIN @ \cup {l} |->
                            IF k = l THEN [pos |-> e, freePos |-> Bottom, isRetire |-> FALSE] ELSE @[k]]]
onFree(st, e, l, isRetire) ==
    [st EXCEPT !.alloc[l].freePos = e, !.alloc[l].isRetire = isRetire, !.hp[l] = NoLoc]
onProtect(st, h, l) == [st EXCEPT !.hp[h] = l]

(* What the event e of a graph, with the happens-before view hb, does. *)
Notify(st, g, e, hb) ==
    LET l == g.lab[e]
        na == isNotAtomic(l)
    IN CASE l.typ = "R" /\ na -> onNALoad(st, e, l.ins.loc, hb)
         [] l.typ = "R" /\ ~na -> onATLoad(st, e, l.ins.loc, hb)
         [] l.typ = "W" /\ na -> onNAStore(st, e, l.ins.loc, hb)
         [] l.typ = "W" /\ ~na -> onATStore(st, e, l.ins.loc, hb)
         [] l.typ = "M" -> onAlloc(st, e, l.ins.loc)
         [] l.typ \in {"D", "RET"} -> onFree(st, e, l.ins.loc, l.typ = "RET")
         [] l.typ = "HP" -> onProtect(st, l.ins.loc, l.ins.val)
         [] OTHER -> st

(* The events of a graph, thread by thread, each one after what it needs:   *)
(* the store it reads from, the end of a thread it joins, the creation of   *)
(* its thread, unless these are on their way already.  frames is the stack  *)
(* of the events that are left of each thread that was entered.             *)
NeededFor(g, e) == rf_pred(g, e) \cup tj_pred(g, e) \cup tc_pred(g, e)
Enter(s, goal) ==
    LET new == {<<goal[1], i>> : i \in 0 .. goal[2]} \ s.marked
    IN [s EXCEPT !.frames = Append(@, SetToSortSeq(new, LAMBDA a, b : a[2] < b[2])),
                 !.marked = @ \cup new]
ReachNext(g, s, rest) ==
    LET first == NeededFor(g, Head(rest)) \ s.marked
    IN IF first # {} THEN Enter(s, CHOOSE e \in first : TRUE)
       ELSE [s EXCEPT !.order = Append(@, Head(rest)), !.frames = Append(Front(@), Tail(rest))]
Reach(g, s) ==
    IF s.frames = <<>>
    THEN IF s.threads = <<>> THEN s
         ELSE Enter([s EXCEPT !.threads = Tail(@)], LastLabel(g, Head(s.threads)).pos)
    ELSE IF Last(s.frames) = <<>> THEN [s EXCEPT !.frames = Front(@)]
    ELSE ReachNext(g, s, Last(s.frames))
ReplayOrder(g) ==
    LET start == [threads |-> SetToSortSeq(ThreadIds(g), <), frames |-> <<>>,
                  order |-> <<>>, marked |-> {InitEvent}]
    IN FoldLeft(LAMBDA s, i : Reach(g, s), start, [i \in 1 .. 4 * Cardinality(Events(g)) |-> i]).order
=============================================================================
