--------------------------- MODULE ExecutionGraph ---------------------------
(***************************************************************************)
(* Execution graphs (genmc/Execution/ExecutionGraph, EventLabel and        *)
(* GraphUtils), as pure operators: an update takes a graph and returns the *)
(* new one.                                                                *)
(*                                                                         *)
(* A graph is a record with                                                *)
(*   stamp  the place of each position in the insertion order;             *)
(*   lab    the label at each position;                                    *)
(*   co     the coherence order of each location;                          *)
(*   lin    the linearization edges from method ends to method begins.     *)
(* A position is <<thread, index>>; index 0 is the thread's start.  The    *)
(* readers list of a write and the create and join pointers are derived    *)
(* from the labels.                                                        *)
(* A view (VectorClock) is the set of the positions it contains, without   *)
(* the thread starts: every view contains those.  The views of a model     *)
(* that tracks dependencies have holes (DepView): an event may be in them  *)
(* without those before it.  A graph is then cut out of program order, and *)
(* a hole (EmptyLabel) keeps the place of an event that is to be added     *)
(* again (DepExecutionGraph).                                              *)
(***************************************************************************)
EXTENDS Naturals, Sequences, FiniteSets, SequencesExt

CONSTANT Locs  \* the shared memory locations; all of them start with value 0

InitEvent == <<0, 0>>  \* the position of the initializer
Bottom == <<>>         \* a null reads-from pointer

(* An instruction, seen by the graph.  annot is the value that the assume() *)
(* following a load asks for (the load's annotation), or NoAnnot; mo is the *)
(* memory ordering: na, rlx, acq, rel, acqrel or sc; byAddr tells that the  *)
(* address is computed from the last load.                                  *)
NoAnnot == 99
Instr(op, loc, val, exp, annot, mo) ==
    [op |-> op, loc |-> loc, val |-> val, exp |-> exp, annot |-> annot, mo |-> mo, byAddr |-> FALSE]
NoInstr == Instr("", "", 0, 0, NoAnnot, "na")

(* What an event depends on: the reads its address, its data and the        *)
(* branches before it were computed from.                                   *)
NoDeps == [addr |-> {}, data |-> {}, ctrl |-> {}]

(* A fresh label is revisitable and counts as added maximally.  typ is one  *)
(* of INIT, TS (thread start), R, W, F (fence), TC (thread create), TJ      *)
(* (join), TF (finish), B (block), M (malloc), D (free), RET (retire), HP   *)
(* (protect), MB and ME (method begin and end) and E (a hole).  ip is the   *)
(* instruction the label belongs to, ins that instruction; wwRacy is the    *)
(* attribute of a write that was unordered with another one; views are the  *)
(* memory model's views and prefix the prefix view.                         *)
NewLabel(pos, typ, ip, ins, val) ==
    [pos |-> pos, typ |-> typ, ip |-> ip, ins |-> ins, val |-> val, deps |-> NoDeps,
     rf |-> Bottom, createId |-> InitEvent,
     addedMax |-> TRUE, revisitable |-> TRUE, wwRacy |-> FALSE,
     views |-> <<{}, {}, {}>>, prefix |-> {}]

(* The start of thread t, which runs fn. *)
ThreadStartLabel(t, fn, createId) ==
    [NewLabel(<<t, 0>>, "TS", 0, NoInstr, fn) EXCEPT !.createId = createId]

createHoleLabel(pos) == NewLabel(pos, "E", 0, NoInstr, 0)

EmptyGraph == [stamp |-> [e \in {InitEvent} |-> 0],
               lab |-> [e \in {InitEvent} |-> NewLabel(InitEvent, "INIT", 0, NoInstr, 0)],
               co |-> [l \in Locs |-> <<>>],
               lin |-> {}]

Events(g) == DOMAIN g.lab
Stamp(g, e) == g.stamp[e]
Newest(g) == CHOOSE e \in Events(g) : \A d \in Events(g) : Stamp(g, d) <= Stamp(g, e)
OfType(g, types) == {e \in Events(g) : g.lab[e].typ \in types}
Reads(g) == OfType(g, {"R"})
Writes(g) == OfType(g, {"W"})
ThreadIds(g) == {e[1] : e \in {d \in Events(g) : d[2] = 0}}
ThreadEvents(g, t) == {e \in Events(g) : e[1] = t}
LastIndex(g, t) == Cardinality(ThreadEvents(g, t)) - 1
LastLabel(g, t) == g.lab[<<t, LastIndex(g, t)>>]
(* The highest index a view contains of a thread. *)
MaxIn(v, t) == Max({0} \cup {e[2] : e \in {d \in v : d[1] = t}})
Loc(g, e) == g.lab[e].ins.loc

(* The memory ordering of a label. *)
Ordering(l) == CASE l.typ \in {"R", "W", "F"} -> l.ins.mo
                 [] l.typ \in {"TC", "TF", "HP"} -> "rel"
                 [] l.typ \in {"INIT", "TS", "TJ"} -> "acq"
                 [] OTHER -> "na"
isAtLeastAcquire(l) == Ordering(l) \in {"acq", "acqrel", "sc"}
isAtLeastRelease(l) == Ordering(l) \in {"rel", "acqrel", "sc"}
isSC(l) == Ordering(l) = "sc"
isNotAtomic(l) == Ordering(l) = "na"

(* VectorClock::contains; View::updateIdx, whose events have no holes. *)
InView(v, e) == e[2] = 0 \/ e \in v
UpTo(e) == {<<e[1], i>> : i \in 1 .. e[2]}

(*************************** Derived relations *****************************)

po_imm_succ(g, e) == {<<e[1], e[2] + 1>>} \cap Events(g)
po_imm_pred(g, e) == IF e[2] = 0 THEN {} ELSE {<<e[1], e[2] - 1>>} \cap Events(g)
po_preds(g, e) == {d \in Events(g) : d[1] = e[1] /\ d[2] < e[2]}

Creator(g, t) == {e \in {g.lab[<<t, 0>>].createId} \cap Events(g) : g.lab[e].typ = "TC"}
Finish(g, t) == {e \in {<<t, LastIndex(g, t)>>} \cap Events(g) : g.lab[e].typ = "TF"}
tc_pred(g, e) == IF g.lab[e].typ = "TS" THEN Creator(g, e[1]) ELSE {}
tc_succ(g, e) == IF g.lab[e].typ = "TC" THEN {<<g.lab[e].val, 0>>} ELSE {}
tj_pred(g, e) == IF g.lab[e].typ = "TJ" THEN Finish(g, g.lab[e].val) ELSE {}
tj_succ(g, e) == IF g.lab[e].typ = "TF" THEN {j \in OfType(g, {"TJ"}) : g.lab[j].val = e[1]} ELSE {}
lin_preds(g, e) == {d \in Events(g) : <<d, e>> \in g.lin}
lin_succs(g, e) == {d \in Events(g) : <<e, d>> \in g.lin}

readers(g, w, loc) == {r \in Reads(g) : g.lab[r].rf = w /\ Loc(g, r) = loc}
rf_pred(g, e) == {g.lab[e].rf} \ {Bottom}
rf_succs(g, e) == IF g.lab[e].typ = "W" THEN readers(g, e, Loc(g, e)) ELSE {}
rfe_succs(g, e) == {r \in rf_succs(g, e) : r[1] # e[1]}
rfe_pred(g, e) == {w \in rf_pred(g, e) : w # InitEvent /\ w[1] # e[1]}
rfi_pred(g, e) == rf_pred(g, e) \ rfe_pred(g, e)

co_max(g, loc) == IF g.co[loc] = <<>> THEN InitEvent ELSE Last(g.co[loc])
CoIndex(g, w, loc) == IF w = InitEvent THEN 0 ELSE CHOOSE i \in DOMAIN g.co[loc] : g.co[loc][i] = w
co_succs(g, w, loc) == SubSeq(g.co[loc], CoIndex(g, w, loc) + 1, Len(g.co[loc]))
CoBefore(g, w) == LET i == CoIndex(g, w, Loc(g, w))
                  IN IF i = 1 THEN InitEvent ELSE g.co[Loc(g, w)][i - 1]
FirstOf(s) == IF s = <<>> THEN {} ELSE {Head(s)}
InCo(g, e) == g.lab[e].typ = "W" /\ e \in ToSet(g.co[Loc(g, e)])
co_imm_pred(g, e) == IF InCo(g, e) THEN {CoBefore(g, e)} \ {InitEvent} ELSE {}
co_imm_succ(g, e) == IF InCo(g, e) THEN FirstOf(co_succs(g, e, Loc(g, e))) ELSE {}
fr_imm_succ(g, e) == IF g.lab[e].typ = "R" /\ g.lab[e].rf # Bottom
                     THEN FirstOf(co_succs(g, g.lab[e].rf, Loc(g, e))) ELSE {}
fr_imm_preds(g, e) == IF InCo(g, e) THEN readers(g, CoBefore(g, e), Loc(g, e)) ELSE {}

(* The accesses of a location; the one before e in its thread; the earlier  *)
(* stores of its thread that a read could have read instead.                *)
IsAccess(g, e) == g.lab[e].typ \in {"R", "W"}
isSameLoc(g, d, e) == IsAccess(g, d) /\ IsAccess(g, e) /\ Loc(g, d) = Loc(g, e)
samelocs(g, e) == {d \in Events(g) \ {e} : isSameLoc(g, d, e)}
poloc_imm_pred(g, e) ==
    LET preds == {d \in po_preds(g, e) : isSameLoc(g, d, e)}
    IN {d \in preds : \A c \in preds : c[2] <= d[2]}
detour_preds(g, e) ==
    IF g.lab[e].typ # "R" THEN {}
    ELSE {d \in po_preds(g, e) : isSameLoc(g, d, e) /\ g.lab[d].typ = "W" /\ d # g.lab[e].rf}
isDependable(l) == l.typ \in {"R", "M"}

ValueOf(g, w) == IF w = InitEvent THEN 0 ELSE g.lab[w].val
ReadValue(g, r) == ValueOf(g, g.lab[r].rf)

IsRMWOp(ins) == ins.op \in {"FAI", "CAS", "LOCK"}
IsRMWWrite(g, w) == g.lab[w].typ = "W" /\ IsRMWOp(g.lab[w].ins)
valueMakesRMWSucceed(g, r, v) ==
    \/ g.lab[r].ins.op = "FAI"
    \/ g.lab[r].ins.op \in {"CAS", "LOCK"} /\ v = g.lab[r].ins.exp
IsRMWRead(g, r) == /\ g.lab[r].typ = "R" /\ IsRMWOp(g.lab[r].ins)
                   /\ \E w \in po_imm_succ(g, r) : g.lab[w].typ = "W" /\ g.lab[w].ip = g.lab[r].ip
(* An abstract lock acquire (AbstractLockCasReadLabel) synchronizes with    *)
(* nothing as far as a linearizability specification is concerned.          *)
IsLockRead(g, r) == g.lab[r].typ = "R" /\ g.lab[r].ins.op = "LOCK"

isBlocked(g) == OfType(g, {"B"}) # {}

(* A stable read can no longer be revisited. *)
isStable(g, r) == ~g.lab[r].revisitable \/ ~g.lab[r].addedMax

(* The writes of the other RMWs that read from the same store as the read   *)
(* of the RMW that s belongs to.  (findPendingRMW returns the oldest one.)  *)
PendingRMWs(g, s) ==
    IF ~IsRMWWrite(g, s) THEN {}
    ELSE LET p == <<s[1], s[2] - 1>>
         IN {<<r[1], r[2] + 1>> : r \in {q \in readers(g, g.lab[p].rf, Loc(g, s)) \ {p} : IsRMWRead(g, q)}}
(* Fault: conflicts go unnoticed. *)
violatesNothing(g, s) == FALSE
violatesAtomicity(g, s) == PendingRMWs(g, s) # {}

getViewFromStamp(g, stamp) == {e \in Events(g) : e[2] > 0 /\ Stamp(g, e) <= stamp}

(********************************* Updates *********************************)

(* What a sequence has of a set, in the same order. *)
Kept(s, T) ==
    LET I == {i \in DOMAIN s : s[i] \in T}
    IN [k \in 1 .. Cardinality(I) |-> s[CHOOSE i \in I : Cardinality({j \in I : j < i}) = k - 1]]

(* The events of a set, the ones added last first. *)
NewestFirst(g, S) ==
    [k \in 1 .. Cardinality(S) |->
        CHOOSE e \in S : Cardinality({d \in S : Stamp(g, d) > Stamp(g, e)}) = k - 1]

(* The stamps of what is kept of a graph: they are consecutive again. *)
Restamped(g, kept) ==
    IF kept = Events(g) THEN g.stamp
    ELSE [e \in kept |-> Cardinality({d \in kept : Stamp(g, d) < Stamp(g, e)})]

(* A label goes to the end of its thread, or takes the place of a hole. *)
WithLabel(g, l) == [e \in Events(g) \cup {l.pos} |-> IF e = l.pos THEN l ELSE g.lab[e]]
add(g, l) ==
    LET others == Events(g) \ {l.pos}
        stamps == Restamped(g, others)
    IN [g EXCEPT !.stamp = [e \in Events(g) \cup {l.pos} |->
                              IF e = l.pos THEN Cardinality(others) ELSE stamps[e]],
                 !.lab = WithLabel(g, l)]

setRf(g, r, w) ==
    [g EXCEPT !.lab[r].rf = w, !.lab[r].addedMax = (w = co_max(g, Loc(g, r)))]

addCo(g, w, pred) ==
    [g EXCEPT !.co[Loc(g, w)] = InsertAt(@, CoIndex(g, pred, Loc(g, w)) + 1, w)]

moveCo(g, w, pred) ==
    LET h == addCo([g EXCEPT !.co[Loc(g, w)] = RemoveAt(@, CoIndex(g, w, Loc(g, w)))], w, pred)
    IN [h EXCEPT !.lab[w].addedMax = (w = co_max(h, Loc(h, w)))]

(* What a view leaves out below the last event that it keeps of a thread. *)
Holes(g, v) == {e \in Events(g) \ v : e[2] > 0 /\ \E d \in v : d[1] = e[1] /\ d[2] > e[2]}

(* The begins that go with the rest: of the last threads, the ones that     *)
(* have no other event left, those whose creation is gone.                  *)
OrphanedBegins(g, places, kept) ==
    {t \in ThreadIds(g) \ {0} : /\ \A u \in ThreadIds(g) : u >= t => <<u, 1>> \notin places
                                /\ g.lab[<<t, 0>>].createId \notin kept}

(* What is left of a graph without some threads: the events of a view.      *)
Left(g, v, orphans) == {e \in Events(g) : IF e[2] = 0 THEN e[1] \notin orphans ELSE e \in v}

(* Keep some labels, holes in between.  A read whose store goes reads from  *)
(* bottom.  Flags and views of what is kept do not change.                  *)
KeepLabels(g, v, kept, holes, stamps) ==
    [stamp |-> stamps,
     lab |-> [e \in kept \cup holes |->
                IF e \in holes THEN createHoleLabel(e)
                ELSE IF g.lab[e].rf = Bottom \/ InView(v, g.lab[e].rf) THEN g.lab[e]
                ELSE [g.lab[e] EXCEPT !.rf = Bottom]],
     co |-> [l \in Locs |-> Kept(g.co[l], kept)],
     lin |-> {p \in g.lin : p[1] \in kept /\ p[2] \in kept}]

(* Cutting puts the holes last in the insertion order; in a copy they are   *)
(* where the events were.                                                   *)
Before(d, e) == d[1] < e[1] \/ (d[1] = e[1] /\ d[2] < e[2])
CutTo(g, v, holes, orphans) ==
    LET kept == Left(g, v, orphans)
        stamps == Restamped(g, kept)
    IN KeepLabels(g, v, kept, holes,
                  [e \in kept \cup holes |->
                      IF e \in holes THEN Cardinality(kept) + Cardinality({d \in holes : Before(d, e)})
                      ELSE stamps[e]])
cutToStamp(g, stamp) ==
    LET v == getViewFromStamp(g, stamp)
        holes == Holes(g, v)
    IN CutTo(g, v, holes, OrphanedBegins(g, v \cup holes, v))

CopyUpTo(g, v, holes, orphans) ==
    LET kept == Left(g, v, orphans) IN KeepLabels(g, v, kept, holes, Restamped(g, kept \cup holes))
getCopyUpTo(g, v) ==
    LET holes == Holes(g, v) IN CopyUpTo(g, v, holes, OrphanedBegins(g, v \cup holes, v \cup holes))

(* Some threads lose their last label.  (Only block labels are removed.)    *)
removeLast(g, threads) ==
    LET kept == Events(g) \ {<<t, LastIndex(g, t)>> : t \in threads}
    IN [g EXCEPT !.stamp = Restamped(g, kept), !.lab = [e \in kept |-> g.lab[e]]]

(* A block label goes in and out of the graph without further effects. *)
blockThread(g, t, ip, ins, val) ==
    add(g, NewLabel(<<t, LastIndex(g, t) + 1>>, "B", ip, ins, val))
unblockThreads(g, threads) == removeLast(g, threads)
=============================================================================
