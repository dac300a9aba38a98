--------------------------- MODULE GraphInvariant ---------------------------
(***************************************************************************)
(* What holds of the executions on the stack at every step, strong enough  *)
(* to be inductive.  The program p is a parameter, so that all of this is  *)
(* about constants.                                                        *)
(***************************************************************************)
EXTENDS GenMCDriver, Coherence

(****************************** Assumptions ********************************)

(* A checker of a memory model that does not track dependencies: its        *)
(* prefix, coherent stores, placings and revisits are those of Coherence,   *)
(* hb being the view that holds happens-before.  It warns of writes only.   *)
CheckerOK ==
    /\ ~DepTracking
    /\ \A g, e : CalculatePrefixView(g, e) = PrefixOf(g, e)
    /\ \A g, st, e, seen : CheckWarnings(g, st, e, seen) # {} => g.lab[e].typ = "W"
    /\ \E hb : /\ \A g, r : GetCoherentStores(g, r) = CoherentStores(g, r, hb, FALSE)
               /\ \A g, w : GetCoherentPlacings(g, w) = CoherentPlacings(g, w, hb, FALSE)
               /\ \A g, s, loads : FilterCoherentRevisits(g, s, loads) = CoherentRevisits(g, s, loads, hb, FALSE)

(* A program: accesses have a location, RMWs are atomic, main creates all   *)
(* threads, and the assume() of an annotated load comes right after it.     *)
(* Loads that may be revisited in place are atomic.                         *)
AccessOps == {"R", "W", "COPY", "FAI", "CAS"}
LoadOps == {"R", "FAI", "CAS"}
IsAtomicLoad(ins) == ins.op \in LoadOps => ins.mo # "na"
ProgramOK(p) ==
    /\ p # <<>> /\ Len(p) \in Nat /\ DOMAIN p = 1 .. Len(p)
    /\ \A f \in DOMAIN p :
          /\ Len(p[f]) \in Nat /\ DOMAIN p[f] = 1 .. Len(p[f])
          /\ \A i \in DOMAIN p[f] :
                LET ins == p[f][i]
                IN /\ ins.op # "FINISH"
                   /\ ins.op \in AccessOps => ins.loc \in Locs
                   /\ ins.op \in {"FAI", "CAS"} => ins.mo # "na"
                   /\ ins.op = "CREATE" => f = 1 /\ ins.val \in 1 .. Len(p) - 1
                   /\ ins.op = "R" /\ ins.annot # NoAnnot =>
                         /\ i < Len(p[f])
                         /\ p[f][i + 1].op = "ASSUME" /\ p[f][i + 1].exp = ins.annot
                         /\ Ipr => ins.mo # "na"
AtomicLoads(p) == \A f \in DOMAIN p : \A i \in DOMAIN p[f] : IsAtomicLoad(p[f][i])

(********************************* Graphs **********************************)

(* The fields of a label, the types of events, the last event of a thread,  *)
(* the event after another.                                                 *)
LabelFields == DOMAIN NewLabel(InitEvent, "INIT", 0, NoInstr, 0)
EventTypes == {"INIT", "TS", "R", "W", "F", "TC", "TJ", "TF", "B", "M", "D", "RET", "HP", "MB", "ME"}
IsLast(g, e) == \A d \in Events(g) : d[1] = e[1] => d[2] <= e[2]
NextOf(e) == <<e[1], e[2] + 1>>
(* The events of threads are at most as young as c. *)
Youngest(g, c) == c \in Events(g) /\ \A e \in Events(g) : e[2] > 0 => Stamp(g, e) <= Stamp(g, c)

(* A graph is a finite set of labelled events and has the initializer. *)
Shape(g) ==
    /\ DOMAIN g = {"stamp", "lab", "co", "lin"}
    /\ IsFiniteSet(Events(g)) /\ Events(g) \subseteq Nat \X Nat
    /\ \A e \in Events(g) : DOMAIN g.lab[e] = LabelFields
    /\ InitEvent \in Events(g)

(* Stamps are distinct and smaller than the number of events. *)
Stamps(g) ==
    /\ g.stamp \in [Events(g) -> Nat]
    /\ \A d, e \in Events(g) : Stamp(g, d) = Stamp(g, e) => d = e
    /\ \A e \in Events(g) : Stamp(g, e) < Cardinality(Events(g))

(* Threads have no gaps, and stamps go up in program order. *)
PoOrder(g) ==
    \A e \in Events(g) : \A i \in 0 .. e[2] - 1 :
        <<e[1], i>> \in Events(g) /\ Stamp(g, <<e[1], i>>) < Stamp(g, e)

(* Threads begin with their start. Blocks and finishes are last in their    *)
(* thread.                                                                  *)
Kinds(g) ==
    \A e \in Events(g) :
        /\ g.lab[e].typ \in EventTypes
        /\ g.lab[e].typ = "INIT" <=> e = InitEvent
        /\ e[2] = 0 <=> g.lab[e].typ \in {"INIT", "TS"}
        /\ g.lab[e].typ \in {"B", "TF"} => IsLast(g, e)

(* Thread ids have no gaps. Every thread but main was created by main, in   *)
(* the order of the ids, before it started.                                 *)
CreateId(g, t) == g.lab[<<t, 0>>].createId
Threads(p, g) ==
    /\ \A e \in Events(g) : \A t \in 0 .. e[1] : <<t, 0>> \in Events(g)
    /\ \A t \in ThreadIds(g) \ {0} :
          /\ CreateId(g, t) \in Events(g) /\ CreateId(g, t)[1] = 0
          /\ g.lab[CreateId(g, t)].typ = "TC"
          /\ Stamp(g, CreateId(g, t)) < Stamp(g, <<t, 0>>)
          /\ g.lab[<<t, 0>>].val \in 1 .. Len(p) - 1
          /\ \A u \in ThreadIds(g) \ {0} : t < u => CreateId(g, t)[2] < CreateId(g, u)[2]
    /\ g.lab[InitEvent].val = 0 /\ g.lab[InitEvent].prefix = {}

(* Accesses have a location, and a load is where the program has it. *)
CodeOf(p, g, t) == p[g.lab[<<t, 0>>].val + 1]
Texts(p, g) ==
    \A e \in Events(g) :
        LET l == g.lab[e]
        IN /\ l.ip \in Nat
           /\ l.typ \in {"R", "W"} => l.ins.loc \in Locs
           /\ l.typ = "R" => /\ l.ip \in DOMAIN CodeOf(p, g, e[1]) /\ l.ins = CodeOf(p, g, e[1])[l.ip]
                             /\ l.ins.op \in LoadOps

(* The coherence of a location lists writes to it, each one once. (A write  *)
(* is in no list until it is placed.)                                       *)
CoherenceOK(g) ==
    /\ g.co \in [Locs -> Seq(Events(g))]
    /\ \A l \in Locs : /\ \A w \in ToSet(g.co[l]) : g.lab[w].typ = "W" /\ Loc(g, w) = l
                       /\ \A i, j \in DOMAIN g.co[l] : g.co[l][i] = g.co[l][j] => i = j

(* A read has no store, the initializer or a store of its location. *)
ReadsFrom(g) ==
    \A e \in Events(g) :
        IF g.lab[e].typ = "R" THEN g.lab[e].rf \in {Bottom, InitEvent} \cup ToSet(g.co[Loc(g, e)])
        ELSE g.lab[e].rf = Bottom

(* What comes after a read in its thread was added after the store it reads. *)
StoreFirst(g) ==
    \A r \in Reads(g) : g.lab[r].rf # Bottom =>
        \A e \in Events(g) : e[1] = r[1] /\ e[2] > r[2] => Stamp(g, g.lab[r].rf) < Stamp(g, e)

(* The prefix of an event, with the events of its thread: it is closed, it  *)
(* has no blocks and no begins, a read in it has a successor in it, and it  *)
(* is older than the event or came with its store.                          *)
FullPrefix(g, e) == g.lab[e].prefix \cup UpTo(e)
PrefixOK(g, e) ==
    LET P == FullPrefix(g, e)
        rf == g.lab[e].rf
    IN /\ P \subseteq Events(g)
       /\ \A d \in P :
             /\ d[2] > 0 /\ g.lab[d].typ # "B"
             /\ FullPrefix(g, d) \subseteq P
             /\ g.lab[d].typ = "R" /\ d # e => <<d[1], d[2] + 1>> \in P
             /\ \/ Stamp(g, d) <= Stamp(g, e)
                \/ rf \notin {Bottom, InitEvent} /\ rf \in P /\ d \in FullPrefix(g, rf)
       /\ e[1] > 0 => CreateId(g, e[1]) \in P
       /\ e[1] > 0 /\ e[2] = 0 => P \subseteq FullPrefix(g, CreateId(g, e[1]))
       /\ g.lab[e].typ = "R" /\ g.lab[e].ins.mo # "na" /\ rf \notin {Bottom, InitEvent} => rf \in P
PrefixesOK(g, X) ==
    /\ \A e \in Events(g) \ X : g.lab[e].typ # "B" => PrefixOK(g, e)
    /\ \A e \in Events(g) : g.lab[e].typ \in {"R", "W", "TC", "TF"} => UpTo(e) \subseteq g.lab[e].prefix

(* With in-place revisits: a read whose value fails its assume() has        *)
(* nothing but a block after it.                                            *)
Blocked(g) ==
    Ipr => \A r \in Reads(g) : g.lab[r].rf # Bottom /\ ReadBlocks(g, r) =>
               \A e \in Events(g) : e[1] = r[1] /\ e[2] > r[2] => g.lab[e].typ = "B"

(* No thread waits for one that has finished. *)
Joins(g) ==
    \A b, f \in Events(g) : g.lab[b].typ = "B" /\ g.lab[b].ins.op = "JOIN" /\ g.lab[f].typ = "TF"
                              => g.lab[b].val # f[1]

(* The invariant of a graph.  X are reads that lost their store, whose      *)
(* prefixes are to be computed again.                                       *)
GraphOK(p, g, X) ==
    /\ Shape(g) /\ Stamps(g) /\ PoOrder(g) /\ Kinds(g) /\ Threads(p, g) /\ Texts(p, g)
    /\ CoherenceOK(g) /\ ReadsFrom(g) /\ StoreFirst(g) /\ PrefixesOK(g, X) /\ Blocked(g)

(* Atomic loads have a store. *)
NoDangling(g) == \A r \in Reads(g) : g.lab[r].ins.mo # "na" => g.lab[r].rf # Bottom

(******************************* Executions ********************************)

(* An item refers to events that its cut leaves: not to begins, which stay, *)
(* nor to blocks, which come and go.  A forward revisit has another store   *)
(* of the location, a backward revisit one whose prefix does not have the   *)
(* read.  Warnings are about writes.                                        *)
IsSeq(s) == s \in Seq(ToSet(s))
ItemKinds == {"RF", "CO", "BR", "WARN", "ERROR"}
StoresOf(g, e) == {InitEvent} \cup ToSet(g.co[Loc(g, e)])
ItemOK(g, item) ==
    LET pos == item.pos
        rev == item.rev
    IN /\ item.kind \in ItemKinds
       /\ item.kind = "ERROR" => item.err # NoError
       /\ item.kind = "WARN" => g.lab[pos].typ = "W"
       /\ {pos, rev} \subseteq Events(g)
       /\ pos[2] > 0 /\ g.lab[pos].typ # "B"
       /\ Stamp(g, pos) <= Stamp(g, CutEvent(item))
       /\ rev = InitEvent \/ (rev[2] > 0 /\ g.lab[rev].typ # "B" /\ Stamp(g, rev) <= Stamp(g, CutEvent(item)))
       /\ item.kind = "RF" => g.lab[pos].typ = "R" /\ rev \in StoresOf(g, pos)
       /\ item.kind = "CO" => g.lab[pos].typ = "W" /\ pos \in StoresOf(g, pos) /\ rev \in StoresOf(g, pos) \ {pos}
       /\ item.kind = "BR" => /\ g.lab[pos].typ = "R" /\ rev \in ToSet(g.co[Loc(g, pos)])
                              /\ pos \notin FullPrefix(g, rev)
(* Items are sorted by the stamps of the events at which they cut. *)
ItemsOK(g, items) ==
    /\ IsSeq(items)
    /\ \A j \in DOMAIN items : ItemOK(g, items[j])
    /\ \A j \in DOMAIN items : \A k \in 1 .. j : Stamp(g, CutEvent(items[k])) <= Stamp(g, CutEvent(items[j]))
(* The invariant of an execution. *)
ExecOK(p, x) ==
    /\ DOMAIN x = {"graph", "workqueue"}
    /\ GraphOK(p, x.graph, {}) /\ Joins(x.graph)
    /\ ItemsOK(x.graph, x.workqueue)

(* The execution stack: executions below the top are waiting. *)
StackOK(p, stack) ==
    /\ IsSeq(stack)
    /\ \A i \in DOMAIN stack : ExecOK(p, stack[i])
    /\ \A i \in DOMAIN stack : i < Len(stack) => NoDangling(stack[i].graph)

(* The invariant of the driver (GenMCDriver): types; every execution on the *)
(* stack is right, and ready to go on if it is not the top one; while the   *)
(* driver works, no atomic load of the top execution lacks a store unless   *)
(* the execution ends with an error.                                        *)
DriverInv ==
    /\ TypeOK
    /\ DOMAIN result = {"explored", "exploredBlocked", "status"}
    /\ StackOK(prog, execStack)
    /\ phase \in {"run", "done"} /\ internalError = NoError => NoDangling(Top.graph) \/ ErrorNext
    /\ prog \in Programs

(***************************** What is settled *****************************)

(* Settled events are not blocks, and what they read is settled.            *)
Settled(g) == {e \in Events(g) : ~g.lab[e].revisitable}
SettledOK(g) ==
    \A e \in Settled(g) :
        /\ g.lab[e].typ # "B"
        /\ g.lab[e].typ = "R" /\ g.lab[e].ins.mo # "na" => g.lab[e].rf \in {InitEvent} \cup Settled(g)

(* An item leaves all settled events where they are: they are not newer     *)
(* than the event at which it cuts, and a backward revisit copies them.     *)
ItemSettled(g, item) ==
    LET c == CutEvent(item)
    IN /\ c \notin Settled(g)
       /\ \A e \in Settled(g) :
             /\ e[2] > 0 => Stamp(g, e) <= Stamp(g, c)
             /\ e[2] = 0 /\ e[1] > 0 => Stamp(g, CreateId(g, e[1])) <= Stamp(g, c)
       /\ item.kind = "BR" =>
             /\ item.pos \notin Settled(g)
             /\ \A e \in Settled(g) : e[2] > 0 =>
                   Stamp(g, e) <= Stamp(g, item.pos) \/ e \in FullPrefix(g, item.rev)
ExecSettled(x) ==
    /\ SettledOK(x.graph)
    /\ \A j \in DOMAIN x.workqueue : ItemSettled(x.graph, x.workqueue[j])

StackSettled(stack) == \A i \in DOMAIN stack : ExecSettled(stack[i])

(* What a backward revisit settles is closed under reads-from in every      *)
(* execution on the stack, and no item that is left cuts it away: no later  *)
(* restrict() or copyGraph() undoes a revisit.                              *)
SettledInv == StackSettled(execStack)

(****************************** What is whole ******************************)

(* The reads of RMWs that have their write; the reads whose value asks for  *)
(* one.                                                                     *)
RMWReads(g) == {r \in Reads(g) : IsRMWRead(g, r)}
AsksForWrite(g, r) == g.lab[r].rf # Bottom /\ valueMakesRMWSucceed(g, r, ReadValue(g, r))

(* Writes are in coherence and RMWs have their write.  The load of an RMW   *)
(* reads a store that was there before it, or one that revisited it, so     *)
(* that no cut takes the store away.  X are events that a handler or a      *)
(* revisit has not finished with.                                           *)
Placed(g, X) == \A w \in Writes(g) \ X : w \in ToSet(g.co[Loc(g, w)])
Completed(g, X) == \A r \in Reads(g) \ X : AsksForWrite(g, r) => r \in RMWReads(g)
StoreOlder(g, r, w) == w = InitEvent \/ Stamp(g, w) < Stamp(g, r) \/ w \in Settled(g)
OlderStores(g, X) ==
    \A r \in Reads(g) \ X : g.lab[r].ins.op # "R" /\ g.lab[r].rf # Bottom => StoreOlder(g, r, g.lab[r].rf)

(* Only settled events come between the parts of an RMW: no cut separates   *)
(* them.                                                                    *)
Between(g, r, w) == {e \in Events(g) : e[2] > 0 /\ Stamp(g, r) < Stamp(g, e) /\ Stamp(g, e) < Stamp(g, w)}
Unsplit(g) == \A r \in RMWReads(g) : Between(g, r, NextOf(r)) \subseteq Settled(g)
Whole(g, X) == Placed(g, X) /\ Completed(g, X) /\ OlderStores(g, X) /\ Unsplit(g)

(* Every execution on the stack is whole, but for the top one if it ends    *)
(* with an error.                                                           *)
WholeInv == \A i \in DOMAIN execStack : Failed(i) \/ Whole(execStack[i].graph, {})

(***************************** What is atomic ******************************)

(* a comes before b in a coherence sequence; the initializer comes first. *)
Precedes(s, a, b) ==
    IF a = InitEvent THEN b \in ToSet(s) ELSE \E i, j \in DOMAIN s : i < j /\ s[i] = a /\ s[j] = b
co_lt(g, l, a, b) == Precedes(g.co[l], a, b)

(* The write of an RMW comes right after the read of the same instruction. *)
Paired(g) ==
    \A w \in Writes(g) : \A r \in Events(g) : NextOf(r) = w =>
        /\ IsRMWOp(g.lab[w].ins) => r \in RMWReads(g)
        /\ r \in RMWReads(g) => g.lab[w].ins = g.lab[r].ins

(* RMWs that read the same store compete for the place after it.  Between   *)
(* an RMW's write and the store that it reads coherence has nothing but     *)
(* writes of its competitors.                                               *)
Compete(g, r, q) == r # q /\ g.lab[r].rf = g.lab[q].rf /\ Loc(g, r) = Loc(g, q)
AdjacentTo(g, r) ==
    LET l == Loc(g, r)
        u == g.lab[r].rf
    IN NextOf(r) \in ToSet(g.co[l]) =>
         /\ co_lt(g, l, u, NextOf(r))
         /\ \A x \in ToSet(g.co[l]) : co_lt(g, l, u, x) /\ co_lt(g, l, x, NextOf(r)) =>
               \E q \in RMWReads(g) : NextOf(q) = x /\ Compete(g, r, q)
Adjacent(g) == \A r \in RMWReads(g) : AdjacentTo(g, r)

(* No two RMWs compete, but for the one whose write is c; if two compete    *)
(* the write of one was added last, so that the next cut before it resolves *)
(* the conflict.                                                            *)
NoConflictBut(g, c) == \A r, q \in RMWReads(g) : Compete(g, r, q) => NextOf(r) = c \/ NextOf(q) = c
NoConflict(g) == \A r, q \in RMWReads(g) : ~Compete(g, r, q)
ConflictLast(g) ==
    \A r, q \in RMWReads(g) : Compete(g, r, q) => Youngest(g, NextOf(r)) \/ Youngest(g, NextOf(q))

(* The other store of a load does not make it compete with an RMW that it   *)
(* depends on; a plain store has no other place right before an RMW's       *)
(* write; a revisit by an RMW's write leaves its competitors out.           *)
OlderIn(g, w) == {x \in ToSet(g.co[Loc(g, w)]) : Stamp(g, x) < Stamp(g, w)}
RFAtomic(g, pos, rev) ==
    valueMakesRMWSucceed(g, pos, ValueOf(g, rev)) =>
        \A q \in RMWReads(g) : \A b \in Events(g) :
            g.lab[q].rf = rev /\ Loc(g, q) = Loc(g, pos) /\ Stamp(g, q) < Stamp(g, pos) /\ NextOf(b) = pos =>
                q \notin FullPrefix(g, b)
COAtomic(g, pos, rev) ==
    LET l == Loc(g, pos)
    IN /\ ~IsRMWOp(g.lab[pos].ins)
       /\ \A x \in OlderIn(g, pos) : co_lt(g, l, rev, x) /\ IsRMWOp(g.lab[x].ins) =>
             \E y \in OlderIn(g, pos) : co_lt(g, l, rev, y) /\ co_lt(g, l, y, x)
BRAtomic(g, pos, rev) ==
    \A b, q \in RMWReads(g) : NextOf(b) = rev /\ Compete(g, b, q) =>
        Stamp(g, pos) <= Stamp(g, NextOf(q)) /\ NextOf(q) \notin FullPrefix(g, rev)
ItemAtomic(g, item) ==
    /\ item.kind = "RF" => RFAtomic(g, item.pos, item.rev)
    /\ item.kind = "CO" => COAtomic(g, item.pos, item.rev)
    /\ item.kind = "BR" => BRAtomic(g, item.pos, item.rev)
ItemsAtomic(g, items) == \A j \in DOMAIN items : ItemAtomic(g, items[j])

GraphAtomic(g) == Paired(g) /\ Adjacent(g) /\ ConflictLast(g)
ExecAtomic(x) == GraphAtomic(x.graph) /\ ItemsAtomic(x.graph, x.workqueue)

(* No VERIFY() fails; in every execution on the stack, but for the top one  *)
(* if it ends with an error, the RMWs are next to the stores that they read *)
(* unless they compete; while the program runs none compete.                *)
AtomicInv ==
    /\ internalError = NoError
    /\ \A i \in DOMAIN execStack : Failed(i) \/ ExecAtomic(execStack[i])
    /\ Running => NoConflict(Top.graph)
=============================================================================
