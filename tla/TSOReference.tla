----------------------------- MODULE TSOReference ----------------------------
(***************************************************************************)
(* The executions of a program under total store order, by the machine     *)
(* that defines it: every thread has a FIFO store buffer.  A store goes to *)
(* the buffer and at some later time from there to memory; a load reads    *)
(* the youngest store to its location in its own buffer or else memory; a  *)
(* fence, an RMW and an SC load after an SC store wait for the buffer.     *)
(* The creation and the end of a thread take effect when the stores before *)
(* them have, so they go through the buffer, too.                          *)
(***************************************************************************)
EXTENDS Reference

(* A machine is a graph and the buffer of each thread, which holds events.  *)
Machine(g, buf) == [g |-> g, buf |-> buf]
NewMachine == Machine(NothingYet, [t \in {0} |-> <<>>])
Buffered(m, t, e) == [m EXCEPT !.buf[t] = Append(@, e)]

Created(m, t) ==
    LET g == LocalStep(m.g, t)
        child == Cardinality(ThreadIds(m.g))
    IN Machine(g, [u \in ThreadIds(g) |-> IF u = child THEN <<>>
                                          ELSE IF u = t THEN Append(m.buf[t], NextPos(m.g, t)) ELSE m.buf[u]])

VisibleTo(m, t, loc) ==
    LET own == SelectSeq(m.buf[t], LAMBDA e : m.g.lab[e].typ = "W" /\ Loc(m.g, e) = loc)
    IN IF own = <<>> THEN co_max(m.g, loc) ELSE Last(own)
LoadVisible(m, t) ==
    LET l == NextLabel(m.g, t, "R", 0)
    IN [m EXCEPT !.g = setRf(Record(m.g, l), l.pos, VisibleTo(m, t, l.ins.loc))]
StoreBuffered(m, t) ==
    Buffered([m EXCEPT !.g = Record(@, NextLabel(@, t, "W", WriteValue(@, t, NextIns(@, t))))],
             t, NextPos(m.g, t))
(* An RMW that succeeds works on memory; one that fails is a load. *)
RMWOnMemory(m, t) ==
    LET r == NextPos(m.g, t)
        n == LoadVisible(m, t)
        l == RMWWriteLabel(n.g, r)
    IN IF ~Succeeds(n.g, r) THEN {n}
       ELSE IF m.buf[t] # <<>> THEN {}
       ELSE {[n EXCEPT !.g = addCo(Record(n.g, l), l.pos, n.g.lab[r].rf)]}

Flushed(m, e) == \A t \in DOMAIN m.buf : e \notin ToSet(m.buf[t])
SCStorePending(m, t) == \E e \in ToSet(m.buf[t]) : m.g.lab[e].typ = "W" /\ isSC(m.g.lab[e])
Started(m, t) == t = 0 \/ \E c \in Creator(m.g, t) : Flushed(m, c)

ThreadStep(m, t) ==
    LET g == m.g
        ins == NextIns(g, t)
    IN CASE ins.op = "R" -> IF ins.mo = "sc" /\ SCStorePending(m, t) THEN {} ELSE {LoadVisible(m, t)}
         [] ins.op \in {"W", "COPY"} -> {StoreBuffered(m, t)}
         [] ins.op \in {"FAI", "CAS"} -> RMWOnMemory(m, t)
         [] ins.op = "F" -> IF m.buf[t] = <<>> THEN {[m EXCEPT !.g = LocalStep(g, t)]} ELSE {}
         [] ins.op = "CREATE" -> {Created(m, t)}
         [] ins.op = "FINISH" -> {Buffered([m EXCEPT !.g = LocalStep(g, t)], t, NextPos(g, t))}
         [] ins.op = "JOIN" -> {[m EXCEPT !.g = Record(g, NextLabel(g, t, "TJ", Child(g, t)))] :
                                   f \in {e \in Finish(g, Child(g, t)) : Flushed(m, e)}}
         [] ins.op = "ASSUME" -> {}
         [] OTHER -> {[m EXCEPT !.g = LocalStep(g, t)]}
Flush(m, t) ==
    LET e == Head(m.buf[t])
    IN Machine(IF m.g.lab[e].typ = "W" THEN addCo(m.g, e, co_max(m.g, Loc(m.g, e))) ELSE m.g,
               [m.buf EXCEPT ![t] = Tail(@)])

(* A creation or an end that leaves the buffer, or enters one, commutes     *)
(* with what the others do and goes first.                                  *)
MachineStep(m) ==
    LET threads == {t \in Schedulable(m.g) : Started(m, t)}
        buffers == {t \in DOMAIN m.buf : m.buf[t] # <<>>}
        leaving == {t \in buffers : m.g.lab[Head(m.buf[t])].typ # "W"}
        entering == {t \in threads : NextIns(m.g, t).op \in {"CREATE", "FINISH"}}
    IN IF leaving # {} THEN {Flush(m, Min(leaving))}
       ELSE IF entering # {} THEN ThreadStep(m, Min(entering))
       ELSE UNION {ThreadStep(m, t) : t \in threads} \cup {Flush(m, t) : t \in buffers}
TSOExecutions ==
    {Behaviour(m.g) : m \in {n \in Reachable(NewMachine, MachineStep) :
                               Complete(n.g) /\ \A t \in DOMAIN n.buf : n.buf[t] = <<>>}}

(* Soundness and completeness of the exploration for TSO: its complete      *)
(* executions are exactly those of the store-buffer machine.  (The checker  *)
(* is axiomatic: a search for cycles in the order that TSO preserves.)      *)
SoundAndComplete == phase = "finished" => explored = TSOExecutions
=============================================================================
