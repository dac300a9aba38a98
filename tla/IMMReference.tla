----------------------------- MODULE IMMReference -----------------------------
(***************************************************************************)
(* The executions of a program under IMM, by its definition.  A load may   *)
(* read from a store that comes after it in program order and reads-from,  *)
(* so that graphs cannot be built event by event: every load guesses a     *)
(* value, and of the graphs in which each guess is some store's value      *)
(* those count that satisfy the axioms.                                    *)
(***************************************************************************)
EXTENDS AxiomaticReference

(******************************** Candidates *******************************)

(* A guess is an event of its own that a load reads from until it gets a    *)
(* store.  No value exceeds the sum of all that a program writes.           *)
MaxValue == FoldSeq(LAMBDA code, n : n + FoldSeq(LAMBDA i, k : k + (IF i.op \in {"W", "FAI", "CAS"} THEN i.val ELSE 0),
                                                 0, code), 0, prog)
Guesses == {<<Len(prog) + 1, v + 1>> : v \in 0 .. MaxValue}
Guessing == [NothingYet EXCEPT !.lab = [e \in {InitEvent} \cup Guesses |->
                IF e = InitEvent THEN NothingYet.lab[e] ELSE NewLabel(e, "GUESS", 0, NoInstr, e[2] - 1)]]
LoadGuess(g, l) == {LoadFrom(g, l, v) : v \in Guesses}
GuessStep(g, t) ==
    LET op == NextIns(g, t).op
        step(typ, val) == NextLabel(g, t, typ, val)
    IN CASE op = "R" -> LoadGuess(g, step("R", 0))
         [] op \in {"W", "COPY"} -> {Record(g, step("W", WriteValue(g, t, NextIns(g, t))))}
         [] op \in {"FAI", "CAS"} ->
               {IF Succeeds(h, NextPos(g, t)) THEN Record(h, RMWWriteLabel(h, NextPos(g, t))) ELSE h :
                   h \in LoadGuess(g, step("R", 0))}
         [] op = "JOIN" -> {Record(g, step("TJ", Child(g, t))) : f \in Finish(g, Child(g, t))}
         [] op = "ASSUME" -> {}
         [] OTHER -> {LocalStep(g, t)}
(* One thread after the other: they do not see each other yet. *)
Runs == LET Step(g) == LET ts == {t \in Schedulable(g) : GuessStep(g, t) # {}}
                       IN IF ts = {} THEN {} ELSE GuessStep(g, Min(ts))
        IN {g \in Reachable(Guessing, Step) : Complete(g)}

(* Every way to read from stores and to order them. *)
Sources(g, r) == {w \in Writes(g) \cup {InitEvent} : /\ w # InitEvent => Loc(g, w) = Loc(g, r)
                                                     /\ ValueOf(g, w) = ReadValue(g, r)}
Pick(S, Of(_)) == {f \in [S -> UNION {Of(s) : s \in S}] : \A s \in S : f[s] \in Of(s)}
WithRf(g, f) ==
    [g EXCEPT !.lab = [e \in Events(g) \ Guesses |-> IF e \in DOMAIN f THEN [@[e] EXCEPT !.rf = f[e]] ELSE @[e]]]
Candidates == UNION {UNION {{[WithRf(g, f) EXCEPT !.co = c] :
                               c \in Pick(Locs, LAMBDA l : SetToSeqs({w \in Writes(g) : Loc(g, w) = l}))} :
                            f \in Pick(Reads(g), LAMBDA r : Sources(g, r))} : g \in Runs}

(********************************* Axioms **********************************)

deps(g, kind) == [d \in Events(g) |-> {e \in Events(g) : d \in g.lab[e].deps[kind]}]
External(r) == Filter(r, LAMBDA d, e : d[1] # e[1])
Internal(r) == Filter(r, LAMBDA d, e : d[1] = e[1])

(* Barriers: releases and acquires, fences, a release write and the later   *)
(* writes to its location.                                                  *)
bob(g, p) ==
    LET W == Id(Events(g), Writes(g))
        Rd == Id(Events(g), Reads(g))
        rel == Seq2(W, Is(g, isAtLeastRelease))
        acq == Seq2(Rd, Is(g, isAtLeastAcquire))
        near == Filter(p, LAMBDA d, e : SamePlace(g, d, e))
    IN Or(Or(Seq2(p, rel), Seq2(acq, p)),
          Or(Or(Seq2(p, Fences(g)), Seq2(Fences(g), p)), Seq2(rel, Seq2(near, W))))

(* What a write's value, address or presence is computed from. *)
ppo(g, p) ==
    LET step == Or(Or(deps(g, "data"), deps(g, "ctrl")),
                   Or(Seq2(deps(g, "addr"), Opt(p)), Or(rmw(g), Internal(rf(g)))))
    IN Seq2(Id(Events(g), Reads(g)), Seq2(Plus(step), Id(Events(g), Writes(g))))
detour(g) == Internal(Seq2(External(mo(g)), External(rf(g))))
ar(g, h, x) ==
    LET p == po(g)
        F == Seq2(Fences(g), Is(g, isSC))
    IN Or(Or(External(rf(g)), Or(bob(g, p), Or(ppo(g, p), detour(g)))),
          Seq2(F, Seq2(Or(h, Seq2(h, Seq2(x, h))), F)))

IMMConsistent(g) ==
    /\ IsAtomic(g)
    /\ \E h \in {hb(g)}, x \in {eco(g)} :
          Coherent(h, x) /\ Irreflexive(x) /\ Irreflexive(Plus(psc(g, h, x))) /\ Irreflexive(Plus(ar(g, h, x)))

IMMExecutions == {Behaviour(g) : g \in {h \in Candidates : IMMConsistent(h)}}

(******************************* Properties ********************************)

(* Soundness and completeness for IMM: the complete executions that the     *)
(* exploration goes through are exactly the program's, those included where *)
(* a load reads a store that a later event of its own thread leads to.      *)
SoundAndComplete == phase = "finished" => explored = IMMExecutions

(* The checker never looks for a cycle of dependencies: the prefix of a     *)
(* store has to contain all that the store depends on, so that no revisit   *)
(* makes a store depend on itself.  Whenever the program runs on, the graph *)
(* with the holes in it is consistent.                                      *)
ConsistentSoFar == Running => IMMConsistent(Top.graph)

(* A hint is an error exactly if the execution is consistent when the added *)
(* synchronization is part of happens-before: an inconsistent one is no     *)
(* behaviour of the extended client, a consistent one is a violation.       *)
HintsExact == HintsAgree(IMMConsistent)
=============================================================================
