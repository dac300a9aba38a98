----------------------------- MODULE GenMCDriver -----------------------------
(***************************************************************************)
(* The exploration algorithm (genmc/Verification/GenMCDriver.cpp).         *)
(*                                                                         *)
(* One driver explores the executions of a program.  It runs the program,  *)
(* adding one label per event to the top execution's graph; at a load it   *)
(* pushes the other stores that could be read, at a store the other        *)
(* places in coherence and the reads that it may revisit.  When a run      *)
(* ends, done() takes the last item, cuts or copies the graph, applies the *)
(* item and the program runs again on that graph.                          *)
(*                                                                         *)
(* The memory model's checker is a parameter.  The handlers are actions.   *)
(* What a handler does is an operator from the driver's context (the top   *)
(* execution, the memory state, the flags) to the new one.                 *)
(***************************************************************************)
EXTENDS ExecutionState, TLC

CONSTANTS Programs,  \* the programs to verify: <<code of main, code of function 1, ...>>
          Policy,    \* the schedule policy: "ltr", "wf" or "arbitrary"
          Ipr,       \* in-place revisiting of blocked reads is enabled
          RaceDetection, \* races are looked for
          DepTracking,   \* isDepTrackingModel: the graphs are not closed under program order
          CopiesHoldState  \* a copy of a graph points to the driver's memory state

(* The consistency checker (genmc/Execution/Consistency). *)
CONSTANTS CalculateViews(_, _), CalculatePrefixView(_, _), HbView(_, _), IsConsistent(_, _),
          GetCoherentStores(_, _), GetCoherentPlacings(_, _), FilterCoherentRevisits(_, _, _),
          CheckErrors(_, _, _), CheckWarnings(_, _, _, _)

ASSUME DriverAssumption ==
    /\ Policy \in {"ltr", "wf", "arbitrary"}
    /\ {Ipr, RaceDetection, DepTracking, CopiesHoldState} \subseteq BOOLEAN
    /\ ~DepTracking => CopiesHoldState  \* as ExecutionGraph::getCopyUpTo() sees to

VARIABLES prog,       \* the program under verification
          execStack,  \* execStack: executions [graph, workqueue]
          state,      \* execState: the memory state of the current run
          phase,      \* "run": the program runs; "done": in done(); "finished";
                      \* "halted": a hard error was reported
          isMoot,     \* isMootExecution: the current execution is given up
          result,     \* result.explored, result.exploredBlocked and result.status
          warned,     \* result.warnings: a write-write race was reported
          explored,   \* history: the complete executions that were counted
          internalError  \* the VERIFY() that failed, or the null that was dereferenced, if any

vars == <<prog, execStack, state, phase, isMoot, result, warned, explored, internalError>>

(************************ The program (interpreter) ************************)

(* The function that a thread runs. *)
Code(g, t) == prog[g.lab[<<t, 0>>].val + 1]

(* Where a thread goes on: at its first hole, or at the end. *)
NextIndex(g, t) ==
    Min({e[2] : e \in {d \in ThreadEvents(g, t) : g.lab[d].typ = "E"}} \cup {LastIndex(g, t) + 1})
NextPos(g, t) == <<t, NextIndex(g, t)>>

(* The last load of a thread before an instruction, if any, and its value:  *)
(* what a store may copy and what an assume or a branch looks at.           *)
LastLoad(g, t, ip) ==
    LET loads == {e \in Reads(g) : e[1] = t /\ g.lab[e].ip < ip}
    IN {e \in loads : \A d \in loads : d[2] <= e[2]}
LoadedValue(g, t, ip) == ReadValue(g, CHOOSE r \in LastLoad(g, t, ip) : TRUE)

FinishIns == [NoInstr EXCEPT !.op = "FINISH"]
InsAt(code, ip) == IF ip > Len(code) THEN FinishIns ELSE code[ip]

(* The instruction a thread executes next.  A branch not taken (GUARD)      *)
(* skips the rest of the thread; one that is taken and an assume that holds *)
(* leave no event behind.                                                   *)
SkipLocal(g, t, ip) ==
    LET ins == InsAt(Code(g, t), ip)
    IN IF ins.op \notin {"ASSUME", "GUARD"} THEN ip
       ELSE IF LoadedValue(g, t, ip) = ins.exp THEN ip + 1
       ELSE IF ins.op = "GUARD" THEN Len(Code(g, t)) + 1 ELSE ip
NextIp(g, t) == SkipLocal(g, t, g.lab[<<t, NextIndex(g, t) - 1>>].ip + 1)
NextIns(g, t) == InsAt(Code(g, t), NextIp(g, t))

(* What the instruction at ip depends on (DepTracker): the load its address *)
(* or its data comes from, and those that an earlier branch or assume looks *)
(* at.  A CAS is followed by a branch on its outcome.                       *)
Deps(g, t, ip, ins) ==
    LET before == SubSeq(Code(g, t), 1, ip - 1)
        branches == {i \in DOMAIN before : before[i].op \in {"ASSUME", "GUARD"}}
                      \cup {i + 1 : i \in {j \in DOMAIN before : before[j].op = "CAS"}}
    IN [addr |-> IF ins.byAddr THEN LastLoad(g, t, ip) ELSE {},
        data |-> IF ins.op = "COPY" THEN LastLoad(g, t, ip) ELSE {},
        ctrl |-> UNION {LastLoad(g, t, i) : i \in branches}]

(* The label for the next event of a thread. *)
NextLabel(g, t, typ, val) ==
    [NewLabel(NextPos(g, t), typ, NextIp(g, t), NextIns(g, t), val)
       EXCEPT !.deps = Deps(g, t, NextIp(g, t), NextIns(g, t))]

WriteValue(g, t, ins) == IF ins.op = "COPY" THEN LoadedValue(g, t, NextIp(g, t)) ELSE ins.val
RMWWriteLabel(g, r) ==
    LET ins == g.lab[r].ins
    IN [NewLabel(<<r[1], r[2] + 1>>, "W", g.lab[r].ip, ins,
                 IF ins.op = "FAI" THEN ReadValue(g, r) + ins.val ELSE ins.val) EXCEPT !.deps = g.lab[r].deps]

(******************************* Scheduling ********************************)

isSchedulable(g, t) == LastLabel(g, t).typ \notin {"TF", "B"}

(* Every thread that has a begin is runnable. *)
Schedulable(g) == {t \in ThreadIds(g) : isSchedulable(g, t)}
LoadNext(g, t) == NextIns(g, t).op \in {"R", "FAI", "CAS"}

(* The threads the policy may choose. *)
schedulePolicy(g) ==
    LET ts == Schedulable(g)
    IN CASE Policy = "ltr" -> {t \in ts : \A u \in ts : t <= u}
         [] Policy = "wf" -> {t \in ts : \A u \in ts : \/ ~LoadNext(g, t) /\ LoadNext(g, u)
                                                       \/ (LoadNext(g, t) <=> LoadNext(g, u)) /\ t <= u}
         [] Policy = "arbitrary" -> ts

(******************************** Revisits *********************************)

(* Items: ReadForwardRevisit (RF), WriteForwardRevisit (CO) and             *)
(* BackwardRevisit (BR): pos is the event to change, rev the store to read  *)
(* from or the coherence predecessor.  ReplayForwardRevisit: run again up   *)
(* to pos to report err, a warning (WARN) or an error (ERROR).              *)
Item(kind, pos, rev) == [kind |-> kind, pos |-> pos, rev |-> rev, err |-> NoError]
ReplayItem(kind, pos, err) == [Item(kind, pos, InitEvent) EXCEPT !.err = err]

updateLabelViews(g, e) ==
    [g EXCEPT !.lab[e].views = CalculateViews(g, e), !.lab[e].prefix = CalculatePrefixView(g, e)]
addLabelToGraph(g, l) == updateLabelViews(add(g, l), l.pos)
getPrefixView(g, e) == g.lab[e].prefix

isExecutionValid(g, e) ==
    \/ g.lab[e].typ = "R" /\ g.lab[e].rf = co_max(g, Loc(g, e))
    \/ IsConsistent(g, e)

isRevisitValid(g, item) ==
    LET e == item.pos
        isRMW == g.lab[e].typ = "R" /\ IsRMWRead(g, e)
    IN \A d \in {e} \cup (IF isRMW THEN {<<e[1], e[2] + 1>>} ELSE {}) : isExecutionValid(g, d)

(* The view of a revisit.  Where the prefix has holes: the stores of its    *)
(* own thread that a read reads are not left out, nor is the write of an    *)
(* RMW whose read is in the prefix.                                         *)
updatePredsWithPrefixView(g, preds, pporf) ==
    LET all == preds \cup pporf
        covered(e) == e[2] <= MaxIn(pporf, e[1])
    IN IF ~DepTracking THEN all
       ELSE all \cup {w \in Writes(g) : \E r \in rf_succs(g, w) \cap all : covered(r) /\ r[1] = w[1]}
                \cup {w \in Writes(g) : covered(w) /\ IsRMWWrite(g, w) /\ <<w[1], w[2] - 1>> \in pporf}
getRevisitView(g, r, s) ==
    updatePredsWithPrefixView(g, getViewFromStamp(g, Stamp(g, r)), getPrefixView(g, s))

(* The reads a write may revisit.  If the previous coherence-maximal store  *)
(* is in the write's prefix only its readers can be.  Reads added after a   *)
(* conflicting RMW are dropped.                                             *)
getRevisitable(g, s) ==
    LET loc == Loc(g, s)
        before == getPrefixView(g, s)
        others == Remove(g.co[loc], s)
        candidates == IF others # <<>> /\ Last(others) \in before
                      THEN readers(g, Last(others), loc)
                      ELSE {r \in Reads(g) : Loc(g, r) = loc}
    IN {r \in candidates : /\ ~isStable(g, r)
                           /\ r \notin before
                           /\ \A w \in PendingRMWs(g, s) : Stamp(g, r) <= Stamp(g, w)}

(* Fault: the oldest read comes first. *)
oldestRevisitableFirst(g, s) ==
    Reverse(NewestFirst(g, FilterCoherentRevisits(g, s, getRevisitable(g, s))))
getRevisitableApproximation(g, s) ==
    NewestFirst(g, FilterCoherentRevisits(g, s, getRevisitable(g, s)))

coherenceSuccRemainInGraph(g, s, v) == IsRMWWrite(g, s) \/ co_imm_succ(g, s) \subseteq v

isCoBeforeSavedPrefix(g, e, s, v) ==
    /\ IsAccess(g, e)
    /\ \E w \in ToSet(co_succs(g, IF g.lab[e].typ = "R" THEN g.lab[e].rf ELSE e, Loc(g, e))) :
           w # s /\ w \in v /\ e[2] > MaxIn(getPrefixView(g, w), e[1])

(* An event below the prefix of s that is left out of it, but will be added *)
(* as it is: a store that the prefix reads, a load that reads the same      *)
(* store as one in the prefix.                                              *)
ReadInView(g, w, v) == readers(g, w, Loc(g, w)) \cap v # {}
isFixedHoleInView(g, e, v) ==
    \/ g.lab[e].typ = "W" /\ ReadInView(g, e, v)
    \/ g.lab[e].typ = "R" /\ readers(g, g.lab[e].rf, Loc(g, e)) \cap v # {}
    \/ IsRMWRead(g, e) /\ ReadInView(g, <<e[1], e[2] + 1>>, v)
prefixContainsSameLoc(g, e, v) ==
    DepTracking /\ e[2] <= MaxIn(v, e[1]) /\ isFixedHoleInView(g, e, v)

(* What a revisit removes or changes. *)
Affected(g, r, s, v) ==
    {e \in {d \in Events(g) : ~InView(v, d)} \cup {r} : ~prefixContainsSameLoc(g, e, getPrefixView(g, s))}

(* Fault: non-maximal events may be removed. *)
isExtension(g, r, s) ==
    LET v == getRevisitView(g, r, s)
    IN /\ coherenceSuccRemainInGraph(g, s, v)
       /\ \A e \in Affected(g, r, s, v) : g.lab[e].revisitable /\ ~isCoBeforeSavedPrefix(g, e, s, v)

(* The revisit of r by s is done from one execution only: the one where     *)
(* everything that it removes was added in the canonical, maximal way.      *)
isMaximalExtension(g, r, s) ==
    LET v == getRevisitView(g, r, s)
    IN /\ coherenceSuccRemainInGraph(g, s, v)
       /\ \A e \in Affected(g, r, s, v) : /\ g.lab[e].revisitable
                                       /\ g.lab[e].addedMax
                                       /\ ~isCoBeforeSavedPrefix(g, e, s, v)

(* In-place revisits: a read blocked by its assume() reads the new store    *)
(* instead and its thread goes on.                                          *)
Annotated(l) == l.ins.annot # NoAnnot
ReadBlocks(g, r) == /\ g.lab[r].ins.op = "R"
                    /\ Annotated(g.lab[r])
                    /\ ReadValue(g, r) # g.lab[r].ins.annot

(* Some reads, the last events of their threads, get new stores and count   *)
(* as added maximally.                                                      *)
ReadMaximally(g, rf) ==
    LET h == [g EXCEPT !.lab = [e \in Events(g) |->
                IF e \in DOMAIN rf THEN [g.lab[e] EXCEPT !.rf = rf[e], !.addedMax = TRUE]
                ELSE g.lab[e]]]
    IN IF DOMAIN rf = {} THEN g
       ELSE [h EXCEPT !.lab = [e \in Events(g) |->
                IF e \in DOMAIN rf
                THEN [h.lab[e] EXCEPT !.views = CalculateViews(h, e), !.prefix = CalculatePrefixView(h, e)]
                ELSE h.lab[e]]]
revisitInPlace(g, reads, s) ==
    ReadMaximally(removeLast(g, {r[1] : r \in {q \in reads : po_imm_succ(g, q) # {}}}), [r \in reads |-> s])

(* With a conflicting RMW around, an annotated read that was revisited in   *)
(* place, by a store that the write does not depend on, is left alone.      *)
isConflictingIPR(g, s, r) == /\ violatesAtomicity(g, s)
                             /\ Annotated(g.lab[r])
                             /\ Stamp(g, g.lab[r].rf) > Stamp(g, r)
                             /\ ~InView(getPrefixView(g, s), g.lab[r].rf)
filterConflictingIPRs(g, s, loads) == Kept(loads, {r \in ToSet(loads) : ~isConflictingIPR(g, s, r)})

(* Blocked reads are revisited in place; the others are left to consider.   *)
WithIPRs(g, s, loads) == [graph |-> g, loads |-> filterConflictingIPRs(g, s, loads)]
tryOptimizeIPRs(g, s, loads) ==
    LET blocked == {r \in ToSet(loads) : ReadBlocks(g, r)}
    IN IF ~Ipr THEN [graph |-> g, loads |-> loads]
       ELSE WithIPRs(revisitInPlace(g, blocked, s), s, Kept(loads, ToSet(loads) \ blocked))

(* The reads up to the first one whose revisit is not a maximal extension. *)
pushRevisits(x, s, o) ==
    LET bad == {i \in DOMAIN o.loads : ~isMaximalExtension(o.graph, o.loads[i], s)}
    IN [graph |-> o.graph,
        workqueue |-> x.workqueue \o [i \in 1 .. Min(bad \cup {Len(o.loads) + 1}) - 1 |->
                                         Item("BR", o.loads[i], s)]]

(* Fault: a queue, the new items go to the other end. *)
itemsFirst(x, y) == [y EXCEPT !.workqueue = @ \o x.workqueue]
calcRevisitsQueue(x, s) ==
    itemsFirst(x, pushRevisits([x EXCEPT !.workqueue = <<>>], s,
                               tryOptimizeIPRs(x.graph, s, getRevisitableApproximation(x.graph, s))))
calcRevisits(x, s) ==
    pushRevisits(x, s, tryOptimizeIPRs(x.graph, s, getRevisitableApproximation(x.graph, s)))

(******************************** Handlers *********************************)

(* The coherent stores, without those an RMW may not read because another   *)
(* RMW has read them for good.                                              *)
getRfsApproximation(g, r) ==
    LET before == getPrefixView(g, r)
        settled(w) == \E q \in readers(g, w, Loc(g, r)) :
                          IsRMWRead(g, q) /\ (~g.lab[q].revisitable \/ q \in before)
        stores == GetCoherentStores(g, r)
    IN Kept(stores, {w \in ToSet(stores) : ~(valueMakesRMWSucceed(g, r, ValueOf(g, w)) /\ settled(w))})

(* Of the values that block an annotated load only the last one is kept. *)
filterValuesFromAnnotSAVER(g, r, stores) ==
    Kept(stores, {w \in ToSet(stores) : \/ ~Annotated(g.lab[r])
                                        \/ w \in {Last(stores), co_max(g, Loc(g, r))}
                                        \/ ValueOf(g, w) = g.lab[r].ins.annot})

(* The first store that gives a consistent graph is read, and the last one  *)
(* is not even checked.  The ones after it are pushed, the closest one in   *)
(* coherence last.                                                          *)
findConsistentRf(g, r, stores) ==
    Min({i \in DOMAIN stores : i = Len(stores) \/ isExecutionValid(setRf(g, r, stores[i]), r)})

(* getReadRetValue: with IPR, a load whose value fails its assume() blocks. *)
BlockIfAnnotFails(g, r) ==
    IF Ipr /\ ReadBlocks(g, r) THEN blockThread(g, r[1], g.lab[r].ip + 1, g.lab[r].ins, 0) ELSE g

Alternatives(kind, e, choices) == [j \in DOMAIN choices |-> Item(kind, e, choices[j])]
ReadFrom(g, r, w) == BlockIfAnnotFails(updateLabelViews(setRf(g, r, w), r), r)
readOneOf(x, r, stores, i) ==
    [graph |-> ReadFrom(x.graph, r, stores[i]),
     workqueue |-> x.workqueue \o Alternatives("RF", r, Reverse(SubSeq(stores, i + 1, Len(stores))))]

(* The context of a handler: the top execution x, the memory state st, and  *)
(* the flags.  An error moots the execution and is reported by a replay.    *)
Push(d, item) == [d EXCEPT !.x.workqueue = Append(@, item)]
SetGraph(d, g) == [d EXCEPT !.x.graph = g]
reportError(d, err) == [Push(d, ReplayItem("ERROR", Newest(d.x.graph), err)) EXCEPT !.moot = TRUE]

(* Unordered writes are worth a warning, and an error if IPR is in use at   *)
(* the location.                                                            *)
UpgradeWarning(g, e) == Ipr /\ \E r \in samelocs(g, e) : g.lab[r].typ = "R" /\ Annotated(g.lab[r])
reportWarningOnce(d, e) ==
    LET reported == IF UpgradeWarning(d.x.graph, e) THEN reportError(d, "WWRace")
                    ELSE IF ~d.warned THEN Push(d, ReplayItem("WARN", e, "WWRace")) ELSE d
    IN [reported EXCEPT !.warned = TRUE, !.x.graph.lab[e].wwRacy = TRUE]

checkAccessValidity(st, l) == l \in DynLocs => isAllocated(st, l)
checkInitializedMem(g, st, r) ==
    Loc(g, r) \in DynLocs => /\ isInitialized(st, Loc(g, r))
                             /\ \A e \in st.init[Loc(g, r)] : InView(HbView(g, r), e)
(* IPR does not support a location with unordered writes. *)
checkIPRValidity(g, r) ==
    Ipr /\ Annotated(g.lab[r]) => \A w \in ToSet(g.co[Loc(g, r)]) : ~g.lab[w].wwRacy

(* The errors of an access that do not need the checker. *)
LoadError(g, st, r) ==
    FirstError(<< <<checkAccessValidity(st, Loc(g, r)), "AccessNonMalloc">>,
                  <<checkAccessValidity(st, Loc(g, r)) /\ checkInitializedMem(g, st, r), "UninitializedMem">>,
                  <<checkIPRValidity(g, r), "WWRace">> >>)
StoreError(g, st, w) == FirstError(<< <<checkAccessValidity(st, Loc(g, w)), "AccessNonMalloc">> >>)

checkForWarnings(d, e) ==
    IF CheckWarnings(d.x.graph, d.st, e, d.warned) # {} THEN reportWarningOnce(d, e) ELSE d
RaceOrWarning(d, e, err) ==
    IF err # NoError THEN reportError(d, err) ELSE checkForWarnings(d, e)
checkForRaces(d, e) == IF RaceDetection THEN RaceOrWarning(d, e, CheckErrors(d.x.graph, d.st, e)) ELSE d

(* The checks of an access, err being its own error. *)
Checked(d, e, err) == IF err # NoError THEN reportError(d, err) ELSE checkForRaces(d, e)

(* A load: of the stores it can read one is read and the others are pushed. *)
(* VERIFY(!stores.empty())                                                  *)
ReadConsistent(d, r, stores) ==
    IF stores = <<>> THEN [d EXCEPT !.internal = "noStore"]
    ELSE [d EXCEPT !.x = readOneOf(d.x, r, stores, findConsistentRf(d.x.graph, r, stores))]
StoresToRead(g, r) == filterValuesFromAnnotSAVER(g, r, getRfsApproximation(g, r))
LoadChecked(d, r) ==
    IF d.moot THEN d
    ELSE ReadConsistent([d EXCEPT !.st = onATLoad(@, r, Loc(d.x.graph, r), HbView(d.x.graph, r))],
                        r, StoresToRead(d.x.graph, r))
LoadAdded(d, r) == LoadChecked(Checked(d, r, LoadError(d.x.graph, d.st, r)), r)
handleLoad(d, l) == LoadAdded(SetGraph(d, addLabelToGraph(d.x.graph, l)), l.pos)

(* A non-atomic load reads the last store: if there is another one that it  *)
(* could read there is a race.                                              *)
NALoadChecked(d, r) ==
    IF d.moot THEN d
    ELSE LET g == d.x.graph
         IN [d EXCEPT !.st = onNALoad(@, r, Loc(g, r), HbView(g, r)),
                      !.x.graph = setRf(g, r, co_max(g, Loc(g, r)))]
NALoadAdded(d, r) == NALoadChecked(Checked(d, r, LoadError(d.x.graph, d.st, r)), r)
handleNALoad(d, l) == NALoadAdded(SetGraph(d, addLabelToGraph(d.x.graph, l)), l.pos)

(* A store: the write goes last in coherence; its other placings and the    *)
(* reads it revisits are pushed.  A store that breaks the atomicity of an   *)
(* RMW moots the execution.                                                 *)
StoreRaces(d, w) == IF violatesAtomicity(d.x.graph, w) THEN [d EXCEPT !.moot = TRUE]
                    ELSE checkForRaces(d, w)
StoreKnown(d, w) == [d EXCEPT !.st = onATStore(@, w, Loc(d.x.graph, w), HbView(d.x.graph, w))]
(* Fault: the place it takes is pushed, too. *)
PlaceAndPushAll(x, w, cos) ==
    calcRevisits([graph |-> addCo(x.graph, w, Last(cos)),
                  workqueue |-> x.workqueue \o Alternatives("CO", w, cos)], w)
PlaceLast(x, w, cos) ==
    calcRevisits([graph |-> addCo(x.graph, w, Last(cos)),
                  workqueue |-> x.workqueue \o Alternatives("CO", w, Front(cos))], w)
StorePlaced(d, w, cos) == StoreKnown(StoreRaces([d EXCEPT !.x = PlaceLast(d.x, w, cos)], w), w)
StoreWarned(d, w, cos) == StorePlaced(IF Len(cos) > 1 THEN reportWarningOnce(d, w) ELSE d, w, cos)
StoreAdded(d, w) ==
    LET err == StoreError(d.x.graph, d.st, w)
    IN IF err # NoError THEN reportError(d, err) ELSE StoreWarned(d, w, GetCoherentPlacings(d.x.graph, w))
handleStore(d, l) == StoreAdded(SetGraph(d, addLabelToGraph(d.x.graph, l)), l.pos)

NAStoreChecked(d, w) ==
    IF d.moot THEN d
    ELSE LET g == d.x.graph
         IN [d EXCEPT !.st = onNAStore(@, w, Loc(g, w), HbView(g, w)),
                      !.x.graph = addCo(g, w, co_max(g, Loc(g, w)))]
NAStoreAdded(d, w) == NAStoreChecked(Checked(d, w, StoreError(d.x.graph, d.st, w)), w)
handleNAStore(d, l) == NAStoreAdded(SetGraph(d, addLabelToGraph(d.x.graph, l)), l.pos)

(* The load and, if it succeeds, the store of an RMW instruction. *)
AfterRMWLoad(d, r) ==
    IF d.moot \/ d.internal # NoError \/ ~valueMakesRMWSucceed(d.x.graph, r, ReadValue(d.x.graph, r)) THEN d
    ELSE handleStore(d, RMWWriteLabel(d.x.graph, r))
handleRMW(d, l) == AfterRMWLoad(handleLoad(d, l), l.pos)

(* Allocation and free take over the views of the event before them. *)
Probe(p, l) == [l EXCEPT !.views = [i \in DOMAIN @ |-> p.views[i] \cup {l.pos}], !.prefix = p.prefix]
addProbe(d, l) == SetGraph(d, add(d.x.graph, Probe(LastLabel(d.x.graph, l.pos[1]), l)))
handleMalloc(d, l) == [addProbe(d, l) EXCEPT !.st = onAlloc(@, l.pos, l.ins.loc)]
FreeChecked(d, l) == IF d.moot THEN d
                     ELSE [d EXCEPT !.st = onFree(@, l.pos, l.ins.loc, l.typ = "RET")]
handleFree(d, l) == FreeChecked(checkForRaces(addProbe(d, l), l.pos), l)

(* Fences, hazard pointers and the begins and ends of methods. *)
handleDummy(d, l) ==
    [SetGraph(d, addLabelToGraph(d.x.graph, l))
       EXCEPT !.st = IF l.typ = "HP" THEN onProtect(@, l.ins.loc, l.ins.val) ELSE @]

(* The last access of the thread before its next event, if any. *)
getPreviousVisibleAccessLabel(g, t) ==
    {e \in ThreadEvents(g, t) : /\ IsAccess(g, e)
                                /\ \A d \in ThreadEvents(g, t) : d[2] > e[2] => ~IsAccess(g, d)}

(* A failed assume blocks its thread.  If the read before it can no longer  *)
(* change, the execution stays blocked for ever and is mooted.  (With IPR   *)
(* an annotated load blocks by itself, without that check.)                 *)
handleAssume(d, t) ==
    LET g == d.x.graph
    IN [SetGraph(d, blockThread(g, t, NextIp(g, t), NextIns(g, t), 0))
          EXCEPT !.moot = \E e \in getPreviousVisibleAccessLabel(g, t) :
                              /\ g.lab[e].typ = "R"
                              /\ isStable(g, e)
                              /\ ~(Ipr /\ ReadBlocks(g, e))]

(* A new thread gets the next free id; a begin that the creation left       *)
(* behind is looked for first.  VERIFY: it is not there.                    *)
ChildId(g, create) ==
    LET same == {t \in ThreadIds(g) \ {0} : g.lab[<<t, 0>>].createId = create}
    IN IF same = {} THEN Cardinality(ThreadIds(g)) ELSE CHOOSE t \in same : TRUE
ThreadCreated(d, l, cid) ==
    LET g == addLabelToGraph(d.x.graph, l)
    IN IF cid # Cardinality(ThreadIds(d.x.graph)) THEN [SetGraph(d, g) EXCEPT !.internal = "tid"]
       ELSE SetGraph(d, addLabelToGraph(g, ThreadStartLabel(cid, l.ins.val, l.pos)))
handleThreadCreate(d, t) ==
    LET cid == ChildId(d.x.graph, NextPos(d.x.graph, t))
    IN ThreadCreated(d, NextLabel(d.x.graph, t, "TC", cid), cid)

(* The k-th thread that a thread has created.  Joining a thread that has    *)
(* not finished blocks.                                                     *)
Children(g, t) == SetToSortSeq({e \in ThreadEvents(g, t) : g.lab[e].typ = "TC"}, LAMBDA a, b : a[2] < b[2])
handleThreadJoin(d, t) ==
    LET g == d.x.graph
        child == g.lab[Children(g, t)[NextIns(g, t).val]].val
    IN SetGraph(d, IF Finish(g, child) = {} THEN blockThread(g, t, NextIp(g, t), NextIns(g, t), child)
                   ELSE addLabelToGraph(g, NextLabel(g, t, "TJ", child)))

(* A thread that finishes relieves the threads that wait to join it. *)
WaitsFor(g, p, t) == /\ LastLabel(g, p).typ = "B"
                     /\ LastLabel(g, p).ins.op = "JOIN"
                     /\ LastLabel(g, p).val = t
(* Fault: nobody is relieved. *)
finishSilently(d, t) == SetGraph(d, addLabelToGraph(d.x.graph, NextLabel(d.x.graph, t, "TF", 0)))
handleThreadFinish(d, t) ==
    LET g == addLabelToGraph(d.x.graph, NextLabel(d.x.graph, t, "TF", 0))
    IN SetGraph(d, unblockThreads(g, {p \in ThreadIds(g) : WaitsFor(g, p, t)}))

(********************************* Actions *********************************)

Top == Last(execStack)
SetTop(x) == execStack' = [execStack EXCEPT ![Len(execStack)] = x]

Init == /\ prog \in Programs
        /\ execStack = <<[graph |-> EmptyGraph, workqueue |-> <<>>]>>
        /\ state = clear
        /\ phase = "run"
        /\ isMoot = FALSE
        /\ result = [explored |-> 0, exploredBlocked |-> 0, status |-> NoError]
        /\ warned = FALSE
        /\ explored = {}
        /\ internalError = NoError

(* scheduleNext() chose t, whose next instruction is one of ops, and the    *)
(* handler made d of the context.                                           *)
Context == [x |-> Top, st |-> state, moot |-> isMoot, warned |-> warned, internal |-> internalError]
NextOp(t, ops) == /\ phase = "run" /\ ~isMoot /\ internalError = NoError
                  /\ t \in schedulePolicy(Top.graph)
                  /\ NextIns(Top.graph, t).op \in ops
Atomic(t) == NextIns(Top.graph, t).mo # "na"
Handled(d) == /\ SetTop(d.x)
              /\ state' = d.st
              /\ isMoot' = d.moot
              /\ warned' = d.warned
              /\ internalError' = d.internal
              /\ UNCHANGED <<prog, phase, result, explored>>
LabelOf(t, typ) == NextLabel(Top.graph, t, typ, 0)
StoreLabel(t) == NextLabel(Top.graph, t, "W", WriteValue(Top.graph, t, NextIns(Top.graph, t)))

HandleLoad(t) ==
    NextOp(t, {"R"}) /\ Atomic(t) /\ \E d \in {handleLoad(Context, LabelOf(t, "R"))} : Handled(d)
HandleNALoad(t) ==
    NextOp(t, {"R"}) /\ ~Atomic(t) /\ \E d \in {handleNALoad(Context, LabelOf(t, "R"))} : Handled(d)
HandleStore(t) ==
    NextOp(t, {"W", "COPY"}) /\ Atomic(t) /\ \E d \in {handleStore(Context, StoreLabel(t))} : Handled(d)
HandleNAStore(t) ==
    NextOp(t, {"W", "COPY"}) /\ ~Atomic(t) /\ \E d \in {handleNAStore(Context, StoreLabel(t))} : Handled(d)
HandleRMW(t) ==
    NextOp(t, {"FAI", "CAS"}) /\ \E d \in {handleRMW(Context, LabelOf(t, "R"))} : Handled(d)
HandleMalloc(t) ==
    NextOp(t, {"M"}) /\ \E d \in {handleMalloc(Context, LabelOf(t, "M"))} : Handled(d)
HandleFree(t) ==
    /\ NextOp(t, {"D", "RET"})
    /\ \E d \in {handleFree(Context, LabelOf(t, NextIns(Top.graph, t).op))} : Handled(d)
HandleDummy(t) ==
    /\ NextOp(t, {"F", "HP", "MB", "ME"})
    /\ \E d \in {handleDummy(Context, LabelOf(t, NextIns(Top.graph, t).op))} : Handled(d)
HandleAssume(t) == NextOp(t, {"ASSUME"}) /\ \E d \in {handleAssume(Context, t)} : Handled(d)
HandleThreadCreate(t) == NextOp(t, {"CREATE"}) /\ \E d \in {handleThreadCreate(Context, t)} : Handled(d)
HandleThreadJoin(t) == NextOp(t, {"JOIN"}) /\ \E d \in {handleThreadJoin(Context, t)} : Handled(d)
HandleThreadFinish(t) == NextOp(t, {"FINISH"}) /\ \E d \in {handleThreadFinish(Context, t)} : Handled(d)

(* What distinguishes executions: who reads from whom, and coherence.       *)
(* Threads are named by their creation, as ids depend on the schedule.      *)
ThreadNames(g) ==
    LET name[t \in ThreadIds(g)] ==
          IF t = 0 THEN <<>>
          ELSE LET c == g.lab[<<t, 0>>].createId IN Append(name[c[1]], c[2])
    IN name
Behaviour(g) ==
    LET names == ThreadNames(g)
        name(e) == <<names[e[1]], e[2]>>
    IN [rf |-> {<<name(r), name(g.lab[r].rf)>> : r \in Reads(g)},
        co |-> [l \in Locs |-> [i \in DOMAIN g.co[l] |-> name(g.co[l][i])]]]

(* Fault: a join that waits when the run ends is tried again. *)
retryJoins ==
    LET waiting == {p \in ThreadIds(Top.graph) : \E t \in ThreadIds(Top.graph) : WaitsFor(Top.graph, p, t)}
    IN /\ phase = "run" /\ internalError = NoError
       /\ isMoot \/ Schedulable(Top.graph) = {}
       /\ phase' = IF waiting = {} THEN "done" ELSE "run"
       /\ isMoot' = FALSE
       /\ SetTop([Top EXCEPT !.graph = unblockThreads(@, waiting)])
       /\ UNCHANGED <<prog, state, result, warned, explored, internalError>>

HandleExecutionEnd ==
    /\ phase = "run" /\ internalError = NoError
    /\ isMoot \/ Schedulable(Top.graph) = {}
    /\ phase' = "done"
    /\ IF isMoot THEN UNCHANGED <<result, explored>>
       ELSE IF isBlocked(Top.graph)
       THEN result' = [result EXCEPT !.exploredBlocked = @ + 1] /\ UNCHANGED explored
       ELSE /\ result' = [result EXCEPT !.explored = @ + 1]
            /\ explored' = explored \cup {Behaviour(Top.graph)}
    /\ UNCHANGED <<prog, execStack, state, isMoot, warned, internalError>>

(********************************* done() **********************************)

(* Fault: no repair. *)
leaveDanglingReads(g) == g

(* A thread's last read that lost its store reads the maximal one. *)
repairDanglingReads(g) ==
    LET lost == {r \in Reads(g) : g.lab[r].rf = Bottom /\ r[2] = LastIndex(g, r[1])}
    IN ReadMaximally(g, [r \in lost |-> co_max(g, Loc(g, r))])

AtomicAt(x, s) == [exec |-> x, ok |-> ~violatesAtomicity(x.graph, s)]

(* A read that becomes an RMW gets its write part. *)
completeRevisitedRMW(g, r, w) == addCo(addLabelToGraph(g, RMWWriteLabel(g, r)), <<r[1], r[2] + 1>>, w)

(* Fault: the write part is not added. *)
revisitReadOnly(x, r, w) == [exec |-> [x EXCEPT !.graph = setRf(x.graph, r, w)], ok |-> TRUE]
(* Change a read's store.  ok is whether atomicity holds. *)
ReadRevisited(x, g, r, w) ==
    IF valueMakesRMWSucceed(g, r, ValueOf(g, w))
    THEN AtomicAt(calcRevisits([x EXCEPT !.graph = completeRevisitedRMW(g, r, w)], <<r[1], r[2] + 1>>),
                  <<r[1], r[2] + 1>>)
    ELSE [exec |-> [x EXCEPT !.graph = g], ok |-> TRUE]
revisitRead(x, r, w) == ReadRevisited(x, updateLabelViews(setRf(x.graph, r, w), r), r, w)

revisitWrite(x, w, pred) ==
    AtomicAt(calcRevisits([x EXCEPT !.graph = moveCo(x.graph, w, pred)], w), w)

(* The revisit's events, and no longer revisitable what its write needs. *)
Settle(g, settled) ==
    [g EXCEPT !.lab = [e \in Events(g) |-> [g.lab[e] EXCEPT !.revisitable = @ /\ ~InView(settled, e)]]]
copyGraph(g, r, s) == Settle(getCopyUpTo(g, getRevisitView(g, r, s)), getPrefixView(g, s))

(* The top execution without its last item and cut to the item's event. *)
Restricted(event) ==
    [graph |-> repairDanglingReads(cutToStamp(Top.graph, Stamp(Top.graph, event))),
     workqueue |-> Front(Top.workqueue)]

NextItem(kind) == /\ phase = "done" /\ internalError = NoError
                  /\ Top.workqueue # <<>>
                  /\ Last(Top.workqueue).kind = kind

(* The memory state that the events of a graph leave behind. *)
reconstructState(g) == FoldLeft(LAMBDA st, e : Notify(st, g, e, HbView(g, e)), clear, ReplayOrder(g))

(* Run the program on the new graph if the revisit is valid.  The run       *)
(* starts with a new memory state (handleExecutionStart).                   *)
Continue(g, item, ok) ==
    \E valid \in {ok /\ isRevisitValid(g, item)} :
        /\ phase' = IF valid THEN "run" ELSE "done"
        /\ isMoot' = (isMoot /\ ~valid)
        /\ state' = IF valid THEN reconstructState(g) ELSE state

ForwardRevisitRead ==
    LET item == Last(Top.workqueue)
    IN /\ NextItem("RF")
       /\ \E rv \in {revisitRead(Restricted(item.pos), item.pos, item.rev)} :
             SetTop(rv.exec) /\ Continue(rv.exec.graph, item, rv.ok)
       /\ UNCHANGED <<prog, result, warned, explored, internalError>>

ForwardRevisitWrite ==
    LET item == Last(Top.workqueue)
    IN /\ NextItem("CO")
       /\ \E rv \in {revisitWrite(Restricted(item.pos), item.pos, item.rev)} :
             SetTop(rv.exec) /\ Continue(rv.exec.graph, item, rv.ok)
       /\ UNCHANGED <<prog, result, warned, explored, internalError>>

(* Fault: the copy gets the old items, too, if it has their events. *)
CopiedWithItems(g, item) ==
    LET copy == repairDanglingReads(copyGraph(g, item.pos, item.rev))
    IN [graph |-> copy,
        workqueue |-> SelectSeq(Front(Top.workqueue), LAMBDA i : {i.pos, i.rev} \subseteq Events(copy))]
Copied(g, item) == [graph |-> repairDanglingReads(copyGraph(g, item.pos, item.rev)),
                    workqueue |-> <<>>]

(* What goes wrong after a backward revisit with the copy x.  The run that  *)
(* starts on it if it is valid (handleExecutionStart), or the cut for its   *)
(* next item (cutToStamp), clears the memory state that it points to.       *)
(* VERIFY(ok): a backward revisit never breaks atomicity.                   *)
RevisitError(x, ok, valid) ==
    IF ~ok THEN "atomicity"
    ELSE IF ~CopiesHoldState /\ (valid \/ x.workqueue # <<>>) THEN "nullState"
    ELSE NoError

(* A backward revisit works on a copy, pushed on the execution stack. *)
BackwardRevisit ==
    LET item == Last(Top.workqueue)
    IN /\ NextItem("BR")
       /\ \E x \in {Restricted(item.rev)} :
          \E rv \in {revisitRead(Copied(x.graph, item), item.pos, item.rev)} :
             /\ execStack' = Front(execStack) \o <<x, rv.exec>>
             /\ Continue(rv.exec.graph, item, rv.ok)
             /\ internalError' = RevisitError(rv.exec, rv.ok, phase' = "run")
       /\ UNCHANGED <<prog, result, warned, explored>>

(* An error replay runs what is left after the cut once more, reports and   *)
(* drops it; an error halts the exploration.                                *)
ErrorReplay ==
    LET item == Last(Top.workqueue)
    IN /\ NextItem("WARN") \/ NextItem("ERROR")
       /\ SetTop(Restricted(item.pos))
       /\ phase' = IF item.kind = "ERROR" THEN "halted" ELSE "done"
       /\ result' = [result EXCEPT !.status = IF item.kind = "ERROR" THEN item.err ELSE @]
       /\ UNCHANGED <<prog, state, isMoot, warned, explored, internalError>>

PopExecution ==
    /\ phase = "done" /\ internalError = NoError
    /\ Top.workqueue = <<>>
    /\ execStack' = Front(execStack)
    /\ phase' = IF Len(execStack) = 1 THEN "finished" ELSE "done"
    /\ UNCHANGED <<prog, state, isMoot, result, warned, explored, internalError>>

Ended == phase \in {"finished", "halted"} \/ internalError # NoError
Terminated == Ended /\ UNCHANGED vars

RunStep(t) == \/ HandleLoad(t) \/ HandleNALoad(t) \/ HandleStore(t) \/ HandleNAStore(t) \/ HandleRMW(t)
              \/ HandleMalloc(t) \/ HandleFree(t) \/ HandleDummy(t) \/ HandleAssume(t)
              \/ HandleThreadCreate(t) \/ HandleThreadJoin(t) \/ HandleThreadFinish(t)
RevisitStep == \/ ForwardRevisitRead \/ ForwardRevisitWrite \/ BackwardRevisit
               \/ ErrorReplay \/ PopExecution

Next == \/ phase = "run" /\ \E t \in ThreadIds(Top.graph) : RunStep(t)
        \/ HandleExecutionEnd
        \/ RevisitStep
        \/ Terminated

Spec == Init /\ [][Next]_vars

(* One thread executes run() and done() and keeps taking steps until the    *)
(* end.  This is WF_vars(Next), as Next can change something unless the     *)
(* exploration has ended; TLC is not made to evaluate ENABLED.              *)
FairSpec == Spec /\ ([]<>Ended \/ []<><<Next>>_vars)

(******************************* Properties ********************************)

Running == phase = "run" /\ ~isMoot /\ internalError = NoError

(* Type invariant: the stack is non-empty until the end, the counters count *)
(* and every item is of a known kind.                                       *)
TypeOK ==
    /\ phase \in {"run", "done", "finished", "halted"}
    /\ isMoot \in BOOLEAN /\ warned \in BOOLEAN
    /\ result.explored \in Nat /\ result.exploredBlocked \in Nat
    /\ (phase = "halted") <=> (result.status # NoError)
    /\ phase # "finished" => execStack # <<>>
    /\ \A i \in DOMAIN execStack : \A j \in DOMAIN execStack[i].workqueue :
           execStack[i].workqueue[j].kind \in {"RF", "CO", "BR", "WARN", "ERROR"}

(* The last event of the top execution failed its checks and was not        *)
(* finished: the error is reported next.                                    *)
ErrorNext ==
    /\ isMoot \/ phase = "done"
    /\ Top.workqueue # <<>> /\ Last(Top.workqueue).kind = "ERROR"
Failed(i) == i = Len(execStack) /\ (phase = "halted" \/ ErrorNext)

(* Every graph on the stack is sound: what ExecutionGraph::validate() looks *)
(* for and what the views rely on.  An event is younger than its thread's   *)
(* earlier events, which are all there; a read reads a store of its         *)
(* location that is in the graph; coherence has writes of its location,     *)
(* each one once.  Unless the execution ends with an error every write is   *)
(* there, and a read whose value makes its RMW succeed is followed by the   *)
(* RMW's write.                                                             *)
WellFormed ==
    \A i \in DOMAIN execStack :
        LET g == execStack[i].graph
            stores(l) == {w \in Writes(g) : Loc(g, w) = l}
        IN /\ \A e \in Events(g) : e[2] > 0 => /\ <<e[1], e[2] - 1>> \in Events(g)
                                              /\ Stamp(g, <<e[1], e[2] - 1>>) < Stamp(g, e)
           /\ \A r \in Reads(g) : g.lab[r].rf \in {InitEvent, Bottom} \cup stores(Loc(g, r))
           /\ \A l \in Locs : ToSet(g.co[l]) \subseteq stores(l) /\ IsInjective(g.co[l])
           /\ ~Failed(i) =>
                 /\ \A l \in Locs : stores(l) \subseteq ToSet(g.co[l])
                 /\ \A r \in Reads(g) :
                       g.lab[r].rf # Bottom /\ valueMakesRMWSucceed(g, r, ReadValue(g, r)) => IsRMWRead(g, r)

(* Whenever the program runs, every RMW is atomic: its write comes right    *)
(* after the store that its read reads from in coherence.  Executions that  *)
(* break this are mooted, or they wait below for the conflict to be cut.    *)
RMWsAreAtomic ==
    Running => \A r \in Reads(Top.graph) :
                   IsRMWRead(Top.graph, r) =>
                       CoBefore(Top.graph, <<r[1], r[2] + 1>>) = Top.graph.lab[r].rf

(* "This is now unnecessary, as even a simple stack suffices" (WorkList):   *)
(* taking items last-in first-out never cuts away an event that an older    *)
(* item still refers to.                                                    *)
CutEvent(item) == IF item.kind = "BR" THEN item.rev ELSE item.pos
StackSuffices ==
    \A i \in DOMAIN execStack :
        LET x == execStack[i]
            cut(j) == Stamp(x.graph, CutEvent(x.workqueue[j]))
        IN \A j \in DOMAIN x.workqueue :
              /\ x.workqueue[j].pos \in Events(x.graph)
              /\ x.workqueue[j].rev \in Events(x.graph)
              /\ \A k \in 1 .. j : cut(k) <= cut(j)

(* The internal checks hold: a load always finds a store to read from, a    *)
(* new thread finds its id free, and a backward revisit never breaks        *)
(* atomicity.                                                               *)
NoInternalError == internalError = NoError

(* "All graphs on the execStack hold a non-owning pointer to this object"   *)
(* (GenMCDriver.hpp, of the driver's execState_): no run starts and no cut  *)
(* is made on a graph that has no memory state.                             *)
GraphsHoldState == internalError # "nullState"

(* Optimality: no complete execution is counted twice. *)
NoDuplicates == result.explored = Cardinality(explored)

(* When the program runs every read has a store: reads that lost theirs to  *)
(* a cut or a copy were repaired.                                           *)
NoDanglingReads == Running => \A r \in Reads(Top.graph) : Top.graph.lab[r].rf # Bottom

(* No thread stays blocked in a join whose thread has finished. *)
NoStuckJoin ==
    Running => \A p, t \in ThreadIds(Top.graph) : WaitsFor(Top.graph, p, t) => Finish(Top.graph, t) = {}

(* What a revisiting write depends on is settled: as long as the execution  *)
(* is on the stack nothing removes these events, changes their stores or    *)
(* makes them revisitable again.                                            *)
SettledEventsStay ==
    [][\A i \in DOMAIN execStack \cap DOMAIN execStack' :
          \A e \in Events(execStack[i].graph) :
             ~execStack[i].graph.lab[e].revisitable =>
                 /\ e \in Events(execStack'[i].graph)
                 /\ execStack'[i].graph.lab[e] = execStack[i].graph.lab[e]]_vars

(* Exploration ends, by exhaustion or with an error. *)
ExplorationTerminates == <>Ended
=============================================================================
