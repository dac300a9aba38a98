# A verification of GenMC's exploration

GenMC is a stateless model checker for C/C++ and Rust programs: it runs a
program again and again under the control of a driver, records every run as an
execution graph and, from the graph, derives the other executions that have to
be explored. These TLA+ modules model the part of GenMC on which its verdicts
rest - the driver, its graphs and memory state, the consistency checkers of all
five memory models (SC, TSO, RA, RC11, IMM), the test of linearizability hints,
the views that labels carry, and the pool of threads that explore in parallel -
and check and prove what makes it correct. IMM is modelled with the others
although it is switched off at this commit ("IMM is temporarily disabled",
`CHANGELOG.md:29`; the option is commented out at `lli/main.cpp:71`): its checker
and its graphs are maintained and can be chosen through the library.

Paths below are relative to the repository (`src/`); `DRIVER` stands for
`genmc/genmc/Verification/GenMCDriver.cpp`, `Consistency/` for
`genmc/genmc/Execution/Consistency/`.

## 1. The system

### Components

| Component | State | Operations | Correct when |
|---|---|---|---|
| `GenMCDriver` (exploration) | a stack of executions, each a graph and a worklist; moot flag; counters | one handler per kind of event the program makes (load, store, RMW, fence, assume, thread create/join/finish, malloc, free, methods, locks, barriers, ...); `done()`, which takes the next item and revisits | every consistent execution is explored, each once, and nothing else; errors are reported exactly if there are some; it ends |
| `WorkList`, `Revisit` | a stack of revisit items | `add`, `getNext` | an item never refers to an event that an earlier item cut away |
| `ExecutionGraph`, `DepExecutionGraph`, `EventLabel`, `GraphUtils` | labels by thread and index, stamps, reads-from and readers, coherence, create/join pointers; holes where dependencies allow a later event to stay | add a label, set reads-from, add/move in coherence, cut to a stamp, copy up to a view, remove the last label | updates keep reads-from, readers, coherence and stamps in step |
| consistency checkers (`SCChecker`, `TSOChecker`, `RAChecker`, `RC11Checker`, `IMMChecker`) | views cached in labels | views of a new label, coherent stores and placings, coherent revisits, consistency, errors and warnings, consistency with linearization edges | the choices over-approximate what is consistent; what is called consistent is what the model's axioms allow; an error is one of the program |
| `ExecutionState` | allocations, frees, retires, hazard pointers, last accesses and initialized locations | one update per kind of event, reconstruction from a graph | agrees with the graph after a cut |
| `View`, `DepView`, `Rc` | per label a base that labels share, a reference count and a diff of at most one event | set, join, copy, move, test of containment; deep copy with a graph | a view behaves as if it shared nothing; a base belongs to one driver, so that plain counts do |
| `Scheduler` | policy, replay schedule, instruction cache | `schedule`, cached and random scheduling | the choice does not change what is explored |
| `ThreadPool`, `GlobalWorkQueue`, `ThreadJoiner` | queue, number of remaining tasks, halt flag, two mutexes, a condition variable | `submit`, `popTask`, `decRemainingTasks`, `halt`, `waitForTasks`, destructor | no execution is lost or explored twice; nobody sleeps past the end |
| `Relinche` | specification, observations, hints | collecting a specification, checking hints on complete graphs | a hint that is consistent is an error, and no other |
| LLVM interpreter (`lli/Runtime`) | per-thread stacks | runs instructions and calls the driver's handlers | program state and graph agree |
| `BoundDecider`s, `SymmetryChecker` | - | bound of a graph, symmetric prefixes | agree with their definitions |
| `ChoiceMap`, estimation and random modes | choices seen so far | sampling | statistical |
| LLVM passes, configuration, parsing, logging, `ThreadPinner` | - | - | no exploration state |

### How they interact

`verify()` (`lli/main.cpp`) creates one driver, or a `ThreadPool` with one driver
per worker. A driver's `run()` executes the program in the interpreter. Before
every instruction the interpreter asks `scheduleNext()` for a thread; at a
visible event it calls a `handle...()` function, which adds a label to the top
execution's graph, asks the consistency checker for the label's views, for
errors and for choices, takes one and adds the others to the worklist, and
updates the memory state. A handler may moot the execution or report an error.
When no thread can run, `handleExecutionEnd()` counts the execution (and, when a
specification is given, checks its hints), and `done()` pops items until one
gives a valid graph: forward revisits change the top graph in place, backward
revisits push a copy. The next run begins with a memory state that is
reconstructed from the graph. With a pool, a backward revisit may instead become
a task of the pool: the graph is copied for another driver, and the bases of its
views are copied deeply, because their reference counts are not atomic. The
driver, graph and checker run in one thread; the pool is shared between threads,
and the views must not be.

### What is hard

* *Order and history.* Whether a revisit may be taken depends on insertion order
  (stamps), on how each event was added (maximally or not) and on what earlier
  revisits settled. Mistakes lose executions or repeat them, and only show up
  many steps later.
* *Cutting and copying.* Items, reads-from pointers and blocked threads survive
  a cut; each has to be valid in what is left. Under IMM what is left has holes.
* *RMWs.* An event that becomes an RMW because of a revisit needs its write; two
  RMWs reading one store are kept in the graph for a while on purpose.
* *In-place revisits.* They bypass the maximality check of other revisits.
* *Cached views.* Views are computed when a label is added and used long after;
  a revisit has to compute again what it changes.
* *Generated searches.* The checkers are automata of up to twenty mutually
  recursive functions, generated from axioms; one edge or one start state too few
  loses a cycle in a handful of programs.
* *Rebuilt memory state.* After a revisit the races, frees and protections that
  the state remembers are those of another run.
* *Copy on write.* Views of one driver share bases; a driver that changes one
  must not change the others, nor touch a count that another thread changes.
* *The pool.* A counter and a queue under different locks, an unlocked size
  check, `notify_one`, halting at any time, workers that start while the
  constructor still runs.

`PROJECT.json` lists these as hazards, at the line where each one bites.

## 2. Modules

| Module | Models | Composed with |
|---|---|---|
| `TaskPool` | abstract: what the pool promises to drivers | |
| `ThreadPool` | `Support/ThreadPool.{cpp,hpp}`, and what of `run()`/`backwardRevisit()` touches the pool | implements `TaskPool` |
| `ThreadPoolProofs` | theorems about `ThreadPool` | extends `ThreadPool` |
| `ViewContract` | abstract: clocks that share nothing | |
| `View` | `ADT/View.{hpp,cpp}`, `ADT/Rc.hpp`, and `fixView` of `ExecutionGraph.cpp` | implements `ViewContract` |
| `ViewProofs` | theorems about `View` | extends `View` |
| `ExecutionGraph` | `Execution/ExecutionGraph`, `DepExecutionGraph`, `EventLabel`, `GraphUtils` as pure operators | |
| `ExecutionState` | `Execution/ExecutionState`: the memory state as a record | extends `ExecutionGraph` |
| `Coherence` | the hand-written part that all checkers share: prefixes, coherent stores, placings and revisits | extends `ExecutionState` |
| `ConsistencyChecker` | what the generated checkers have in common: the relations, searches, errors | extends `Coherence` |
| `SCChecker`, `TSOChecker`, `RAChecker`, `RC11Checker`, `IMMChecker` | the checkers under `Consistency/`, one each | extend `ConsistencyChecker` |
| `GenMCDriver` | `DRIVER`, with `WorkList`, `Revisit`, the scheduling policies and the interpreter's calls | extends `ExecutionState`; the checker comes in through constant operators |
| `GraphInvariant` | the inductive invariants of the exploration, and what the proofs ask of a checker and a program | extends `GenMCDriver`, `Coherence` |
| `GraphProofs`, `DriverProofs`, `SettledProofs`, `WholeProofs`, `AtomicGraphs`, `AtomicProofs` | theorems about the exploration, each module on top of the one before | extend `GraphInvariant` |
| `LinearizabilityChecker` | `Relinche/LinearizabilityChecker.cpp`: the check of a hint | extends `GenMCDriver` |
| `Reference`, `SCReference`, `TSOReference`, `AxiomaticReference`, `RAReference`, `RC11Reference`, `IMMReference` | the executions of a program by the definition of a memory model; nothing of the driver or the checkers | extend `LinearizabilityChecker` for its programs and properties |
| `MCPrograms`, `MCLitmus`, `MCMemory` | the programs that are explored | |
| `MCSC`, `MCTSO`, `MCRA`, `MCRC11`, `MCIMM`, `MCThreadPool`, `MCView` | instances for TLC: driver, one checker, its reference, programs | |

Operators marked "Fault" are wrong versions of the operator below them; nothing
uses them. They show that a property notices the fault: with the faulty version
in place TLC refutes it (`mutants` in `PROJECT.json`).

### The pool

One action per critical section. `submit()` is three steps under `stateMtx_`
(count, push, notify) because other threads pop from the queue under another
mutex; everything else that holds `stateMtx_` makes one visible change and is
one action, enabled when the mutex is free. A worker between a failed `tryPop()`
and its lock is at `check`, a sleeping one at `waiting`; any waiter may wake up
by itself. What a driver does with its task is abstract: it may end, report an
error (and halt the pool), or make a backward revisit and share it. `size()`
reads a vector that the constructor is still appending to, so until all workers
are spawned the comparison that decides on sharing may go either way.

### The views

A view belongs to a label of a driver's graph. It has a base, which other views
may have too, and a diff, an event that it has and its base need not have.
`Clear`, `Copy`, `Move`, `UpdateIdx`, `SetMax`, `Update` and `Clone` stand for the
constructor, assignments, `updateIdx()`, `setMax()`, `update()` and the copy of a
graph for another driver, each with its choice between taking a diff, changing a
base that nobody else has, and making a base of one's own. A base that no view
points to is free again, which is what the count is for. `DepLabels` are the
labels whose prefix view is a `DepView`, which `copyGraphUpTo()` does not copy
deeply. `ViewContract` says what the rest of GenMC believes: every label has a
clock of its own.

Left out: the assertion that a sole owner has no diff (`View.cpp:85`, `:119`,
`:158`) can fail when the views that shared the base go away; the model goes on as
a release build does. A `setMax()` that would lower an index which such a diff
hides is excluded (`HidesLower`), as no caller makes one. `setMax(-1)` stored in a
diff reads as 0, which its two callers (`RoundBoundDecider.cpp:50`, `DRIVER:212`)
do not notice. `contains(View)` may say no although it should say yes
("Tough luck", `View.cpp:72`); the property is about yes.

### The exploration

The state is `execStack` (graphs and worklists), the memory state `state` of the
current run, where `run()`/`done()` is (`phase`), `isMoot`, the counters
`result`, whether a warning was reported (`warned`), the check that failed
(`internalError`) and the complete executions that were counted (`explored`, a
history variable). A graph is a record of the stamps `stamp`, the labels `lab`,
the coherence orders `co` and the linearization edges `lin`; readers and
create/join pointers are derived, and a view is the set of events it contains,
cached in the label where the code caches it. Only the order of the stamps of a
graph matters, and a cut numbers what is left consecutively, so that graphs
which differ in nothing else are one state. The program `prog` is data: per function a sequence of loads, stores
(of a constant or of the last loaded value), FAIs, CASes, fences, `assume`s,
branches, allocations, frees, retires, hazard pointers, method begins and ends,
thread creations and joins. The next instruction of a thread follows from its
last label, as replaying the graph gives it in GenMC.

| Action | Code |
|---|---|
| `HandleLoad`, `HandleNALoad` | `handleLoad` with its checks, `checkIPRValidity`, `reportError` |
| `HandleStore`, `HandleNAStore` | `handleStore` with its checks, `reportWarningOnce`, `calcCoOrderings`, `calcRevisits` |
| `HandleRMW` | the interpreter's `visitAtomicRMWInst`/`visitAtomicCmpXchgInst`: load handler, then store handler |
| `HandleMalloc`, `HandleFree` | `handleMalloc`, `handleFree` (also of retired memory) |
| `HandleDummy` | `handleFence`, `handleDummy`: fences, methods, hazard pointers |
| `HandleAssume`, `HandleThreadCreate`, `HandleThreadJoin`, `HandleThreadFinish` | the handlers of these names |
| `HandleExecutionEnd` | `handleExecutionEnd` |
| `ForwardRevisitRead`, `ForwardRevisitWrite`, `BackwardRevisit` | `restrictAndRevisit`, one round of the loop of `done()`, and the start of the next run |
| `ErrorReplay` | an item that reports a warning or an error; an error halts |
| `PopExecution` | `popExecution` |
| `Terminated` | nothing is left; the system stops here |

The operators inside the actions carry the names of the functions they stand
for. A checker offers the operators of the class `ConsistencyChecker`
(`calculateViews`, `calculatePrefixView`, `isConsistent`, `getCoherentStores`,
...), and a `.cfg` passes
them to the driver's constants, as `ConsistencyChecker::create()` does. In the
checkers, a family of generated functions `visit..._q(lab)` is one operator: the
calls that state `q` makes at an event.

Abstractions, and why they lose nothing that is checked:

* the depth-first searches with their node status are the set of calls they
  reach (`Search`) and whether there is a cycle among these (`isAcyclic`). The
  code counts a cycle only if it goes through an accepting state (19 in
  `RC11Checker` and `IMMChecker`, 17 in the second search of IMM); the model counts every
  cycle. Others would be cycles of happens-before or of one location's order,
  which coherent choices and atomicity exclude;
* reads of several threads that one step revisits in place, or repairs after a
  cut, get their stores and views at once and not one after the other: each is
  the last of its thread or followed by a block only, so none depends on
  another;
* handlers skip events that are already in the graph when a run starts again:
  the model continues right behind the graph;
* accesses have one size; static memory is always allocated and initialized;
* dependencies are those of the last load, by data, address or control; a CAS is
  a control dependency of what follows, as it is of its own store;
* whether a retired access was protected depends on the order of the run in the
  code, and in the model in the same way;
* begins without a creation are erased from the vector of threads
  (`ExecutionGraph.cpp:300`, `:353`). When main creates all threads these are the last
  ones; with nested creation an erased begin may have threads behind it, whose ids
  then change. The model keeps ids, and the theorems exclude nested creation;
* no bounding, symmetry reduction, lock or barrier, no estimation and no
  instruction cache.

## 3. Runs

| Run | Instance | Shows |
|---|---|---|
| `pool` | 3 workers, 3 executions, fair | the pool's invariants, that the end is final, that it implements `TaskPool`, and that every pool is torn down |
| `views` | 2 drivers with 2 views each, 4 bases, 2 threads, indices 0 and 1 | views behave as clocks that share nothing (`ImplementsContract`), no base is shared by two drivers, `contains()` is right when it says yes, bases end with no zero |
| `explore_threads` | SC, `wf` (the default), in-place revisits, race detection: all 666 programs of two threads with two accesses each over two locations, up to the order of the threads; 27 clients; and 200 programs of three threads: triples of eight bodies with competing RMWs, store buffering, dependencies and `assume`, and of seven bodies some of which wait for a value | every SC execution is found exactly once; graphs stay well formed: nothing a handler or a revisit began is left half done (`WellFormed`); a stack of items suffices; the internal checks hold; what the program runs on is atomic and consistent; reads that lose their store are repaired; what a revisit settled stays |
| `explore_joins` | SC, *any* schedulable thread may run at each step: 16 programs in which main writes, joins and reads | what is explored does not depend on the scheduler; no item that is left undoes what a revisit settled (`SettledInv`); no join is stuck; exploration ends |
| `explore_tso` | TSO: 156 programs with fences, SC accesses, RMWs, joins | the executions found are those of a machine with store buffers |
| `explore_ra` | RA, `ltr`, with the views that hints need: 75 litmus tests | the executions found are those of the axioms; cached views are happens-before |
| `explore_rc11` | RC11: the litmus tests, clients with methods, 86 programs with non-atomic accesses and allocated memory | the executions found are those of the axioms, each once; what the program runs on is consistent; a hint passes exactly if it is consistent; errors are reported exactly if there are some; the inductive invariant of the proofs (`DriverInv`) holds |
| `explore_imm` | IMM, *with a repaired copy of graphs* (`CopiesHoldState`, see below): 195 programs, load buffering with every kind of dependency in two threads and in a circle | the executions found are those of the axioms, each once; what the program runs on is consistent and atomic |
| `nested_creation`, `rc11_revisited_rmw`, `imm_copies`, `dep_views` | one program, one program, load buffering under IMM, the instance of `views` | disagreements, see below |

`SoundAndComplete` compares the result of an exploration with the executions of
the memory model's definition. Under SC the threads take turns in every way and a
load reads the last store to its location; under TSO they also have store
buffers; for RA, RC11 and IMM every assignment of reads-from and coherence is
tried and the axioms select. Two executions are the same if reads-from and
coherence are (`Behaviour`), which is also what "optimal" counts. A program for
which an error is reported is not explored further, and `SoundAndComplete` says
nothing about it; `ErrorsFound` compares the report with the axioms' races,
double frees, accesses of freed, unprotected, unallocated or uninitialized
memory. The references also state `HintsExact` for SC, RA and IMM, which
holds on the same instances and is not repeated in the runs.

`CopiesHoldState` says whether the copy that a backward revisit makes of a graph
points to the driver's memory state. `ExecutionGraph::getCopyUpTo()` passes the
pointer on, and `DriverAssumption` says so for the models that do not track
dependencies; `DepExecutionGraph::getCopyUpTo()`, the copy under IMM, does not.
With the code as it is no IMM exploration gets past its first backward revisit
(`imm_copies`). `explore_imm` sets the constant to `TRUE`: what it shows of the
IMM checker, of holes and of the driver holds of the code once the copy is repaired.

The modules `MCSC`, `MCTSO`, `MCRA` and `MCRC11` also state, as assumptions that
TLC evaluates, that the programs of their runs are what the theorems ask of a
program (`ProgramOK`, `AtomicLoads`).

**Bounds.** A program is finite and so is its exploration: nothing else is
bounded in the exploration runs, there is no state constraint. Two threads with
two accesses cover the classic two-thread litmus shapes (message passing, store
buffering, load buffering, coherence, RMW against RMW or store) in every
combination; backward revisits that remove other reads, conflicting RMWs with a
third party, nested revisits (a stack of three executions) and in-place revisits
that are cut away again need three threads, and happen with these bodies. For the
other models the programs are the litmus tests that tell orderings apart: under
IMM the interesting case is a graph with a hole, which every program without a
dependency in one of its threads reaches. Hints have one or two edges.
In the pool, three workers are enough for one to submit, one to go to sleep and
one to finish at once; the number of executions only bounds how long this can go
on. `SharePerWorker` is 1 instead of 8, so that the threshold is met; the
theorems hold for any value. Two views per driver and four bases are what it takes
to share, to separate and to clone; with indices 0 and 1 no diff is replaced by a
later event of the same thread, which the theorems about views cover.

**Fairness.** Pool: threads are scheduled by the operating system, so each keeps
taking steps (weak fairness); a thread that waits for `stateMtx_` gets it
eventually although others take it in between (strong fairness on the steps that
lock); and a driver's exploration of one execution ends (`SF` on `TaskDone`),
which is what `explore_joins` shows of the driver. Nothing is assumed about
errors, sharing or spurious wake-ups. Exploration: one thread runs `run()` and
`done()` and takes a next step as long as there is one. This is weak fairness of
`Next`; as a step that changes something is possible until the end
(deadlock is checked), `FairSpec` says so without `ENABLED`, which is costly
to evaluate for actions of this size.

**Deadlock** is checked in every run: the exploration and the pool have an
explicit final state, and views can always be changed.

### Disagreements with the documentation

Each of these has a run:

* `nested_creation`. "This tid should not already exist in the graph"
  (`DRIVER:1155`). Main creates two threads that load and then create one each.
  When a backward revisit removes the creation of thread 3, the begin of thread 3
  stays, because orphaned begins are only dropped from the end and thread 4
  is still there. When the creation is executed again its identifier is taken and
  the check at `DRIVER:1156` fails.
* `rc11_revisited_rmw`. "GenMC will report executions containing races as
  erroneous" (`doc/manual/features.md:77`). The store that completes an RMW
  after a revisit is not checked for races (`DRIVER:494`); if it is the only one in a
  race nothing is reported.
* `imm_copies`. "All graphs on the execStack hold a non-owning pointer to this
  object" (`genmc/genmc/Verification/GenMCDriver.hpp:758`, of the driver's memory state).
  `DepExecutionGraph::getCopyUpTo()` (`DepExecutionGraph.cpp:135`) builds its copy without
  it, and only `initFromState()` (`DRIVER:139`) sets it: after a backward revisit that
  the driver keeps, `handleExecutionStart()` (`DRIVER:220`) or the next
  `cutToStamp()` (`DepExecutionGraph.cpp:130`) dereferences null. IMM only, so it is
  reachable only through the library.
* `dep_views`. `Rc` assumes that all "pointers to an object are owned by a single
  thread." (`ADT/Rc.hpp:32`). Prefix views of IMM are `DepView`s, which
  `copyGraphUpTo()` does not copy deeply (`ExecutionGraph.cpp:412`): after
  `extractState()` two drivers share bases and their plain counts. As IMM is off in
  the command line, this too concerns only programs that choose it through the library.

The following were met on the way. Each can be reproduced by setting `Programs`,
and `Locs` to the locations it uses, in the run that is named:

* Two initializers (`explore_rc11`, `OnlyTwoInitializers` of `MCMemory`,
  `ErrorsFound`): `markInitialized()` (`ExecutionState.cpp:498`) remembers the
  first store only, so a thread that reads its own store is reported for reading
  uninitialized memory when another thread's store came first.
* Partial SC order (`explore_rc11`, `OnlyZ6U`): `sb;hb;sb` at
  `RC11Checker.cpp:4119` does not look at locations; 22 of the 24 executions of
  Z6.U are found, which is what `tests/correct/litmus/Z6.U` expects.
* SC read and fence (`explore_rc11`, `OnlySCReadAndFence`,
  `RC11Checker.cpp:4092`): 7 of 8 executions are found.
* A thread created between two stores (`explore_rc11`,
  `OnlyCreateBetweenStores`, `RC11Checker.cpp:315`): the creation counts as a
  release for later relaxed stores; 3 of 4 executions are found.
* Own stores under IMM (`explore_imm`, `OnlyOwnStores`):
  `detour_preds` (`ExecutionGraph.hpp:1086`) includes a thread's own older
  stores; 3 of 4 executions are found.
* Optimality with in-place revisits (`explore_threads`, `OnlyAwaits` with
  `RaceDetection = FALSE`, `NoDuplicates`): the manual says the technique "is sound, complete, and
  optimal" (`doc/manual/index.md:13`). In

      T1: assume(x == 1); y = 1    T2: fetch_add(x, 1)    T3: r = y; x = 1

  the execution in which T1 and T2 read T3 is counted twice: T3's store may revisit
  T2's load, after which T1's load is left without a store and repaired, and may
  revisit T1's load like any other. `tryOptimizeIPRs()` filters the second only if there
  is an RMW in conflict with the new store (`DRIVER:2643`). With race detection, the default,
  the unordered writes are reported first.

## 4. Proofs

### The pool

`ThreadPoolProofs` proves, for any finite set of workers and executions and any
sharing threshold (`PoolAssumption`):

* `PoolTypes`, `PoolCounts`, `PoolLosesNothing`, `PoolSharesNothing`,
  `PoolStrandsNothing`, `PoolWakesEverybody`, `PoolDrains`: the invariants of
  `pool`;
* `PoolEndIsFinal`: once no tasks remain none will be submitted;
* `PoolImplementsContract`: `ThreadPool` implements `TaskPool`.

The argument: none of the invariants is inductive alone. `IInv` adds two parts.
`LocalInv` ties a worker's program counter to what it owns: it has a task exactly
while it is inside its driver, a child exactly while it submits, and the mutex
exactly between counting and notifying; children being submitted are new and
distinct. `MainInv` says that the main thread leaves `waitForTasks()` only if the
pool halts or no task remains, and what holds from then on. With these,
`remaining` changes in step with `submitted \ completed` (`CountStep`), an
execution moves between its places one at a time (`LostStep`, `SharedStep`), and
a queued execution always has an awake worker (`StrandedStep`): whoever pushed
it is still at `notify` or `run`, and a worker that ends its task looks at the
queue again before it can sleep. Nobody sleeps past the end (`SleepStep`),
because the last decrement and `halt()` wake everybody under the mutex, and a
worker tests both conditions under the same mutex before it waits. The refinement maps
`halted` to `shouldHalt` and `answered` to the program counter of the main
thread; each step is a step of `TaskPool` or a stutter (`RefinementStep`).

### The views

`ViewProofs` proves, for any labels, drivers, bases, number of threads and indices
(`ViewAssumption`):

* `TypeCorrect`: bases and diffs have their types;
* `BasesStayTrimmed`: no base ends with a zero, which the size comparisons rely on;
* `BasesHaveOneOwner`: without `DepView`s, no base is shared by two drivers (with
  them `dep_views` shows that it is);
* `ContainsIsSound`: `contains()` is right when it says yes;
* `ViewsImplementContract`: `View` implements `ViewContract`.

The argument: `DiffLemma` says that a view knows of a thread the larger of what its
base and its diff say. For each operation on bases a lemma gives what it returns
(`Trim`, `Resized`, `SetMax`, `UpdateIdx`, `Update`). Every step of one view has the same
shape, `Becomes`: the view gets a base that nobody has, or keeps one that views of its own driver
have, and the contents of a base that somebody else has do not change. `BecomesLemma`
derives from that shape that all other views say what they said before, and that
bases keep one owner; one lemma per operation shows the shape and what the view
says afterwards, which is the step of `ViewContract`. `CloneLemma` does the same for
the copy of a graph, whose new bases are given by an injective map.

### The exploration

`DriverProofs`, `SettledProofs`, `WholeProofs` and `AtomicProofs` prove, for any set of programs that satisfy `ProgramOK`, with any
number of threads and instructions, any order in which threads are scheduled,
with or without in-place revisits and race detection, and for any checker that
satisfies `CheckerOK`:

* `DriverInvariant`: `DriverInv`, the inductive invariant below, holds at every
  step; `DriverTypes`: with it the types;
* `StackSufficesAlways`: items lie in the order of the stamps at which they cut
  and refer to events of their graph. `WorkList` is a stack on the strength of
  this: no item cuts away what an older one needs;
* `JoinsNeverStuck`: while the program runs, no thread waits for one that has
  finished, whatever was cut, copied or finished in between;
* `ReadsNeverDangle`: if all loads are atomic, every read of the graph that the
  program runs on has a store;
* `SettledInvariant`: `SettledInv`, that what backward revisits settled is closed under
  reads-from and that no item which is left cuts it away or leaves it out of a copy;
* `SettledStay`: if all loads are atomic, a settled event keeps its place and its
  label as long as its execution is on the stack (`SettledEventsStay`): a revisit is
  never undone, so its result can be explored without looking back;
* `WholeInvariant`: `WholeInv`, the inductive invariant behind the next one;
* `WellFormedAlways`: in every execution on the stack threads have no gaps and begin
  with a begin, a read has the initializer, a store of its location or, for a while, none,
  and coherence has writes of its location, each once; and, unless the execution ends
  with an error, every write is in coherence and a read whose value makes its RMW
  succeed is followed by the RMW's write (`WellFormed`);
* `AtomicInvariant`: `AtomicInv`, the inductive invariant behind the next two;
* `NoInternalErrorEver`: the `VERIFY()`s of the driver hold: a load finds a store to
  read from, a new thread has the next id, a backward revisit never breaks atomicity;
* `RMWsAlwaysAtomic`: whenever the program runs, the write of every RMW comes in
  coherence right after the store that its load reads (`RMWsAreAtomic`).

*Hypotheses.* `CheckerOK` says that prefix views, coherent stores, placings and
revisits are those of `Coherence` for some view `hb`, without tracking of
dependencies. The checkers for SC, TSO, RA and RC11 define them so, word for
word. It also says that warnings are about writes: the only one there is, about
unordered writes, is (`checkWarning9` and its like). Nothing is asked of their views, of consistency or of the errors they
report, so the theorems hold whatever these are. IMM tracks dependencies and is
not covered. `ProgramOK` says that accesses have a location, that RMWs are atomic, as
`atomicrmw` and `cmpxchg` of LLVM are, that main creates all
threads (`nested_creation` shows what happens otherwise), and that an annotated
load is followed by its `assume`, as the pass that annotates loads sees to, and
is atomic if it can be revisited in place. `AtomicLoads` is
needed for `ReadsNeverDangle` because a non-atomic load that fails its checks has
no store, and for `SettledStay` because such a load may be settled without a store
and is then repaired. TLC evaluates both on the programs of the runs.

*The invariant.* An item is right if the events it refers to survive its cut; they
do if they are older than the cut, or in the prefix of an event that survives;
that needs closed prefixes; and prefixes stay closed under cuts only if a read that loses
its store had nothing after it. So `DriverInv` says of every graph on the stack:

* stamps are distinct and go up in program order, threads have no gaps, begin with
  a begin and are created by main in the order of their ids;
* the coherence of a location lists writes to it, each once; a read has no store,
  the initializer or a store of its location;
* `StoreFirst`: what follows a read in its thread is younger than the store that
  it reads. A cut to a stamp therefore takes the store away only from a read that is
  the last one left of its thread, and repairing it changes nothing else;
* `PrefixOK`: the prefix cached in a label is closed under the prefixes of its
  events and the successors of its reads; it has no block; and what it contains is
  older than the event, or came with the store that the event reads (which a revisit
  may have given it long after it was added);
* `Blocked`: with in-place revisits, a read whose value fails its `assume` has
  nothing but a block after it, so that the revisit removes no other event;
* `Joins`: no block waits for a thread that has finished;

and of every item that it refers to events which its cut leaves, that a
backward revisit's store does not depend on the read it revisits, and that items
are sorted. Reads may lack a store only where an error is about to be reported
(`ErrorNext`).

*The argument.* `GraphProofs` begins with the facts about numbers, finite sets and
sequences; where one would use induction over a graph, the proofs take the oldest
event that fails and derive a contradiction. It goes on to
show that the invariant of a graph survives the three kinds of changes
made to graphs: a label is added (`Added`), labels or coherence change while
events and stamps do not (`SameReads`, `Reread`, `SetsRf`, `CoGrows`), events are
removed (`Shrunk`). Each operator of `ExecutionGraph` is shown to be such a change,
so that the handlers' proofs need not expand it. `DriverProofs` shows what such a change leaves
of the items (`Keeps`), treats the parts of a step (`calcRevisits`, in-place
revisits, the cut of `done()`, the copy of a backward revisit), and has one lemma per
action.

*What is settled.* `SettledEventsStay` is about one step and needs to know that the
item which `done()` takes spares the settled events. So `SettledInv` says of every item
that settled events are not newer than the event at which it cuts (a begin counts as
old as the creation of its thread, with which it goes), that this event is not settled
itself, and, of a backward revisit, that its copy takes everything settled along: it is not
newer than the read or lies in the prefix of the store. An item gets this when it is
pushed, because it is for an event that was just added, or, a backward revisit, because
`calcRevisits` takes only reads whose revisit removes nothing settled (`isMaximalExtension`). It keeps it when
new events are settled, because that happens only in the copy of a backward
revisit, whose worklist is empty. In a cut a read may lose its store and be given
another one; that leaves settled reads alone because what they read is settled
(`SettledOK`), and stays. The proof states what a step does to settled events
once (`Stays`, a relation between two graphs that composes), shows it for each operator,
and has one lemma per action that yields both the invariant and the step property.

*What is whole.* `WellFormed` fails in the middle of a handler: a load is in the
graph before its RMW has its write, a write before it is in coherence, and a
read is revisited before the write that it now needs is there. An error ends the
handler at such a point, which is the exemption in `WellFormed` (`Failed`: only the top
execution, when the error is reported next or has been). Everywhere else the handler
finishes. The danger is then in what comes later: a cut could fall between the two
parts of an RMW, or take away the store that a load reads, so that the load is repaired
and gets a value that asks for a write which nobody adds. So `WholeInv` says
of every execution, beyond writes in coherence (`Placed`) and RMWs with their writes
(`Completed`):

* `Unsplit`: what was added between the load and the write of an RMW is settled. The
  handler adds them one after the other; a revisit completes the RMW at the end of
  its copy, where everything after the revisited read is settled. By `SettledInv` no
  item cuts below a settled event, so no cut separates the parts. A begin is left out:
  it goes with the creation of its thread;
* `OlderStores`: the load of an RMW reads a store that is older, or one that is settled
  because it revisited the load. A cut that takes the store away takes the load with
  it, and the reads that are repaired are never those of RMWs.

`Whole(g, X)` says this of a graph but for the events `X` that are not finished yet.
The changes of `GraphProofs` are treated once, as a relation between two graphs
(`Moves`) under which only new events and reads that lost their store become
unfinished (`WholeStep`); a handler's lemma then shows that it finishes the event at hand
(`Finished`, `WholeFinished`), that of a backward revisit that the copy is whole but for the
revisited read (`CopyWhole`) and that `revisitRead` finishes it. Below the top of
the stack nothing changes.

*What is atomic.* Two RMWs that read one store are in the graph together for a while:
the write of the second is added, `violatesAtomicity()` gives the execution up, and
only the items pushed before are of use. And the write of an RMW that competes with another
one does lie between that one and its store. So `AtomicInv` does not say that all RMWs are atomic; it says
of every execution that does not end with an error:

* `Paired`: a write of an RMW instruction comes right after a read that makes the RMW
  succeed, and no other write comes there;
* `Adjacent`: in coherence there is nothing between an RMW's write and the store that
  its load reads but writes of its competitors, the RMWs that read the same store;
* `ConflictLast`: if two RMWs compete, the write of one is the youngest event, so that the
  cut for any older item removes it; while the program runs none compete
  (`NoConflict`);
* `ItemsAtomic`: of each item, what keeps this so when it is taken. Another store for a
  load (`RFAtomic`) is not read by an RMW on which the load depends; another place of a store
  (`COAtomic`) is not right before an RMW's write, and only plain stores have one; a revisit by an RMW's
  write (`BRAtomic`) leaves the competitors of that write out of its copy.

and that no internal check has failed. Why a check cannot fail: a load is always offered
the last store in coherence, and `getRfsApproximation()` does not take it away, because an
RMW that reads it would have its own write behind it (`Adjacent`); and when a backward
revisit makes an RMW of its read, the copy has no other RMW that reads the revisiting
store, because that store is the youngest event of the graph that is copied.
`AtomicGraphs` treats coherence as an order (`Precedes`, `CoOrder`)
and the changes of a graph as before: `Carries` is what they have in common, `Inserted` what placing or
moving a store does, and `Apart` says when an insertion parts no RMW from its store, which is where the
placings that checkers offer come in. `AtomicProofs` has the handlers, the revisits and the actions.

### What is only model-checked

Liveness (`PoolTerminates`, `ExplorationTerminates`) is outside what the prover
handles. `SoundAndComplete`, `NoDuplicates`, `HintsExact`, `ErrorsFound`,
`HbViewsExact` and `ConsistentSoFar` compare whole explorations or paths through graphs,
and would need induction over data; the checkers' searches are recursive operators.
For IMM all of it is checked by TLC only.

## 5. Plan

Done: the pool with its proofs; the exploration under all five memory models, with
memory errors, races and hints; nested thread creation; views with their
proofs; the inductive invariants of the exploration, up to the atomicity of RMWs. What is left, in this order:

1. *Pooled exploration*: compose `GenMCDriver` with the pool's contract.
   `extractState()` hands over a copy with an empty worklist, while items from
   completing the copy's RMW stay with the submitting driver. Properties: the
   union over drivers is sound, complete and without duplicates.
2. *Locks and blocking CASes*: `removeCASReadIfBlocks`, rescheduled reads and
   `checkReconsiderReadOpts`; mutual exclusion and no lost rescheduling. Then
   barriers (BAM).
3. *Scheduler cache and replay*: `runFromCache`, error replay up to the event.
4. *Bounding, symmetry, the collection of hints* as operators against reference
   definitions.

### Not modelled

Estimation and random modes (statistical results); LLVM passes and the evaluation
of LLVM instructions (no exploration state); mixed-size accesses; containers other than views;
configuration, parsing, printing, pinning threads to processors.
