----------------------------- MODULE ThreadPool -----------------------------
(***************************************************************************)
(* The pool of exploration threads (genmc/Support/ThreadPool).             *)
(*                                                                         *)
(* The main thread submits the empty execution, spawns the workers one by  *)
(* one (they run while it is still spawning), spins in waitForTasks() and  *)
(* destroys the pool.  A worker pops an execution from the global queue,   *)
(* explores it with its own driver, which may submit further executions,   *)
(* and then decrements the number of remaining tasks.                      *)
(*                                                                         *)
(* Steps are the code's critical sections.  A section under stateMtx_ that *)
(* makes one visible change is one action, enabled when the mutex is free; *)
(* submit() makes two (the counter, then the queue, which other threads    *)
(* pop without taking stateMtx_), so it is three steps under the mutex.    *)
(***************************************************************************)
EXTENDS Naturals, Sequences, FiniteSets

CONSTANTS Workers,      \* the worker threads (numWorkers_ of them)
          Tasks,        \* executions that may be submitted: bounds the exploration
          InitialTask,  \* the empty execution the constructor submits
          None,         \* no task; nobody owns the mutex
          SharePerWorker \* a driver shares work while fewer than SharePerWorker
                        \* tasks per worker remain (8 in the code)

ASSUME PoolAssumption == /\ InitialTask \in Tasks
                         /\ None \notin Tasks \cup Workers
                         /\ IsFiniteSet(Tasks)
                         /\ IsFiniteSet(Workers)
                         /\ Workers # {}
                         /\ SharePerWorker \in Nat

VARIABLES queue,       \* GlobalWorkQueue: pushed and popped at the back
          remaining,   \* remainingTasks_
          shouldHalt,  \* shouldHalt_
          mtx,         \* the worker in the middle of submit(), or None
          pc,          \* where each worker is
          task,        \* the execution a worker's driver explores
          child,       \* the execution a worker is submitting
          mainPc,      \* where the main thread is
          submitted,   \* history: executions counted by submit()
          completed    \* history: executions whose exploration ended

vars == <<queue, remaining, shouldHalt, mtx, pc, task, child, mainPc,
          submitted, completed>>

(* unborn: not spawned; pop: about to tryPop(); check: found nothing, about *)
(* to lock stateMtx_; waiting: in stateCV_.wait; woken: left the wait, must *)
(* relock; run: inside threadFun; revisit: a backward revisit is being made *)
(* and tp->getRemainingTasks() is read next; submit, push, notify: the      *)
(* steps of submit(); halting: about to call halt(); finish: threadFun has  *)
(* returned; exited: the thread function returned its result.               *)
WorkerPcs == {"unborn", "pop", "check", "waiting", "woken", "run", "revisit",
              "submit", "push", "notify", "halting", "finish", "exited"}
MainPcs == {"spawn", "waitForTasks", "destroy", "join", "returned"}

Waiting == {w \in Workers : pc[w] = "waiting"}
Spawned == {w \in Workers : pc[w] # "unborn"}

(* notify_all, and one wake-up of notify_one: a waiter leaves the wait set. *)
WakeAll(newPc) == [w \in Workers |-> IF newPc[w] = "waiting" THEN "woken" ELSE newPc[w]]
Goto(w, l) == [pc EXCEPT ![w] = l]

Init == /\ queue = <<InitialTask>>
        /\ remaining = 1
        /\ shouldHalt = FALSE
        /\ mtx = None
        /\ pc = [w \in Workers |-> "unborn"]
        /\ task = [w \in Workers |-> None]
        /\ child = [w \in Workers |-> None]
        /\ mainPc = "spawn"
        /\ submitted = {InitialTask}
        /\ completed = {}

-----------------------------------------------------------------------------
(* Faults: wrong versions of some of the actions below, each breaking one of *)
(* the properties at the end of the module.                                  *)

(* waitForTasks() looks at the queue instead of the counter. *)
waitForEmptyQueue == /\ mainPc = "waitForTasks"
                     /\ shouldHalt \/ queue = <<>>
                     /\ mainPc' = "destroy"
                     /\ UNCHANGED <<queue, remaining, shouldHalt, mtx, pc, task, child,
                                    submitted, completed>>

(* tryPop() reads the back of the queue and forgets pop_back(). *)
tryPopKeeps(w) == /\ pc[w] = "pop"
                  /\ queue # <<>>
                  /\ task' = [task EXCEPT ![w] = queue[Len(queue)]]
                  /\ pc' = Goto(w, "run")
                  /\ UNCHANGED <<queue, remaining, shouldHalt, mtx, child, mainPc,
                                 submitted, completed>>

(* A halted pool is tested for before the queue, so queued tasks are left. *)
tryPopUnlessHalted(w) == /\ pc[w] = "pop"
                         /\ queue = <<>> \/ shouldHalt
                         /\ pc' = Goto(w, "check")
                         /\ UNCHANGED <<queue, remaining, shouldHalt, mtx, task, child, mainPc,
                                        submitted, completed>>

(* popTask() forgets that a halted pool must not be waited on. *)
checkStateIgnoresHalt(w) == /\ pc[w] = "check"
                            /\ mtx = None
                            /\ pc' = Goto(w, IF remaining = 0 THEN "exited" ELSE "waiting")
                            /\ UNCHANGED <<queue, remaining, shouldHalt, mtx, task, child,
                                           mainPc, submitted, completed>>

(* halt() also resets the counter, to let waitForTasks() go. *)
haltResetsCounter(w) == /\ pc[w] = "halting"
                        /\ mtx = None
                        /\ shouldHalt' = TRUE
                        /\ remaining' = 0
                        /\ pc' = WakeAll(Goto(w, "run"))
                        /\ UNCHANGED <<queue, mtx, task, child, mainPc, submitted, completed>>

(* submit() forgets to count. *)
submitUncounted(w) == /\ pc[w] = "submit"
                      /\ mtx = None
                      /\ mtx' = w
                      /\ submitted' = submitted \cup {child[w]}
                      /\ pc' = Goto(w, "push")
                      /\ UNCHANGED <<queue, remaining, shouldHalt, task, child, mainPc, completed>>

(* push() overwrites the queue. *)
submitOverwrites(w) == /\ pc[w] = "push"
                       /\ queue' = <<child[w]>>
                       /\ child' = [child EXCEPT ![w] = None]
                       /\ pc' = Goto(w, "notify")
                       /\ UNCHANGED <<remaining, shouldHalt, mtx, task, mainPc, submitted, completed>>

(* The worker that finds one task left, instead of none, leaves. *)
leaveOneTooEarly(w) == /\ pc[w] = "finish"
                       /\ mtx = None
                       /\ remaining' = remaining - 1
                       /\ completed' = completed \cup {task[w]}
                       /\ task' = [task EXCEPT ![w] = None]
                       /\ pc' = IF remaining' <= 1 THEN WakeAll(Goto(w, "exited"))
                                                   ELSE Goto(w, "pop")
                       /\ UNCHANGED <<queue, shouldHalt, mtx, child, mainPc, submitted>>

-----------------------------------------------------------------------------
(* Main thread *)

addWorker == /\ mainPc = "spawn"
             /\ \E w \in Workers \ Spawned : pc' = Goto(w, "pop")
             /\ UNCHANGED <<queue, remaining, shouldHalt, mtx, task, child, mainPc,
                            submitted, completed>>

AllSpawned == /\ mainPc = "spawn"
              /\ Spawned = Workers
              /\ mainPc' = "waitForTasks"
              /\ UNCHANGED <<queue, remaining, shouldHalt, mtx, pc, task, child,
                             submitted, completed>>

waitForTasks == /\ mainPc = "waitForTasks"
                /\ shouldHalt \/ remaining = 0
                /\ mainPc' = "destroy"
                /\ UNCHANGED <<queue, remaining, shouldHalt, mtx, pc, task, child,
                               submitted, completed>>

(* ~ThreadPool: halt(), then the joiner waits for every worker. *)
DestructorHalt == /\ mainPc = "destroy"
                  /\ mtx = None
                  /\ shouldHalt' = TRUE
                  /\ pc' = WakeAll(pc)
                  /\ mainPc' = "join"
                  /\ UNCHANGED <<queue, remaining, mtx, task, child, submitted, completed>>

Join == /\ mainPc = "join"
        /\ \A w \in Workers : pc[w] = "exited"
        /\ mainPc' = "returned"
        /\ UNCHANGED <<queue, remaining, shouldHalt, mtx, pc, task, child,
                       submitted, completed>>

-----------------------------------------------------------------------------
(* popTask() *)

(* queue_.tryPop() finds a task: taken from the back, under qMutex only. *)
tryPop(w) == /\ pc[w] = "pop"
             /\ queue # <<>>
             /\ task' = [task EXCEPT ![w] = queue[Len(queue)]]
             /\ queue' = SubSeq(queue, 1, Len(queue) - 1)
             /\ pc' = Goto(w, "run")
             /\ UNCHANGED <<remaining, shouldHalt, mtx, child, mainPc, submitted, completed>>

tryPopEmpty(w) == /\ pc[w] = "pop"
                  /\ queue = <<>>
                  /\ pc' = Goto(w, "check")
                  /\ UNCHANGED <<queue, remaining, shouldHalt, mtx, task, child, mainPc,
                                 submitted, completed>>

(* Under stateMtx_: return nullptr, which ends the worker, or wait. *)
checkState(w) == /\ pc[w] = "check"
                 /\ mtx = None
                 /\ pc' = Goto(w, IF shouldHalt \/ remaining = 0 THEN "exited" ELSE "waiting")
                 /\ UNCHANGED <<queue, remaining, shouldHalt, mtx, task, child, mainPc,
                                submitted, completed>>

(* A condition variable may wake up a waiter nobody notified. *)
SpuriousWakeup(w) == /\ pc[w] = "waiting"
                     /\ pc' = Goto(w, "woken")
                     /\ UNCHANGED <<queue, remaining, shouldHalt, mtx, task, child, mainPc,
                                    submitted, completed>>

(* wait() relocks stateMtx_; the end of the loop body unlocks it. *)
Relock(w) == /\ pc[w] = "woken"
             /\ mtx = None
             /\ pc' = Goto(w, "pop")
             /\ UNCHANGED <<queue, remaining, shouldHalt, mtx, task, child, mainPc,
                            submitted, completed>>

-----------------------------------------------------------------------------
(* threadFun: the driver explores the execution it was given *)

(* done() sees isHalting(), or has nothing left to revisit. *)
TaskDone(w) == /\ pc[w] = "run"
               /\ pc' = Goto(w, "finish")
               /\ UNCHANGED <<queue, remaining, shouldHalt, mtx, task, child, mainPc,
                              submitted, completed>>

(* A verification error: driver->halt(), which calls tp->halt(). *)
ReportError(w) == /\ pc[w] = "run"
                  /\ pc' = Goto(w, "halting")
                  /\ UNCHANGED <<queue, remaining, shouldHalt, mtx, task, child, mainPc,
                                 submitted, completed>>

halt(w) == /\ pc[w] = "halting"
           /\ mtx = None
           /\ shouldHalt' = TRUE
           /\ pc' = WakeAll(Goto(w, "run"))
           /\ UNCHANGED <<queue, remaining, mtx, task, child, mainPc, submitted, completed>>

(* done() was not halting and popped a backward revisit. *)
BackwardRevisit(w) == /\ pc[w] = "run"
                      /\ ~shouldHalt
                      /\ pc' = Goto(w, "revisit")
                      /\ UNCHANGED <<queue, remaining, shouldHalt, mtx, task, child, mainPc,
                                     submitted, completed>>

(* The revisit is explored here: it is inconsistent, or enough tasks remain. *)
KeepRevisit(w) == /\ pc[w] = "revisit"
                  /\ pc' = Goto(w, "run")
                  /\ UNCHANGED <<queue, remaining, shouldHalt, mtx, task, child, mainPc,
                                 submitted, completed>>

(* size() reads workers_ while the constructor may be growing it: until all *)
(* workers are spawned the value read is arbitrary.                         *)
FewTasks == mainPc = "spawn" \/ remaining < SharePerWorker * Cardinality(Workers)

ShareRevisit(w) == /\ pc[w] = "revisit"
                   /\ FewTasks
                   /\ \E t \in Tasks \ (submitted \cup {child[v] : v \in Workers}) :
                         child' = [child EXCEPT ![w] = t]
                   /\ pc' = Goto(w, "submit")
                   /\ UNCHANGED <<queue, remaining, shouldHalt, mtx, task, mainPc,
                                  submitted, completed>>

(* submit(): lock and count ... *)
submitCount(w) == /\ pc[w] = "submit"
                  /\ mtx = None
                  /\ mtx' = w
                  /\ remaining' = remaining + 1
                  /\ submitted' = submitted \cup {child[w]}
                  /\ pc' = Goto(w, "push")
                  /\ UNCHANGED <<queue, shouldHalt, task, child, mainPc, completed>>

(* ... push ... *)
submitPush(w) == /\ pc[w] = "push"
                 /\ queue' = Append(queue, child[w])
                 /\ child' = [child EXCEPT ![w] = None]
                 /\ pc' = Goto(w, "notify")
                 /\ UNCHANGED <<remaining, shouldHalt, mtx, task, mainPc, submitted, completed>>

(* ... notify one waiter, if there is one, and unlock. *)
submitNotify(w) == /\ pc[w] = "notify"
                   /\ mtx' = None
                   /\ IF Waiting = {}
                        THEN pc' = Goto(w, "run")
                        ELSE \E v \in Waiting : pc' = [pc EXCEPT ![w] = "run", ![v] = "woken"]
                   /\ UNCHANGED <<queue, remaining, shouldHalt, task, child, mainPc,
                                  submitted, completed>>

(* Back in the worker's loop: under stateMtx_, the last task notifies all. *)
decRemainingTasks(w) == /\ pc[w] = "finish"
                        /\ mtx = None
                        /\ remaining' = remaining - 1
                        /\ completed' = completed \cup {task[w]}
                        /\ task' = [task EXCEPT ![w] = None]
                        /\ pc' = IF remaining' = 0 THEN WakeAll(Goto(w, "exited"))
                                                   ELSE Goto(w, "pop")
                        /\ UNCHANGED <<queue, shouldHalt, mtx, child, mainPc, submitted>>

-----------------------------------------------------------------------------
Terminated == mainPc = "returned" /\ UNCHANGED vars

MainStep == addWorker \/ AllSpawned \/ waitForTasks \/ DestructorHalt \/ Join

popTask(w) == tryPop(w) \/ tryPopEmpty(w) \/ checkState(w) \/ Relock(w)
submit(w) == submitCount(w) \/ submitPush(w) \/ submitNotify(w)
Explore(w) == \/ TaskDone(w) \/ ReportError(w) \/ halt(w)
              \/ BackwardRevisit(w) \/ KeepRevisit(w) \/ ShareRevisit(w)

WorkerStep(w) == popTask(w) \/ Explore(w) \/ submit(w) \/ decRemainingTasks(w)

Next == MainStep \/ (\E w \in Workers : WorkerStep(w) \/ SpuriousWakeup(w)) \/ Terminated

(* Threads are scheduled fairly by the operating system, a thread asking for *)
(* stateMtx_ gets it eventually, and the exploration of one execution ends:  *)
(* a driver that keeps revisiting takes TaskDone sooner or later.            *)
Fairness == /\ WF_vars(MainStep)
            /\ \A w \in Workers : /\ WF_vars(Explore(w))
                                  /\ SF_vars(TaskDone(w))
                                  /\ WF_vars(tryPop(w) \/ tryPopEmpty(w))
                                  /\ WF_vars(submitPush(w) \/ submitNotify(w))
                                  /\ SF_vars(checkState(w) \/ Relock(w) \/ halt(w)
                                             \/ submitCount(w) \/ decRemainingTasks(w))
            /\ SF_vars(DestructorHalt)

Spec == Init /\ [][Next]_vars
FairSpec == Spec /\ Fairness

-----------------------------------------------------------------------------
(* Type invariant: what every member of ThreadPool and every program counter *)
(* may hold; in particular remainingTasks_, which is unsigned, stays a Nat.  *)
TypeOK == /\ queue \in Seq(Tasks)
          /\ remaining \in Nat
          /\ shouldHalt \in BOOLEAN
          /\ mtx \in Workers \cup {None}
          /\ pc \in [Workers -> WorkerPcs]
          /\ task \in [Workers -> Tasks \cup {None}]
          /\ child \in [Workers -> Tasks \cup {None}]
          /\ mainPc \in MainPcs
          /\ submitted \subseteq Tasks
          /\ completed \subseteq Tasks

(* remainingTasks_ counts exactly the submitted executions that are not yet  *)
(* explored, so it never wraps below zero and zero means there is no work,   *)
(* though it is changed apart from the queue and read without the mutex.     *)
RemainingIsExact == /\ completed \subseteq submitted
                    /\ remaining = Cardinality(submitted \ completed)

(* Where an execution in progress can be: on the queue, being explored by a  *)
(* worker, or counted by submit() and not pushed yet.                        *)
InQueue(t) == \E i \in 1..Len(queue) : queue[i] = t
ExploredBy(w, t) == task[w] = t
PushedBy(w, t) == pc[w] = "push" /\ child[w] = t

(* No execution is lost, though it travels between threads: one that was     *)
(* submitted and is not completed is in one of these places.                 *)
NoTaskLost == \A t \in submitted \ completed :
    InQueue(t) \/ \E w \in Workers : ExploredBy(w, t) \/ PushedBy(w, t)

(* No execution is explored twice: what is in one of the places is not       *)
(* completed, is there once, and is nowhere else.                            *)
NoTaskShared ==
    /\ \A i \in 1..Len(queue) :
          /\ queue[i] \in submitted \ completed
          /\ \A j \in 1..Len(queue) : i # j => queue[i] # queue[j]
          /\ \A w \in Workers : ~ExploredBy(w, queue[i]) /\ ~PushedBy(w, queue[i])
    /\ \A w \in Workers : task[w] # None =>
          /\ task[w] \in submitted \ completed
          /\ \A v \in Workers : /\ v # w => task[v] # task[w]
                                /\ ~PushedBy(v, task[w])

(* submit() notifies one thread, and a worker between its failed tryPop() and *)
(* its wait misses the notification; still, a queued execution always has a   *)
(* thread that will look at the queue again: not all of them wait or exited.  *)
NoStrandedTask ==
    queue # <<>> => \E w \in Workers : pc[w] \notin {"check", "waiting", "exited"}

(* No worker sleeps through the end: once the last task is done or somebody  *)
(* halted the pool, nobody waits on stateCV_, where no one would notify again. *)
NoSleepPastTheEnd == shouldHalt \/ remaining = 0 => Waiting = {}

(* The pool never reports the end of the work early: with no error, the      *)
(* futures handed out by waitForTasks() are read when all executions are     *)
(* explored; with an error, those still queued are drained before the join.  *)
AllExploredAtReturn == mainPc = "returned" =>
    /\ submitted = completed
    /\ queue = <<>>
    /\ remaining = 0

(* "No tasks remain" is final: waitForTasks() and popTask() act on it after  *)
(* they read it, so no thread may submit an execution later.                 *)
NoTasksIsFinal == [][remaining = 0 => remaining' = 0]_vars

(* The pool implements its contract. *)
AnsweredBar == mainPc \in {"destroy", "join", "returned"}
TP == INSTANCE TaskPool WITH halted <- shouldHalt, answered <- AnsweredBar
ImplementsTaskPool == TP!ASpec

(* Every pool is torn down: the main thread gets its results, so no worker   *)
(* waits for ever and no queued execution is left behind.                    *)
PoolTerminates == <>(mainPc = "returned")
=============================================================================
