-------------------------- MODULE ThreadPoolProofs --------------------------
(* The thread pool is correct for any number of workers and of executions. *)
EXTENDS ThreadPool, FiniteSetTheorems, TLAPS

Busy == {"run", "revisit", "submit", "push", "notify", "halting", "finish"}

(* A worker holds an execution while threadFun runs, one to submit between  *)
(* its decision and the push, and the mutex in the middle of submit().      *)
LocalInv ==
    \A w \in Workers :
        /\ pc[w] \in Busy <=> task[w] # None
        /\ pc[w] \in {"submit", "push"} <=> child[w] # None
        /\ pc[w] \in {"push", "notify"} <=> mtx = w
        /\ pc[w] = "submit" => child[w] \notin submitted
        /\ pc[w] = "push" => child[w] \in submitted \ completed
        /\ \A v \in Workers : v # w /\ child[v] # None => child[v] # child[w]

(* The main thread stops waiting for a reason that lasts. *)
MainInv == /\ mainPc \in {"destroy", "join", "returned"} => shouldHalt \/ remaining = 0
           /\ mainPc \in {"join", "returned"} => shouldHalt
           /\ mainPc = "returned" => \A w \in Workers : pc[w] = "exited"

IInv == /\ TypeOK
        /\ LocalInv
        /\ MainInv
        /\ RemainingIsExact
        /\ NoTaskLost
        /\ NoTaskShared
        /\ NoStrandedTask
        /\ NoSleepPastTheEnd

(* The outstanding executions form a finite set. *)
LEMMA OutstandingFinite ==
    ASSUME TypeOK PROVE IsFiniteSet(submitted) /\ IsFiniteSet(submitted \ completed)
<1>1. submitted \ completed \subseteq Tasks /\ submitted \subseteq Tasks
  BY DEF TypeOK
<1>2. QED
  BY <1>1, FS_Subset, PoolAssumption

(* A worker that finished its execution decrements a positive counter, and  *)
(* by exactly that execution.                                               *)
LEMMA DecrementIsExact ==
    ASSUME IInv, NEW w \in Workers, pc[w] = "finish"
    PROVE  /\ remaining > 0
           /\ remaining - 1 = Cardinality(submitted \ (completed \cup {task[w]}))
<1>1. task[w] \in submitted \ completed
  BY DEF IInv, LocalInv, NoTaskShared, Busy
<1>2. IsFiniteSet(submitted \ completed)
  BY OutstandingFinite DEF IInv
<1>3. Cardinality((submitted \ completed) \ {task[w]}) = Cardinality(submitted \ completed) - 1
  BY <1>1, <1>2, FS_RemoveElement
<1>4. Cardinality((submitted \ completed) \ {task[w]})
        = Cardinality(submitted \ (completed \cup {task[w]}))
  <2>1. (submitted \ completed) \ {task[w]} = submitted \ (completed \cup {task[w]})
    OBVIOUS
  <2>2. QED
    BY <2>1
<1>5. Cardinality((submitted \ completed) \ {task[w]}) \in Nat
  BY <1>2, FS_Subset, FS_CardinalityType, (submitted \ completed) \ {task[w]} \subseteq submitted \ completed
<1>6. Cardinality(submitted \ completed) \in Nat
  BY <1>2, FS_CardinalityType
<1>7. remaining = Cardinality(submitted \ completed)
  BY DEF IInv, RemainingIsExact
<1>8. QED
  BY <1>3, <1>4, <1>5, <1>6, <1>7

(* No remaining task means that no execution is outstanding. *)
LEMMA ZeroMeansNone ==
    ASSUME IInv, remaining = 0
    PROVE  submitted \ completed = {}
<1>1. IsFiniteSet(submitted \ completed)
  BY OutstandingFinite DEF IInv
<1>2. Cardinality(submitted \ completed) = 0
  BY DEF IInv, RemainingIsExact
<1>3. QED
  BY <1>1, <1>2, FS_EmptySet

(* Every step keeps the types; only the decrement needs an argument. *)
LEMMA TypeOKStep ==
    ASSUME IInv, [Next]_vars
    PROVE  TypeOK'
<1> USE PoolAssumption
<1>1. CASE addWorker
  BY <1>1 DEF addWorker, IInv, TypeOK, Goto, WakeAll, WorkerPcs, MainPcs, Waiting, Spawned, LocalInv
<1>2. CASE AllSpawned
  BY <1>2 DEF AllSpawned, IInv, TypeOK, Goto, WakeAll, WorkerPcs, MainPcs, Waiting, Spawned, LocalInv
<1>3. CASE waitForTasks
  BY <1>3 DEF waitForTasks, IInv, TypeOK, Goto, WakeAll, WorkerPcs, MainPcs, Waiting, Spawned, LocalInv
<1>4. CASE DestructorHalt
  BY <1>4 DEF DestructorHalt, IInv, TypeOK, Goto, WakeAll, WorkerPcs, MainPcs, Waiting, Spawned, LocalInv
<1>5. CASE Join
  BY <1>5 DEF Join, IInv, TypeOK, Goto, WakeAll, WorkerPcs, MainPcs, Waiting, Spawned, LocalInv
<1>6. ASSUME NEW w \in Workers, tryPop(w) PROVE TypeOK'
  BY <1>6 DEF tryPop, IInv, TypeOK, Goto, WakeAll, WorkerPcs, MainPcs, Waiting, Spawned, LocalInv
<1>7. ASSUME NEW w \in Workers, tryPopEmpty(w) PROVE TypeOK'
  BY <1>7 DEF tryPopEmpty, IInv, TypeOK, Goto, WakeAll, WorkerPcs, MainPcs, Waiting, Spawned, LocalInv
<1>8. ASSUME NEW w \in Workers, checkState(w) PROVE TypeOK'
  BY <1>8 DEF checkState, IInv, TypeOK, Goto, WakeAll, WorkerPcs, MainPcs, Waiting, Spawned, LocalInv
<1>9. ASSUME NEW w \in Workers, Relock(w) PROVE TypeOK'
  BY <1>9 DEF Relock, IInv, TypeOK, Goto, WakeAll, WorkerPcs, MainPcs, Waiting, Spawned, LocalInv
<1>10. ASSUME NEW w \in Workers, TaskDone(w) PROVE TypeOK'
  BY <1>10 DEF TaskDone, IInv, TypeOK, Goto, WakeAll, WorkerPcs, MainPcs, Waiting, Spawned, LocalInv
<1>11. ASSUME NEW w \in Workers, ReportError(w) PROVE TypeOK'
  BY <1>11 DEF ReportError, IInv, TypeOK, Goto, WakeAll, WorkerPcs, MainPcs, Waiting, Spawned, LocalInv
<1>12. ASSUME NEW w \in Workers, halt(w) PROVE TypeOK'
  BY <1>12 DEF halt, IInv, TypeOK, Goto, WakeAll, WorkerPcs, MainPcs, Waiting, Spawned, LocalInv
<1>13. ASSUME NEW w \in Workers, BackwardRevisit(w) PROVE TypeOK'
  BY <1>13 DEF BackwardRevisit, IInv, TypeOK, Goto, WakeAll, WorkerPcs, MainPcs, Waiting, Spawned, LocalInv
<1>14. ASSUME NEW w \in Workers, KeepRevisit(w) PROVE TypeOK'
  BY <1>14 DEF KeepRevisit, IInv, TypeOK, Goto, WakeAll, WorkerPcs, MainPcs, Waiting, Spawned, LocalInv
<1>15. ASSUME NEW w \in Workers, ShareRevisit(w) PROVE TypeOK'
  BY <1>15 DEF ShareRevisit, IInv, TypeOK, Goto, WakeAll, WorkerPcs, MainPcs, Waiting, Spawned, LocalInv
<1>16. ASSUME NEW w \in Workers, submitCount(w) PROVE TypeOK'
  BY <1>16 DEF submitCount, IInv, TypeOK, Goto, WakeAll, WorkerPcs, MainPcs, Waiting, Spawned, LocalInv
<1>17. ASSUME NEW w \in Workers, submitPush(w) PROVE TypeOK'
  BY <1>17 DEF submitPush, IInv, TypeOK, Goto, WakeAll, WorkerPcs, MainPcs, Waiting, Spawned, LocalInv
<1>18. ASSUME NEW w \in Workers, submitNotify(w) PROVE TypeOK'
  BY <1>18 DEF submitNotify, IInv, TypeOK, Goto, WakeAll, WorkerPcs, MainPcs, Waiting, Spawned, LocalInv
<1>19. ASSUME NEW w \in Workers, decRemainingTasks(w) PROVE TypeOK'
  <2>1. remaining > 0
    BY <1>19, DecrementIsExact DEF decRemainingTasks
  <2>2. remaining' \in Nat
    BY <1>19, <2>1 DEF decRemainingTasks, IInv, TypeOK
  <2>3. QED
    BY <1>19, <2>2 DEF decRemainingTasks, IInv, TypeOK, Goto, WakeAll, WorkerPcs, MainPcs, Waiting, Spawned, LocalInv, Busy
<1>20. ASSUME NEW w \in Workers, SpuriousWakeup(w) PROVE TypeOK'
  BY <1>20 DEF SpuriousWakeup, IInv, TypeOK, Goto, WakeAll, WorkerPcs, MainPcs, Waiting, Spawned, LocalInv
<1>21. CASE UNCHANGED vars
  BY <1>21 DEF vars, IInv, TypeOK, Goto, WakeAll, WorkerPcs, MainPcs, Waiting, Spawned, LocalInv
<1>22. QED
  BY <1>1, <1>2, <1>3, <1>4, <1>5, <1>6, <1>7, <1>8, <1>9, <1>10, <1>11, <1>12, <1>13, <1>14, <1>15, <1>16, <1>17, <1>18, <1>19, <1>20, <1>21
  DEF Next, MainStep, WorkerStep, popTask, submit, Explore, Terminated

(* What a worker holds goes with where it is. *)
LEMMA LocalStep ==
    ASSUME IInv, [Next]_vars
    PROVE  LocalInv'
<1> USE PoolAssumption
<1>1. CASE addWorker
  BY <1>1 DEF addWorker, IInv, TypeOK, Goto, WakeAll, LocalInv, WorkerPcs, Busy, Waiting, Spawned
<1>2. CASE AllSpawned
  BY <1>2 DEF AllSpawned, IInv, TypeOK, Goto, WakeAll, LocalInv, WorkerPcs, Busy, Waiting, Spawned
<1>3. CASE waitForTasks
  BY <1>3 DEF waitForTasks, IInv, TypeOK, Goto, WakeAll, LocalInv, WorkerPcs, Busy, Waiting, Spawned
<1>4. CASE DestructorHalt
  BY <1>4 DEF DestructorHalt, IInv, TypeOK, Goto, WakeAll, LocalInv, WorkerPcs, Busy, Waiting, Spawned
<1>5. CASE Join
  BY <1>5 DEF Join, IInv, TypeOK, Goto, WakeAll, LocalInv, WorkerPcs, Busy, Waiting, Spawned
<1>6. ASSUME NEW w \in Workers, tryPop(w) PROVE LocalInv'
  BY <1>6 DEF tryPop, IInv, TypeOK, Goto, WakeAll, LocalInv, WorkerPcs, Busy, Waiting, Spawned
<1>7. ASSUME NEW w \in Workers, tryPopEmpty(w) PROVE LocalInv'
  BY <1>7 DEF tryPopEmpty, IInv, TypeOK, Goto, WakeAll, LocalInv, WorkerPcs, Busy, Waiting, Spawned
<1>8. ASSUME NEW w \in Workers, checkState(w) PROVE LocalInv'
  BY <1>8 DEF checkState, IInv, TypeOK, Goto, WakeAll, LocalInv, WorkerPcs, Busy, Waiting, Spawned
<1>9. ASSUME NEW w \in Workers, Relock(w) PROVE LocalInv'
  BY <1>9 DEF Relock, IInv, TypeOK, Goto, WakeAll, LocalInv, WorkerPcs, Busy, Waiting, Spawned
<1>10. ASSUME NEW w \in Workers, TaskDone(w) PROVE LocalInv'
  BY <1>10 DEF TaskDone, IInv, TypeOK, Goto, WakeAll, LocalInv, WorkerPcs, Busy, Waiting, Spawned
<1>11. ASSUME NEW w \in Workers, ReportError(w) PROVE LocalInv'
  BY <1>11 DEF ReportError, IInv, TypeOK, Goto, WakeAll, LocalInv, WorkerPcs, Busy, Waiting, Spawned
<1>12. ASSUME NEW w \in Workers, halt(w) PROVE LocalInv'
  BY <1>12 DEF halt, IInv, TypeOK, Goto, WakeAll, LocalInv, WorkerPcs, Busy, Waiting, Spawned
<1>13. ASSUME NEW w \in Workers, BackwardRevisit(w) PROVE LocalInv'
  BY <1>13 DEF BackwardRevisit, IInv, TypeOK, Goto, WakeAll, LocalInv, WorkerPcs, Busy, Waiting, Spawned
<1>14. ASSUME NEW w \in Workers, KeepRevisit(w) PROVE LocalInv'
  BY <1>14 DEF KeepRevisit, IInv, TypeOK, Goto, WakeAll, LocalInv, WorkerPcs, Busy, Waiting, Spawned
<1>15. ASSUME NEW w \in Workers, ShareRevisit(w) PROVE LocalInv'
  BY <1>15 DEF ShareRevisit, IInv, TypeOK, Goto, WakeAll, LocalInv, WorkerPcs, Busy, Waiting, Spawned
<1>16. ASSUME NEW w \in Workers, submitCount(w) PROVE LocalInv'
  BY <1>16 DEF submitCount, IInv, TypeOK, Goto, WakeAll, LocalInv, WorkerPcs, Busy, Waiting, Spawned, RemainingIsExact
<1>17. ASSUME NEW w \in Workers, submitPush(w) PROVE LocalInv'
  BY <1>17 DEF submitPush, IInv, TypeOK, Goto, WakeAll, LocalInv, WorkerPcs, Busy, Waiting, Spawned
<1>18. ASSUME NEW w \in Workers, submitNotify(w) PROVE LocalInv'
  BY <1>18 DEF submitNotify, IInv, TypeOK, Goto, WakeAll, LocalInv, WorkerPcs, Busy, Waiting, Spawned
<1>19. ASSUME NEW w \in Workers, decRemainingTasks(w) PROVE LocalInv'
  BY <1>19 DEF decRemainingTasks, IInv, TypeOK, Goto, WakeAll, LocalInv, WorkerPcs, Busy, Waiting, Spawned, NoTaskShared, PushedBy
<1>20. ASSUME NEW w \in Workers, SpuriousWakeup(w) PROVE LocalInv'
  BY <1>20 DEF SpuriousWakeup, IInv, TypeOK, Goto, WakeAll, LocalInv, WorkerPcs, Busy, Waiting, Spawned
<1>21. CASE UNCHANGED vars
  BY <1>21 DEF vars, IInv, TypeOK, Goto, WakeAll, LocalInv, WorkerPcs, Busy, Waiting, Spawned
<1>22. QED
  BY <1>1, <1>2, <1>3, <1>4, <1>5, <1>6, <1>7, <1>8, <1>9, <1>10, <1>11, <1>12, <1>13, <1>14, <1>15, <1>16, <1>17, <1>18, <1>19, <1>20, <1>21
  DEF Next, MainStep, WorkerStep, popTask, submit, Explore, Terminated

(* Each counting step changes the outstanding set by one execution. *)
LEMMA CountStep ==
    ASSUME IInv, [Next]_vars
    PROVE  RemainingIsExact'
<1> USE PoolAssumption
<1>1. CASE addWorker
  BY <1>1 DEF addWorker, IInv, TypeOK, Goto, WakeAll, RemainingIsExact
<1>2. CASE AllSpawned
  BY <1>2 DEF AllSpawned, IInv, TypeOK, Goto, WakeAll, RemainingIsExact
<1>3. CASE waitForTasks
  BY <1>3 DEF waitForTasks, IInv, TypeOK, Goto, WakeAll, RemainingIsExact
<1>4. CASE DestructorHalt
  BY <1>4 DEF DestructorHalt, IInv, TypeOK, Goto, WakeAll, RemainingIsExact
<1>5. CASE Join
  BY <1>5 DEF Join, IInv, TypeOK, Goto, WakeAll, RemainingIsExact
<1>6. ASSUME NEW w \in Workers, tryPop(w) PROVE RemainingIsExact'
  BY <1>6 DEF tryPop, IInv, TypeOK, Goto, WakeAll, RemainingIsExact
<1>7. ASSUME NEW w \in Workers, tryPopEmpty(w) PROVE RemainingIsExact'
  BY <1>7 DEF tryPopEmpty, IInv, TypeOK, Goto, WakeAll, RemainingIsExact
<1>8. ASSUME NEW w \in Workers, checkState(w) PROVE RemainingIsExact'
  BY <1>8 DEF checkState, IInv, TypeOK, Goto, WakeAll, RemainingIsExact
<1>9. ASSUME NEW w \in Workers, Relock(w) PROVE RemainingIsExact'
  BY <1>9 DEF Relock, IInv, TypeOK, Goto, WakeAll, RemainingIsExact
<1>10. ASSUME NEW w \in Workers, TaskDone(w) PROVE RemainingIsExact'
  BY <1>10 DEF TaskDone, IInv, TypeOK, Goto, WakeAll, RemainingIsExact
<1>11. ASSUME NEW w \in Workers, ReportError(w) PROVE RemainingIsExact'
  BY <1>11 DEF ReportError, IInv, TypeOK, Goto, WakeAll, RemainingIsExact
<1>12. ASSUME NEW w \in Workers, halt(w) PROVE RemainingIsExact'
  BY <1>12 DEF halt, IInv, TypeOK, Goto, WakeAll, RemainingIsExact
<1>13. ASSUME NEW w \in Workers, BackwardRevisit(w) PROVE RemainingIsExact'
  BY <1>13 DEF BackwardRevisit, IInv, TypeOK, Goto, WakeAll, RemainingIsExact
<1>14. ASSUME NEW w \in Workers, KeepRevisit(w) PROVE RemainingIsExact'
  BY <1>14 DEF KeepRevisit, IInv, TypeOK, Goto, WakeAll, RemainingIsExact
<1>15. ASSUME NEW w \in Workers, ShareRevisit(w) PROVE RemainingIsExact'
  BY <1>15 DEF ShareRevisit, IInv, TypeOK, Goto, WakeAll, RemainingIsExact
<1>16. ASSUME NEW w \in Workers, submitCount(w) PROVE RemainingIsExact'
  <2>1. child[w] \notin submitted /\ child[w] \in Tasks
    BY <1>16 DEF submitCount, IInv, TypeOK, LocalInv
  <2>2. child[w] \notin submitted \ completed
    BY <2>1
  <2>3. submitted' \ completed' = (submitted \ completed) \cup {child[w]}
    BY <1>16, <2>1 DEF submitCount, IInv, RemainingIsExact
  <2>4. Cardinality((submitted \ completed) \cup {child[w]}) = Cardinality(submitted \ completed) + 1
    BY <2>2, OutstandingFinite, FS_AddElement DEF IInv
  <2>5. completed' \subseteq submitted'
    BY <1>16 DEF submitCount, IInv, RemainingIsExact
  <2>6. remaining' = remaining + 1
    BY <1>16 DEF submitCount
  <2>7. QED
    BY <2>3, <2>4, <2>5, <2>6 DEF IInv, RemainingIsExact
<1>17. ASSUME NEW w \in Workers, submitPush(w) PROVE RemainingIsExact'
  BY <1>17 DEF submitPush, IInv, TypeOK, Goto, WakeAll, RemainingIsExact
<1>18. ASSUME NEW w \in Workers, submitNotify(w) PROVE RemainingIsExact'
  BY <1>18 DEF submitNotify, IInv, TypeOK, Goto, WakeAll, RemainingIsExact
<1>19. ASSUME NEW w \in Workers, decRemainingTasks(w) PROVE RemainingIsExact'
  <2>1. remaining' = Cardinality(submitted' \ completed')
    BY <1>19, DecrementIsExact DEF decRemainingTasks
  <2>2. completed' \subseteq submitted'
    BY <1>19 DEF decRemainingTasks, IInv, RemainingIsExact, LocalInv, NoTaskShared, Busy
  <2>3. QED
    BY <2>1, <2>2 DEF RemainingIsExact
<1>20. ASSUME NEW w \in Workers, SpuriousWakeup(w) PROVE RemainingIsExact'
  BY <1>20 DEF SpuriousWakeup, IInv, TypeOK, Goto, WakeAll, RemainingIsExact
<1>21. CASE UNCHANGED vars
  BY <1>21 DEF vars, IInv, TypeOK, Goto, WakeAll, RemainingIsExact
<1>22. QED
  BY <1>1, <1>2, <1>3, <1>4, <1>5, <1>6, <1>7, <1>8, <1>9, <1>10, <1>11, <1>12, <1>13, <1>14, <1>15, <1>16, <1>17, <1>18, <1>19, <1>20, <1>21
  DEF Next, MainStep, WorkerStep, popTask, submit, Explore, Terminated

(* The main thread's reasons to go on are stable. *)
LEMMA MainStepKeeps ==
    ASSUME IInv, [Next]_vars
    PROVE  MainInv'
<1> USE PoolAssumption
<1>1. CASE addWorker
  BY <1>1 DEF addWorker, IInv, TypeOK, Goto, WakeAll, MainInv
<1>2. CASE AllSpawned
  BY <1>2 DEF AllSpawned, IInv, TypeOK, Goto, WakeAll, MainInv
<1>3. CASE waitForTasks
  BY <1>3 DEF waitForTasks, IInv, TypeOK, Goto, WakeAll, MainInv
<1>4. CASE DestructorHalt
  BY <1>4 DEF DestructorHalt, IInv, TypeOK, Goto, WakeAll, MainInv
<1>5. CASE Join
  BY <1>5 DEF Join, IInv, TypeOK, Goto, WakeAll, MainInv
<1>6. ASSUME NEW w \in Workers, tryPop(w) PROVE MainInv'
  BY <1>6 DEF tryPop, IInv, TypeOK, Goto, WakeAll, MainInv
<1>7. ASSUME NEW w \in Workers, tryPopEmpty(w) PROVE MainInv'
  BY <1>7 DEF tryPopEmpty, IInv, TypeOK, Goto, WakeAll, MainInv
<1>8. ASSUME NEW w \in Workers, checkState(w) PROVE MainInv'
  BY <1>8 DEF checkState, IInv, TypeOK, Goto, WakeAll, MainInv
<1>9. ASSUME NEW w \in Workers, Relock(w) PROVE MainInv'
  BY <1>9 DEF Relock, IInv, TypeOK, Goto, WakeAll, MainInv
<1>10. ASSUME NEW w \in Workers, TaskDone(w) PROVE MainInv'
  BY <1>10 DEF TaskDone, IInv, TypeOK, Goto, WakeAll, MainInv
<1>11. ASSUME NEW w \in Workers, ReportError(w) PROVE MainInv'
  BY <1>11 DEF ReportError, IInv, TypeOK, Goto, WakeAll, MainInv
<1>12. ASSUME NEW w \in Workers, halt(w) PROVE MainInv'
  BY <1>12 DEF halt, IInv, TypeOK, Goto, WakeAll, MainInv
<1>13. ASSUME NEW w \in Workers, BackwardRevisit(w) PROVE MainInv'
  BY <1>13 DEF BackwardRevisit, IInv, TypeOK, Goto, WakeAll, MainInv
<1>14. ASSUME NEW w \in Workers, KeepRevisit(w) PROVE MainInv'
  BY <1>14 DEF KeepRevisit, IInv, TypeOK, Goto, WakeAll, MainInv
<1>15. ASSUME NEW w \in Workers, ShareRevisit(w) PROVE MainInv'
  BY <1>15 DEF ShareRevisit, IInv, TypeOK, Goto, WakeAll, MainInv
<1>16. ASSUME NEW w \in Workers, submitCount(w) PROVE MainInv'
  <2>1. remaining # 0
    <3> SUFFICES ASSUME remaining = 0 PROVE FALSE
      OBVIOUS
    <3>1. task[w] \in submitted \ completed
      BY <1>16 DEF submitCount, IInv, LocalInv, NoTaskShared, Busy
    <3>2. QED
      BY <3>1, ZeroMeansNone
  <2>2. QED
    BY <1>16, <2>1 DEF submitCount, IInv, TypeOK, Goto, WakeAll, MainInv
<1>17. ASSUME NEW w \in Workers, submitPush(w) PROVE MainInv'
  BY <1>17 DEF submitPush, IInv, TypeOK, Goto, WakeAll, MainInv
<1>18. ASSUME NEW w \in Workers, submitNotify(w) PROVE MainInv'
  BY <1>18 DEF submitNotify, IInv, TypeOK, Goto, WakeAll, MainInv
<1>19. ASSUME NEW w \in Workers, decRemainingTasks(w) PROVE MainInv'
  <2>1. remaining > 0
    BY <1>19, DecrementIsExact DEF decRemainingTasks
  <2>2. QED
    BY <1>19, <2>1 DEF decRemainingTasks, IInv, TypeOK, Goto, WakeAll, MainInv
<1>20. ASSUME NEW w \in Workers, SpuriousWakeup(w) PROVE MainInv'
  BY <1>20 DEF SpuriousWakeup, IInv, TypeOK, Goto, WakeAll, MainInv
<1>21. CASE UNCHANGED vars
  BY <1>21 DEF vars, IInv, TypeOK, Goto, WakeAll, MainInv
<1>22. QED
  BY <1>1, <1>2, <1>3, <1>4, <1>5, <1>6, <1>7, <1>8, <1>9, <1>10, <1>11, <1>12, <1>13, <1>14, <1>15, <1>16, <1>17, <1>18, <1>19, <1>20, <1>21
  DEF Next, MainStep, WorkerStep, popTask, submit, Explore, Terminated

(* A step that moves no execution and no worker out of submit() loses none. *)
LEMMA LostFrame ==
    ASSUME NoTaskLost, UNCHANGED <<queue, task, child>>,
           submitted' \ completed' = submitted \ completed,
           \A v \in Workers : pc[v] = "push" => pc'[v] = "push"
    PROVE  NoTaskLost'
BY DEF NoTaskLost, InQueue, ExploredBy, PushedBy

(* Only four actions move an execution. *)
LEMMA LostStep ==
    ASSUME IInv, [Next]_vars
    PROVE  NoTaskLost'
<1> USE PoolAssumption
<1>1. CASE addWorker
  BY <1>1, LostFrame DEF addWorker, IInv, TypeOK, Goto, Spawned
<1>2. CASE AllSpawned
  BY <1>2, LostFrame DEF AllSpawned, IInv, TypeOK, Goto, WakeAll, WorkerPcs
<1>3. CASE waitForTasks
  BY <1>3, LostFrame DEF waitForTasks, IInv, TypeOK, Goto, WakeAll, WorkerPcs
<1>4. CASE DestructorHalt
  BY <1>4, LostFrame DEF DestructorHalt, IInv, TypeOK, Goto, WakeAll, WorkerPcs
<1>5. CASE Join
  BY <1>5, LostFrame DEF Join, IInv, TypeOK, Goto, WakeAll, WorkerPcs
<1>6. ASSUME NEW w \in Workers, tryPop(w) PROVE NoTaskLost'
  <2> SUFFICES ASSUME NEW t \in submitted \ completed
               PROVE  InQueue(t)' \/ \E v \in Workers : ExploredBy(v, t)' \/ PushedBy(v, t)'
    BY <1>6 DEF tryPop, NoTaskLost
  <2>1. queue \in Seq(Tasks) /\ Len(queue) \in Nat \ {0}
    BY <1>6 DEF tryPop, IInv, TypeOK
  <2>2. CASE InQueue(t)
    <3>1. PICK i \in 1..Len(queue) : queue[i] = t
      BY <2>2 DEF InQueue
    <3>2. CASE i = Len(queue)
      BY <1>6, <3>1, <3>2 DEF tryPop, ExploredBy, IInv, TypeOK
    <3>3. CASE i # Len(queue)
      <4>1. i \in 1..Len(queue') /\ queue'[i] = t
        BY <1>6, <2>1, <3>1, <3>3 DEF tryPop
      <4>2. QED
        BY <4>1 DEF InQueue
    <3>4. QED
      BY <3>2, <3>3
  <2>3. CASE \E v \in Workers : ExploredBy(v, t)
    BY <1>6, <2>3, PoolAssumption DEF tryPop, ExploredBy, IInv, TypeOK, LocalInv, Busy
  <2>4. CASE \E v \in Workers : PushedBy(v, t)
    BY <1>6, <2>4 DEF tryPop, PushedBy, IInv, TypeOK, Goto
  <2>5. QED
    BY <2>2, <2>3, <2>4 DEF IInv, NoTaskLost
<1>7. ASSUME NEW w \in Workers, tryPopEmpty(w) PROVE NoTaskLost'
  BY <1>7, LostFrame DEF tryPopEmpty, IInv, TypeOK, Goto, WakeAll, WorkerPcs
<1>8. ASSUME NEW w \in Workers, checkState(w) PROVE NoTaskLost'
  BY <1>8, LostFrame DEF checkState, IInv, TypeOK, Goto, WakeAll, WorkerPcs
<1>9. ASSUME NEW w \in Workers, Relock(w) PROVE NoTaskLost'
  BY <1>9, LostFrame DEF Relock, IInv, TypeOK, Goto, WakeAll, WorkerPcs
<1>10. ASSUME NEW w \in Workers, TaskDone(w) PROVE NoTaskLost'
  BY <1>10, LostFrame DEF TaskDone, IInv, TypeOK, Goto, WakeAll, WorkerPcs
<1>11. ASSUME NEW w \in Workers, ReportError(w) PROVE NoTaskLost'
  BY <1>11, LostFrame DEF ReportError, IInv, TypeOK, Goto, WakeAll, WorkerPcs
<1>12. ASSUME NEW w \in Workers, halt(w) PROVE NoTaskLost'
  BY <1>12, LostFrame DEF halt, IInv, TypeOK, Goto, WakeAll, WorkerPcs
<1>13. ASSUME NEW w \in Workers, BackwardRevisit(w) PROVE NoTaskLost'
  BY <1>13, LostFrame DEF BackwardRevisit, IInv, TypeOK, Goto, WakeAll, WorkerPcs
<1>14. ASSUME NEW w \in Workers, KeepRevisit(w) PROVE NoTaskLost'
  BY <1>14, LostFrame DEF KeepRevisit, IInv, TypeOK, Goto, WakeAll, WorkerPcs
<1>15. ASSUME NEW w \in Workers, ShareRevisit(w) PROVE NoTaskLost'
  BY <1>15 DEF ShareRevisit, IInv, TypeOK, Goto, WakeAll, NoTaskLost, InQueue, ExploredBy, PushedBy, LocalInv, Busy
<1>16. ASSUME NEW w \in Workers, submitCount(w) PROVE NoTaskLost'
  BY <1>16 DEF submitCount, IInv, TypeOK, Goto, WakeAll, NoTaskLost, InQueue, ExploredBy, PushedBy, LocalInv, Busy
<1>17. ASSUME NEW w \in Workers, submitPush(w) PROVE NoTaskLost'
  BY <1>17 DEF submitPush, IInv, TypeOK, Goto, WakeAll, NoTaskLost, InQueue, ExploredBy, PushedBy, LocalInv, Busy
<1>18. ASSUME NEW w \in Workers, submitNotify(w) PROVE NoTaskLost'
  BY <1>18, LostFrame DEF submitNotify, IInv, TypeOK, Goto, Waiting
<1>19. ASSUME NEW w \in Workers, decRemainingTasks(w) PROVE NoTaskLost'
  BY <1>19 DEF decRemainingTasks, IInv, TypeOK, Goto, WakeAll, NoTaskLost, InQueue, ExploredBy, PushedBy, LocalInv, Busy
<1>20. ASSUME NEW w \in Workers, SpuriousWakeup(w) PROVE NoTaskLost'
  BY <1>20, LostFrame DEF SpuriousWakeup, IInv, TypeOK, Goto, WakeAll, WorkerPcs
<1>21. CASE UNCHANGED vars
  BY <1>21 DEF vars, IInv, NoTaskLost, InQueue, ExploredBy, PushedBy
<1>22. QED
  BY <1>1, <1>2, <1>3, <1>4, <1>5, <1>6, <1>7, <1>8, <1>9, <1>10, <1>11, <1>12, <1>13, <1>14, <1>15, <1>16, <1>17, <1>18, <1>19, <1>20, <1>21
  DEF Next, MainStep, WorkerStep, popTask, submit, Explore, Terminated

(* An execution is handed over, never copied. *)
LEMMA SharedStep ==
    ASSUME IInv, [Next]_vars
    PROVE  NoTaskShared'
<1> USE PoolAssumption
<1>1. CASE addWorker
  BY <1>1 DEF addWorker, IInv, TypeOK, Goto, WakeAll, NoTaskShared, ExploredBy, PushedBy
<1>2. CASE AllSpawned
  BY <1>2 DEF AllSpawned, IInv, TypeOK, Goto, WakeAll, NoTaskShared, ExploredBy, PushedBy
<1>3. CASE waitForTasks
  BY <1>3 DEF waitForTasks, IInv, TypeOK, Goto, WakeAll, NoTaskShared, ExploredBy, PushedBy
<1>4. CASE DestructorHalt
  BY <1>4 DEF DestructorHalt, IInv, TypeOK, Goto, WakeAll, NoTaskShared, ExploredBy, PushedBy
<1>5. CASE Join
  BY <1>5 DEF Join, IInv, TypeOK, Goto, WakeAll, NoTaskShared, ExploredBy, PushedBy
<1>6. ASSUME NEW w \in Workers, tryPop(w) PROVE NoTaskShared'
  BY <1>6 DEF tryPop, IInv, TypeOK, Goto, WakeAll, NoTaskShared, ExploredBy, PushedBy
<1>7. ASSUME NEW w \in Workers, tryPopEmpty(w) PROVE NoTaskShared'
  BY <1>7 DEF tryPopEmpty, IInv, TypeOK, Goto, WakeAll, NoTaskShared, ExploredBy, PushedBy
<1>8. ASSUME NEW w \in Workers, checkState(w) PROVE NoTaskShared'
  BY <1>8 DEF checkState, IInv, TypeOK, Goto, WakeAll, NoTaskShared, ExploredBy, PushedBy
<1>9. ASSUME NEW w \in Workers, Relock(w) PROVE NoTaskShared'
  BY <1>9 DEF Relock, IInv, TypeOK, Goto, WakeAll, NoTaskShared, ExploredBy, PushedBy
<1>10. ASSUME NEW w \in Workers, TaskDone(w) PROVE NoTaskShared'
  BY <1>10 DEF TaskDone, IInv, TypeOK, Goto, WakeAll, NoTaskShared, ExploredBy, PushedBy
<1>11. ASSUME NEW w \in Workers, ReportError(w) PROVE NoTaskShared'
  BY <1>11 DEF ReportError, IInv, TypeOK, Goto, WakeAll, NoTaskShared, ExploredBy, PushedBy
<1>12. ASSUME NEW w \in Workers, halt(w) PROVE NoTaskShared'
  BY <1>12 DEF halt, IInv, TypeOK, Goto, WakeAll, NoTaskShared, ExploredBy, PushedBy
<1>13. ASSUME NEW w \in Workers, BackwardRevisit(w) PROVE NoTaskShared'
  BY <1>13 DEF BackwardRevisit, IInv, TypeOK, Goto, WakeAll, NoTaskShared, ExploredBy, PushedBy
<1>14. ASSUME NEW w \in Workers, KeepRevisit(w) PROVE NoTaskShared'
  BY <1>14 DEF KeepRevisit, IInv, TypeOK, Goto, WakeAll, NoTaskShared, ExploredBy, PushedBy
<1>15. ASSUME NEW w \in Workers, ShareRevisit(w) PROVE NoTaskShared'
  BY <1>15 DEF ShareRevisit, IInv, TypeOK, Goto, WakeAll, NoTaskShared, ExploredBy, PushedBy
<1>16. ASSUME NEW w \in Workers, submitCount(w) PROVE NoTaskShared'
  BY <1>16 DEF submitCount, IInv, TypeOK, Goto, WakeAll, NoTaskShared, ExploredBy, PushedBy, LocalInv, Busy, RemainingIsExact
<1>17. ASSUME NEW w \in Workers, submitPush(w) PROVE NoTaskShared'
  <2>1. /\ queue \in Seq(Tasks) /\ child[w] \in Tasks /\ Len(queue) \in Nat
        /\ child[w] \in submitted \ completed /\ PushedBy(w, child[w])
    BY <1>17 DEF submitPush, IInv, TypeOK, LocalInv, PushedBy
  <2>2. /\ Len(queue') = Len(queue) + 1
        /\ queue'[Len(queue')] = child[w]
        /\ \A i \in 1..Len(queue) : queue'[i] = queue[i]
    BY <1>17, <2>1 DEF submitPush
  <2>3. \A v \in Workers : \A t : PushedBy(v, t)' => v # w /\ PushedBy(v, t)
    BY <1>17 DEF submitPush, PushedBy, IInv, TypeOK, Goto
  <2>4. \A v \in Workers : v # w => pc[v] # "push"
    BY <1>17 DEF submitPush, IInv, LocalInv
  <2>5. \A v \in Workers : \A t : ~PushedBy(v, t)'
    BY <2>3, <2>4 DEF PushedBy
  <2>6. \A i \in 1..Len(queue') : i \in 1..Len(queue) \/ i = Len(queue')
    BY <2>1, <2>2
  <2>7. ASSUME NEW i \in 1..Len(queue')
        PROVE  /\ queue'[i] \in submitted \ completed
               /\ \A v \in Workers : task[v] # queue'[i]
    BY <1>17, <2>1, <2>2, <2>6 DEF submitPush, IInv, NoTaskShared, ExploredBy, TypeOK
  <2>8. ASSUME NEW i \in 1..Len(queue'), NEW j \in 1..Len(queue'), i # j
        PROVE  queue'[i] # queue'[j]
    BY <2>1, <2>2, <2>6, <2>8 DEF IInv, NoTaskShared
  <2>9. QED
    BY <1>17, <2>5, <2>7, <2>8 DEF submitPush, NoTaskShared, ExploredBy, IInv
<1>18. ASSUME NEW w \in Workers, submitNotify(w) PROVE NoTaskShared'
  BY <1>18 DEF submitNotify, IInv, TypeOK, Goto, WakeAll, NoTaskShared, ExploredBy, PushedBy
<1>19. ASSUME NEW w \in Workers, decRemainingTasks(w) PROVE NoTaskShared'
  BY <1>19 DEF decRemainingTasks, IInv, TypeOK, Goto, WakeAll, NoTaskShared, ExploredBy, PushedBy
<1>20. ASSUME NEW w \in Workers, SpuriousWakeup(w) PROVE NoTaskShared'
  BY <1>20 DEF SpuriousWakeup, IInv, TypeOK, Goto, WakeAll, NoTaskShared, ExploredBy, PushedBy
<1>21. CASE UNCHANGED vars
  BY <1>21 DEF vars, IInv, TypeOK, Goto, WakeAll, NoTaskShared, ExploredBy, PushedBy
<1>22. QED
  BY <1>1, <1>2, <1>3, <1>4, <1>5, <1>6, <1>7, <1>8, <1>9, <1>10, <1>11, <1>12, <1>13, <1>14, <1>15, <1>16, <1>17, <1>18, <1>19, <1>20, <1>21
  DEF Next, MainStep, WorkerStep, popTask, submit, Explore, Terminated

(* The last worker to leave the loop leaves an empty queue behind. *)
LEMMA StrandedStep ==
    ASSUME IInv, [Next]_vars
    PROVE  NoStrandedTask'
<1> USE PoolAssumption
<1>1. CASE addWorker
  BY <1>1 DEF addWorker, IInv, TypeOK, Goto, WakeAll, NoStrandedTask
<1>2. CASE AllSpawned
  BY <1>2 DEF AllSpawned, IInv, TypeOK, Goto, WakeAll, NoStrandedTask
<1>3. CASE waitForTasks
  BY <1>3 DEF waitForTasks, IInv, TypeOK, Goto, WakeAll, NoStrandedTask
<1>4. CASE DestructorHalt
  BY <1>4 DEF DestructorHalt, IInv, TypeOK, Goto, WakeAll, NoStrandedTask
<1>5. CASE Join
  BY <1>5 DEF Join, IInv, TypeOK, Goto, WakeAll, NoStrandedTask
<1>6. ASSUME NEW w \in Workers, tryPop(w) PROVE NoStrandedTask'
  BY <1>6 DEF tryPop, IInv, TypeOK, Goto, WakeAll, NoStrandedTask
<1>7. ASSUME NEW w \in Workers, tryPopEmpty(w) PROVE NoStrandedTask'
  BY <1>7 DEF tryPopEmpty, IInv, TypeOK, Goto, WakeAll, NoStrandedTask
<1>8. ASSUME NEW w \in Workers, checkState(w) PROVE NoStrandedTask'
  BY <1>8 DEF checkState, IInv, TypeOK, Goto, WakeAll, NoStrandedTask
<1>9. ASSUME NEW w \in Workers, Relock(w) PROVE NoStrandedTask'
  BY <1>9 DEF Relock, IInv, TypeOK, Goto, WakeAll, NoStrandedTask
<1>10. ASSUME NEW w \in Workers, TaskDone(w) PROVE NoStrandedTask'
  BY <1>10 DEF TaskDone, IInv, TypeOK, Goto, WakeAll, NoStrandedTask
<1>11. ASSUME NEW w \in Workers, ReportError(w) PROVE NoStrandedTask'
  BY <1>11 DEF ReportError, IInv, TypeOK, Goto, WakeAll, NoStrandedTask
<1>12. ASSUME NEW w \in Workers, halt(w) PROVE NoStrandedTask'
  BY <1>12 DEF halt, IInv, TypeOK, Goto, WakeAll, NoStrandedTask
<1>13. ASSUME NEW w \in Workers, BackwardRevisit(w) PROVE NoStrandedTask'
  BY <1>13 DEF BackwardRevisit, IInv, TypeOK, Goto, WakeAll, NoStrandedTask
<1>14. ASSUME NEW w \in Workers, KeepRevisit(w) PROVE NoStrandedTask'
  BY <1>14 DEF KeepRevisit, IInv, TypeOK, Goto, WakeAll, NoStrandedTask
<1>15. ASSUME NEW w \in Workers, ShareRevisit(w) PROVE NoStrandedTask'
  BY <1>15 DEF ShareRevisit, IInv, TypeOK, Goto, WakeAll, NoStrandedTask
<1>16. ASSUME NEW w \in Workers, submitCount(w) PROVE NoStrandedTask'
  BY <1>16 DEF submitCount, IInv, TypeOK, Goto, WakeAll, NoStrandedTask
<1>17. ASSUME NEW w \in Workers, submitPush(w) PROVE NoStrandedTask'
  BY <1>17 DEF submitPush, IInv, TypeOK, Goto, WakeAll, NoStrandedTask
<1>18. ASSUME NEW w \in Workers, submitNotify(w) PROVE NoStrandedTask'
  BY <1>18 DEF submitNotify, IInv, TypeOK, Goto, WakeAll, NoStrandedTask
<1>19. ASSUME NEW w \in Workers, decRemainingTasks(w) PROVE NoStrandedTask'
  <2>1. CASE remaining' = 0
    <3>1. Cardinality(submitted \ (completed \cup {task[w]})) = 0
      BY <1>19, <2>1, DecrementIsExact DEF decRemainingTasks
    <3>2. IsFiniteSet(submitted \ (completed \cup {task[w]}))
      BY OutstandingFinite, FS_Subset, submitted \ (completed \cup {task[w]}) \subseteq submitted DEF IInv
    <3>3. submitted \ (completed \cup {task[w]}) = {}
      BY <3>1, <3>2, FS_EmptySet
    <3>4. \A i \in 1..Len(queue) : queue[i] \in submitted \ completed /\ queue[i] # task[w]
      BY DEF IInv, NoTaskShared, ExploredBy
    <3>5. Len(queue) = 0
      BY <3>3, <3>4 DEF IInv, TypeOK
    <3>6. queue' = <<>>
      BY <1>19, <3>5 DEF decRemainingTasks, IInv, TypeOK
    <3>7. QED
      BY <3>6 DEF NoStrandedTask
  <2>2. CASE remaining' # 0
    BY <1>19, <2>2 DEF decRemainingTasks, IInv, TypeOK, Goto, WakeAll, NoStrandedTask
  <2>3. QED
    BY <2>1, <2>2
<1>20. ASSUME NEW w \in Workers, SpuriousWakeup(w) PROVE NoStrandedTask'
  BY <1>20 DEF SpuriousWakeup, IInv, TypeOK, Goto, WakeAll, NoStrandedTask
<1>21. CASE UNCHANGED vars
  BY <1>21 DEF vars, IInv, TypeOK, Goto, WakeAll, NoStrandedTask
<1>22. QED
  BY <1>1, <1>2, <1>3, <1>4, <1>5, <1>6, <1>7, <1>8, <1>9, <1>10, <1>11, <1>12, <1>13, <1>14, <1>15, <1>16, <1>17, <1>18, <1>19, <1>20, <1>21
  DEF Next, MainStep, WorkerStep, popTask, submit, Explore, Terminated

(* The steps that end the work wake everybody up. *)
LEMMA SleepStep ==
    ASSUME IInv, [Next]_vars
    PROVE  NoSleepPastTheEnd'
<1> USE PoolAssumption
<1>1. CASE addWorker
  BY <1>1 DEF addWorker, IInv, TypeOK, Goto, WakeAll, NoSleepPastTheEnd, Waiting
<1>2. CASE AllSpawned
  BY <1>2 DEF AllSpawned, IInv, TypeOK, Goto, WakeAll, NoSleepPastTheEnd, Waiting
<1>3. CASE waitForTasks
  BY <1>3 DEF waitForTasks, IInv, TypeOK, Goto, WakeAll, NoSleepPastTheEnd, Waiting
<1>4. CASE DestructorHalt
  BY <1>4 DEF DestructorHalt, IInv, TypeOK, Goto, WakeAll, NoSleepPastTheEnd, Waiting
<1>5. CASE Join
  BY <1>5 DEF Join, IInv, TypeOK, Goto, WakeAll, NoSleepPastTheEnd, Waiting
<1>6. ASSUME NEW w \in Workers, tryPop(w) PROVE NoSleepPastTheEnd'
  BY <1>6 DEF tryPop, IInv, TypeOK, Goto, WakeAll, NoSleepPastTheEnd, Waiting
<1>7. ASSUME NEW w \in Workers, tryPopEmpty(w) PROVE NoSleepPastTheEnd'
  BY <1>7 DEF tryPopEmpty, IInv, TypeOK, Goto, WakeAll, NoSleepPastTheEnd, Waiting
<1>8. ASSUME NEW w \in Workers, checkState(w) PROVE NoSleepPastTheEnd'
  BY <1>8 DEF checkState, IInv, TypeOK, Goto, WakeAll, NoSleepPastTheEnd, Waiting
<1>9. ASSUME NEW w \in Workers, Relock(w) PROVE NoSleepPastTheEnd'
  BY <1>9 DEF Relock, IInv, TypeOK, Goto, WakeAll, NoSleepPastTheEnd, Waiting
<1>10. ASSUME NEW w \in Workers, TaskDone(w) PROVE NoSleepPastTheEnd'
  BY <1>10 DEF TaskDone, IInv, TypeOK, Goto, WakeAll, NoSleepPastTheEnd, Waiting
<1>11. ASSUME NEW w \in Workers, ReportError(w) PROVE NoSleepPastTheEnd'
  BY <1>11 DEF ReportError, IInv, TypeOK, Goto, WakeAll, NoSleepPastTheEnd, Waiting
<1>12. ASSUME NEW w \in Workers, halt(w) PROVE NoSleepPastTheEnd'
  BY <1>12 DEF halt, IInv, TypeOK, Goto, WakeAll, NoSleepPastTheEnd, Waiting
<1>13. ASSUME NEW w \in Workers, BackwardRevisit(w) PROVE NoSleepPastTheEnd'
  BY <1>13 DEF BackwardRevisit, IInv, TypeOK, Goto, WakeAll, NoSleepPastTheEnd, Waiting
<1>14. ASSUME NEW w \in Workers, KeepRevisit(w) PROVE NoSleepPastTheEnd'
  BY <1>14 DEF KeepRevisit, IInv, TypeOK, Goto, WakeAll, NoSleepPastTheEnd, Waiting
<1>15. ASSUME NEW w \in Workers, ShareRevisit(w) PROVE NoSleepPastTheEnd'
  BY <1>15 DEF ShareRevisit, IInv, TypeOK, Goto, WakeAll, NoSleepPastTheEnd, Waiting
<1>16. ASSUME NEW w \in Workers, submitCount(w) PROVE NoSleepPastTheEnd'
  BY <1>16 DEF submitCount, IInv, TypeOK, Goto, WakeAll, NoSleepPastTheEnd, Waiting
<1>17. ASSUME NEW w \in Workers, submitPush(w) PROVE NoSleepPastTheEnd'
  BY <1>17 DEF submitPush, IInv, TypeOK, Goto, WakeAll, NoSleepPastTheEnd, Waiting
<1>18. ASSUME NEW w \in Workers, submitNotify(w) PROVE NoSleepPastTheEnd'
  BY <1>18 DEF submitNotify, IInv, TypeOK, Goto, WakeAll, NoSleepPastTheEnd, Waiting
<1>19. ASSUME NEW w \in Workers, decRemainingTasks(w) PROVE NoSleepPastTheEnd'
  BY <1>19 DEF decRemainingTasks, IInv, TypeOK, Goto, WakeAll, NoSleepPastTheEnd, Waiting
<1>20. ASSUME NEW w \in Workers, SpuriousWakeup(w) PROVE NoSleepPastTheEnd'
  BY <1>20 DEF SpuriousWakeup, IInv, TypeOK, Goto, WakeAll, NoSleepPastTheEnd, Waiting
<1>21. CASE UNCHANGED vars
  BY <1>21 DEF vars, IInv, TypeOK, Goto, WakeAll, NoSleepPastTheEnd, Waiting
<1>22. QED
  BY <1>1, <1>2, <1>3, <1>4, <1>5, <1>6, <1>7, <1>8, <1>9, <1>10, <1>11, <1>12, <1>13, <1>14, <1>15, <1>16, <1>17, <1>18, <1>19, <1>20, <1>21
  DEF Next, MainStep, WorkerStep, popTask, submit, Explore, Terminated

(* The inductive invariant: it holds when the first execution is submitted *)
(* and every critical section of the pool preserves it.                     *)
THEOREM PoolInvariant == Spec => []IInv
<1>1. Init => IInv
  <2> SUFFICES ASSUME Init PROVE IInv
    OBVIOUS
  <2> USE PoolAssumption DEF Init
  <2>1. TypeOK
    <3>1. queue \in Seq(Tasks)
      OBVIOUS
    <3>2. submitted \subseteq Tasks /\ completed \subseteq Tasks
      OBVIOUS
    <3>3. QED
      BY <3>1, <3>2 DEF TypeOK, WorkerPcs, MainPcs
  <2>2. LocalInv /\ MainInv /\ NoSleepPastTheEnd
    BY DEF LocalInv, Busy, MainInv, NoSleepPastTheEnd, Waiting
  <2>3. RemainingIsExact
    <3>1. submitted \ completed = {InitialTask}
      OBVIOUS
    <3>2. Cardinality({InitialTask}) = 1
      BY FS_Singleton
    <3>3. QED
      BY <3>1, <3>2 DEF RemainingIsExact
  <2>4. NoTaskLost /\ NoTaskShared
    BY DEF NoTaskLost, NoTaskShared, InQueue, ExploredBy, PushedBy
  <2>5. NoStrandedTask
    BY DEF NoStrandedTask
  <2>6. QED
    BY <2>1, <2>2, <2>3, <2>4, <2>5 DEF IInv
<1>2. IInv /\ [Next]_vars => IInv'
  BY TypeOKStep, LocalStep, MainStepKeeps, CountStep, LostStep, SharedStep,
     StrandedStep, SleepStep DEF IInv
<1>3. QED
  BY <1>1, <1>2, PTL DEF Spec

(* The pool's variables keep their types; in particular remainingTasks_, an *)
(* unsigned counter, is never decremented below zero.                        *)
THEOREM PoolTypes == Spec => []TypeOK
BY PoolInvariant, PTL DEF IInv

(* remainingTasks_ counts the outstanding executions. *)
THEOREM PoolCounts == Spec => []RemainingIsExact
BY PoolInvariant, PTL DEF IInv

(* No execution is lost between submit(), the queue and the workers. *)
THEOREM PoolLosesNothing == Spec => []NoTaskLost
BY PoolInvariant, PTL DEF IInv

(* No execution is explored by two workers. *)
THEOREM PoolSharesNothing == Spec => []NoTaskShared
BY PoolInvariant, PTL DEF IInv

(* The lost wake-up between tryPop() and wait() strands no execution. *)
THEOREM PoolStrandsNothing == Spec => []NoStrandedTask
BY PoolInvariant, PTL DEF IInv

(* Nobody waits on stateCV_ after the last notification. *)
THEOREM PoolWakesEverybody == Spec => []NoSleepPastTheEnd
BY PoolInvariant, PTL DEF IInv

(* When the pool is destroyed every submitted execution has been explored,  *)
(* even when an error halted it.                                            *)
THEOREM PoolDrains == Spec => []AllExploredAtReturn
<1>1. IInv => AllExploredAtReturn
  <2> SUFFICES ASSUME IInv, mainPc = "returned"
               PROVE  submitted = completed /\ queue = <<>> /\ remaining = 0
    BY DEF AllExploredAtReturn
  <2>1. \A w \in Workers : pc[w] = "exited" /\ task[w] = None
    BY DEF IInv, MainInv, LocalInv, Busy
  <2>2. queue = <<>>
    BY <2>1 DEF IInv, NoStrandedTask
  <2>3. submitted \ completed = {}
    <3> SUFFICES ASSUME NEW t \in submitted \ completed PROVE FALSE
      OBVIOUS
    <3>1. t # None
      BY PoolAssumption DEF IInv, TypeOK
    <3>2. QED
      BY <2>1, <2>2, <3>1 DEF IInv, NoTaskLost, InQueue, ExploredBy, PushedBy
  <2>4. submitted = completed
    BY <2>3 DEF IInv, RemainingIsExact
  <2>5. remaining = 0
    BY <2>3, FS_EmptySet DEF IInv, RemainingIsExact
  <2>6. QED
    BY <2>2, <2>4, <2>5
<1>2. QED
  BY <1>1, PoolInvariant, PTL

(* A submitter is itself a remaining task. *)
LEMMA SubmitterCounts ==
    ASSUME IInv, NEW w \in Workers, pc[w] \in Busy
    PROVE  task[w] \in submitted \ completed /\ remaining # 0
<1>1. task[w] \in submitted \ completed
  BY DEF IInv, LocalInv, NoTaskShared
<1>2. QED
  BY <1>1, ZeroMeansNone


(* Both counting steps are made by a worker with an execution of its own. *)
LEMMA FinalStep ==
    ASSUME IInv, [Next]_vars
    PROVE  remaining = 0 => remaining' = 0
<1> USE PoolAssumption
<1>1. CASE addWorker
  BY <1>1 DEF addWorker, Goto
<1>2. CASE AllSpawned
  BY <1>2 DEF AllSpawned, Goto
<1>3. CASE waitForTasks
  BY <1>3 DEF waitForTasks, Goto
<1>4. CASE DestructorHalt
  BY <1>4 DEF DestructorHalt, Goto
<1>5. CASE Join
  BY <1>5 DEF Join, Goto
<1>6. ASSUME NEW w \in Workers, tryPop(w) PROVE remaining = 0 => remaining' = 0
  BY <1>6 DEF tryPop, Goto
<1>7. ASSUME NEW w \in Workers, tryPopEmpty(w) PROVE remaining = 0 => remaining' = 0
  BY <1>7 DEF tryPopEmpty, Goto
<1>8. ASSUME NEW w \in Workers, checkState(w) PROVE remaining = 0 => remaining' = 0
  BY <1>8 DEF checkState, Goto
<1>9. ASSUME NEW w \in Workers, Relock(w) PROVE remaining = 0 => remaining' = 0
  BY <1>9 DEF Relock, Goto
<1>10. ASSUME NEW w \in Workers, TaskDone(w) PROVE remaining = 0 => remaining' = 0
  BY <1>10 DEF TaskDone, Goto
<1>11. ASSUME NEW w \in Workers, ReportError(w) PROVE remaining = 0 => remaining' = 0
  BY <1>11 DEF ReportError, Goto
<1>12. ASSUME NEW w \in Workers, halt(w) PROVE remaining = 0 => remaining' = 0
  BY <1>12 DEF halt, Goto
<1>13. ASSUME NEW w \in Workers, BackwardRevisit(w) PROVE remaining = 0 => remaining' = 0
  BY <1>13 DEF BackwardRevisit, Goto
<1>14. ASSUME NEW w \in Workers, KeepRevisit(w) PROVE remaining = 0 => remaining' = 0
  BY <1>14 DEF KeepRevisit, Goto
<1>15. ASSUME NEW w \in Workers, ShareRevisit(w) PROVE remaining = 0 => remaining' = 0
  BY <1>15 DEF ShareRevisit, Goto
<1>16. ASSUME NEW w \in Workers, submitCount(w) PROVE remaining = 0 => remaining' = 0
  BY <1>16, SubmitterCounts DEF submitCount, Busy
<1>17. ASSUME NEW w \in Workers, submitPush(w) PROVE remaining = 0 => remaining' = 0
  BY <1>17 DEF submitPush, Goto
<1>18. ASSUME NEW w \in Workers, submitNotify(w) PROVE remaining = 0 => remaining' = 0
  BY <1>18 DEF submitNotify, Goto
<1>19. ASSUME NEW w \in Workers, decRemainingTasks(w) PROVE remaining = 0 => remaining' = 0
  BY <1>19, SubmitterCounts DEF decRemainingTasks, Busy
<1>20. ASSUME NEW w \in Workers, SpuriousWakeup(w) PROVE remaining = 0 => remaining' = 0
  BY <1>20 DEF SpuriousWakeup, Goto
<1>21. CASE UNCHANGED vars
  BY <1>21 DEF vars, Goto
<1>22. QED
  BY <1>1, <1>2, <1>3, <1>4, <1>5, <1>6, <1>7, <1>8, <1>9, <1>10, <1>11, <1>12, <1>13, <1>14, <1>15, <1>16, <1>17, <1>18, <1>19, <1>20, <1>21
  DEF Next, MainStep, WorkerStep, popTask, submit, Explore, Terminated

(* Once no task remains none is ever submitted: waitForTasks() and popTask() *)
(* may act on the value they read.                                           *)
THEOREM PoolEndIsFinal == Spec => NoTasksIsFinal
<1>1. IInv /\ [Next]_vars => (remaining = 0 => remaining' = 0)
  BY FinalStep
<1>2. QED
  BY <1>1, PoolInvariant, PTL DEF Spec, NoTasksIsFinal


(* Every step of the pool is a step of its contract, or invisible there. *)
LEMMA RefinementStep ==
    ASSUME IInv, [Next]_vars
    PROVE  [TP!ANext]_(TP!apVars)
<1> USE PoolAssumption
<1>1. CASE addWorker
  BY <1>1 DEF addWorker, AnsweredBar, TP!apVars
<1>2. CASE AllSpawned
  BY <1>2 DEF AllSpawned, AnsweredBar, TP!apVars
<1>3. CASE waitForTasks
  <2>1. remaining = 0 => submitted = completed
    BY ZeroMeansNone DEF IInv, RemainingIsExact
  <2>2. TP!AAnswer
    BY <1>3, <2>1 DEF waitForTasks, AnsweredBar, TP!AAnswer, IInv, RemainingIsExact
  <2>3. QED
    BY <2>2 DEF TP!ANext
<1>4. CASE DestructorHalt
  BY <1>4 DEF DestructorHalt, AnsweredBar, TP!ANext, TP!AHalt
<1>5. CASE Join
  BY <1>5 DEF Join, AnsweredBar, TP!apVars
<1>6. ASSUME NEW w \in Workers, tryPop(w) PROVE [TP!ANext]_(TP!apVars)
  BY <1>6 DEF tryPop, AnsweredBar, TP!apVars
<1>7. ASSUME NEW w \in Workers, tryPopEmpty(w) PROVE [TP!ANext]_(TP!apVars)
  BY <1>7 DEF tryPopEmpty, AnsweredBar, TP!apVars
<1>8. ASSUME NEW w \in Workers, checkState(w) PROVE [TP!ANext]_(TP!apVars)
  BY <1>8 DEF checkState, AnsweredBar, TP!apVars
<1>9. ASSUME NEW w \in Workers, Relock(w) PROVE [TP!ANext]_(TP!apVars)
  BY <1>9 DEF Relock, AnsweredBar, TP!apVars
<1>10. ASSUME NEW w \in Workers, TaskDone(w) PROVE [TP!ANext]_(TP!apVars)
  BY <1>10 DEF TaskDone, AnsweredBar, TP!apVars
<1>11. ASSUME NEW w \in Workers, ReportError(w) PROVE [TP!ANext]_(TP!apVars)
  BY <1>11 DEF ReportError, AnsweredBar, TP!apVars
<1>12. ASSUME NEW w \in Workers, halt(w) PROVE [TP!ANext]_(TP!apVars)
  BY <1>12 DEF halt, AnsweredBar, TP!ANext, TP!AHalt
<1>13. ASSUME NEW w \in Workers, BackwardRevisit(w) PROVE [TP!ANext]_(TP!apVars)
  BY <1>13 DEF BackwardRevisit, AnsweredBar, TP!apVars
<1>14. ASSUME NEW w \in Workers, KeepRevisit(w) PROVE [TP!ANext]_(TP!apVars)
  BY <1>14 DEF KeepRevisit, AnsweredBar, TP!apVars
<1>15. ASSUME NEW w \in Workers, ShareRevisit(w) PROVE [TP!ANext]_(TP!apVars)
  BY <1>15 DEF ShareRevisit, AnsweredBar, TP!apVars
<1>16. ASSUME NEW w \in Workers, submitCount(w) PROVE [TP!ANext]_(TP!apVars)
  <2>1. submitted \ completed # {}
    BY <1>16, SubmitterCounts DEF submitCount, Busy
  <2>2. child[w] \in Tasks \ submitted
    BY <1>16 DEF submitCount, IInv, TypeOK, LocalInv
  <2>3. QED
    BY <1>16, <2>1, <2>2 DEF submitCount, AnsweredBar, TP!ANext, TP!ASubmit
<1>17. ASSUME NEW w \in Workers, submitPush(w) PROVE [TP!ANext]_(TP!apVars)
  BY <1>17 DEF submitPush, AnsweredBar, TP!apVars
<1>18. ASSUME NEW w \in Workers, submitNotify(w) PROVE [TP!ANext]_(TP!apVars)
  BY <1>18 DEF submitNotify, AnsweredBar, TP!apVars
<1>19. ASSUME NEW w \in Workers, decRemainingTasks(w) PROVE [TP!ANext]_(TP!apVars)
  <2>1. task[w] \in submitted \ completed
    BY <1>19, SubmitterCounts DEF decRemainingTasks, Busy
  <2>2. QED
    BY <1>19, <2>1 DEF decRemainingTasks, AnsweredBar, TP!ANext, TP!AComplete
<1>20. ASSUME NEW w \in Workers, SpuriousWakeup(w) PROVE [TP!ANext]_(TP!apVars)
  BY <1>20 DEF SpuriousWakeup, AnsweredBar, TP!apVars
<1>21. CASE UNCHANGED vars
  BY <1>21 DEF vars, AnsweredBar, TP!apVars
<1>22. QED
  BY <1>1, <1>2, <1>3, <1>4, <1>5, <1>6, <1>7, <1>8, <1>9, <1>10, <1>11, <1>12, <1>13, <1>14, <1>15, <1>16, <1>17, <1>18, <1>19, <1>20, <1>21
  DEF Next, MainStep, WorkerStep, popTask, submit, Explore, Terminated

(* The pool implements the contract of module TaskPool. *)
THEOREM PoolImplementsContract == Spec => ImplementsTaskPool
<1>1. Init => TP!AInit
  BY DEF Init, TP!AInit, AnsweredBar
<1>2. IInv /\ [Next]_vars => [TP!ANext]_(TP!apVars)
  BY RefinementStep
<1>3. QED
  BY <1>1, <1>2, PoolInvariant, PTL DEF Spec, ImplementsTaskPool, TP!ASpec
=============================================================================
