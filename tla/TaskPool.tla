------------------------------ MODULE TaskPool ------------------------------
(***************************************************************************)
(* What the thread pool promises its users, whatever its threads do: an    *)
(* execution is accepted once, accepted executions are completed at most   *)
(* once, only somebody working on an accepted execution can submit another *)
(* one, and the caller of waitForTasks() gets its answer when nothing is   *)
(* left or when a worker asked the pool to halt.                           *)
(***************************************************************************)
CONSTANTS Tasks, InitialTask

VARIABLES submitted,  \* executions accepted by submit()
          completed,  \* executions some worker explored to the end
          halted,     \* a worker (or the destructor) called halt()
          answered    \* waitForTasks() has returned

apVars == <<submitted, completed, halted, answered>>

AInit == /\ submitted = {InitialTask}
         /\ completed = {}
         /\ halted = FALSE
         /\ answered = FALSE

ASubmit == /\ submitted \ completed # {}
           /\ \E t \in Tasks \ submitted : submitted' = submitted \cup {t}
           /\ UNCHANGED <<completed, halted, answered>>

AComplete == /\ \E t \in submitted \ completed : completed' = completed \cup {t}
             /\ UNCHANGED <<submitted, halted, answered>>

AHalt == /\ halted' = TRUE
         /\ UNCHANGED <<submitted, completed, answered>>

AAnswer == /\ halted \/ submitted = completed
           /\ answered' = TRUE
           /\ UNCHANGED <<submitted, completed, halted>>

ANext == ASubmit \/ AComplete \/ AHalt \/ AAnswer

ASpec == AInit /\ [][ANext]_apVars
=============================================================================
