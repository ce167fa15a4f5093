--------------------------- MODULE SemaphoreLife ---------------------------
(***************************************************************************)
(* The life of a semaphore, open to close to open again, over the system   *)
(* calls of Semaphore.  A history variable remembers which semaphores are  *)
(* not open: the property is what grade-lab2 asks of the system calls and  *)
(* sysproc.c does not deliver.                                             *)
(***************************************************************************)
EXTENDS Semaphore

VARIABLE closed   \* semaphores not opened successfully since boot, or since their last close

lifeVars == <<vars, closed>>

LifeInit == Init /\ closed = Sem

LifeNext ==
  \E p \in Procs :
    \/ \E s \in Sem : sys_sem_close(p, s) /\ closed' = closed \cup {s}
    \/ \E s \in Sem, v \in OpenValues :
         /\ sys_sem_open(p, s, v)
         /\ closed' = IF ret'[p] = 1 THEN closed \ {s} ELSE closed
    \/ \E s \in Sem : (sys_sem_up(p, s) \/ sys_sem_down(p, s)) /\ UNCHANGED closed
    \/ \E q \in Procs : sys_kill(p, q) /\ UNCHANGED closed
    \/ (KernelStep(p) \/ sys_sem_invalid(p) \/ usertrap_exit(p)) /\ UNCHANGED closed

LifeSpec == LifeInit /\ [][LifeNext]_lifeVars

----------------------------------------------------------------------------
\* grade-lab2: "semaphores are initialized to the proper value" and "semaphore
\* exaustion and reuse after close".  A sem_open of a semaphore that nobody has
\* opened yet, or that sem_close has closed, succeeds.
ClosedCanBeOpened ==
  [][\A p \in Procs, s \in closed, v \in OpenValues :
       sys_sem_open(p, s, v) => ret'[p] = 1]_lifeVars
=============================================================================
