------------------------------ MODULE PingPong ------------------------------
(***************************************************************************)
(* user/pingpong.c, the program that uses the semaphores, composed with    *)
(* the system calls of Semaphore.  The parent is process 1 and runs        *)
(* pong(), the child it forks is process 2 and runs ping().  What sem_open *)
(* returns is what the program then uses as the semaphore's id.            *)
(***************************************************************************)
EXTENDS Semaphore

CONSTANT Rounds   \* argv[1]

\* NPROC = 2, MAX_SEMAPHORES >= 2, Rounds >= 1 and MaxCalls >= 3 * Rounds + 3.

VARIABLES upc,   \* where each process is in the program
          sem,   \* the parameter sem of ping() and pong()
          i      \* the loop variable of ping() and pong()

ppVars == <<vars, upc, sem, i>>

Parent == 1
Child == 2

PPInit ==
  /\ Init
  /\ upc = <<"open_ping", "unborn">>
  /\ sem = <<0, 0>>
  /\ i = <<0, 0>>

\* int ping_sem = sem_open(0, 1); the child will use it.
open_ping ==
  /\ upc[Parent] = "open_ping" /\ upc' = [upc EXCEPT ![Parent] = "open_pong"]
  /\ sys_sem_open(Parent, 0, 1)
  /\ sem' = [sem EXCEPT ![Child] = ret'[Parent]]
  /\ UNCHANGED i

\* int pong_sem = sem_open(1, 0);
open_pong ==
  /\ upc[Parent] = "open_pong" /\ upc' = [upc EXCEPT ![Parent] = "fork"]
  /\ sys_sem_open(Parent, 1, 0)
  /\ sem' = [sem EXCEPT ![Parent] = ret'[Parent]]
  /\ UNCHANGED i

fork ==
  /\ upc[Parent] = "fork"
  /\ upc' = [p \in Procs |-> "down"]
  /\ UNCHANGED <<vars, sem, i>>

\* The body of the loops of ping() and pong().
sem_down(p) ==
  /\ upc[p] = "down" /\ upc' = [upc EXCEPT ![p] = "print"]
  /\ sys_sem_down(p, sem[p])
  /\ UNCHANGED <<sem, i>>

print(p) ==
  /\ upc[p] = "print" /\ upc' = [upc EXCEPT ![p] = "up"]
  /\ pc[p] = "user"
  /\ UNCHANGED <<vars, sem, i>>

sem_up(p) ==
  /\ upc[p] = "up"
  /\ upc' = [upc EXCEPT ![p] = IF i[p] + 1 < Rounds THEN "down" ELSE "close"]
  /\ i' = [i EXCEPT ![p] = @ + 1]
  /\ sys_sem_up(p, sem[p])
  /\ UNCHANGED sem

sem_close(p) ==
  /\ upc[p] = "close" /\ upc' = [upc EXCEPT ![p] = "exit"]
  /\ sys_sem_close(p, sem[p])
  /\ UNCHANGED <<sem, i>>

ProgramStep(p) == sem_down(p) \/ print(p) \/ sem_up(p) \/ sem_close(p)

PPNext ==
  \/ open_ping \/ open_pong \/ fork
  \/ \E p \in Procs : \/ ProgramStep(p)
                      \/ KernelStep(p) /\ UNCHANGED <<upc, sem, i>>

\* Every process that can run is scheduled, in the program and in the kernel.
PPSpec ==
  /\ PPInit /\ [][PPNext]_ppVars
  /\ WF_ppVars(open_ping \/ open_pong \/ fork)
  /\ \A p \in Procs : /\ WF_ppVars(ProgramStep(p))
                      /\ WF_ppVars(KernelStep(p) /\ UNCHANGED <<upc, sem, i>>)

----------------------------------------------------------------------------
\* grade-lab2, "pingpong check proper order & termination": both processes
\* finish their rounds and exit.
Terminates == <>(\A p \in Procs : upc[p] = "exit" /\ pc[p] = "user")
=============================================================================
