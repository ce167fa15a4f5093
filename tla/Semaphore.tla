----------------------------- MODULE Semaphore -----------------------------
(***************************************************************************)
(* The semaphore system calls of the labo2 kernel (kernel/sysproc.c),      *)
(* executed by NPROC processes on the sleep/wakeup of SleepWakeup.         *)
(*                                                                         *)
(* sem_t[s].value is an int and wraps; sem_t[s].lock is holder[s] and the  *)
(* sleep channel is &sem_t[s], named s.  A process outside the semaphore   *)
(* code is at "user"; down, up and close are split where the code gives    *)
(* up a lock or takes a second one.                                        *)
(***************************************************************************)
EXTENDS SleepWakeup

CONSTANTS MAX_SEMAPHORES,  \* length of sem_t
          INT_MAX,         \* largest int (2^31 - 1 in the build)
          OpenValues,      \* the sem_value arguments programs pass to sem_open
          MaxCalls,        \* bound: system calls a process makes
          SemInitCalled    \* does the boot sequence call sem_init()?

\* There is a semaphore, int is a two's complement type, and sem_open's second
\* argument is an int.
ASSUME SemaphoreAssumption ==
  /\ MAX_SEMAPHORES \in Nat \ {0}
  /\ INT_MAX \in Nat \ {0}
  /\ OpenValues \subseteq (-INT_MAX - 1)..INT_MAX
  /\ MaxCalls \in Nat
  /\ SemInitCalled \in BOOLEAN

VARIABLES value,   \* sem_t[s].value
          pc,      \* where process p is in the semaphore code
          cur,     \* the semaphore argument of p's last system call
          ret,     \* p's last system call result (trapframe a0)
          calls    \* system calls p has made, bounded by MaxCalls

vars == <<holder, plock, state, chan, killed, wi, value, pc, cur, ret, calls>>

Sem == 0..(MAX_SEMAPHORES - 1)
INT_MIN == -INT_MAX - 1
Int32 == INT_MIN..INT_MAX

\* value++ in an integer that does not wrap.
incr_unbounded(v) == v + 1

\* value++ and value-- on an int as the build computes them.
incr(v) == IF v = INT_MAX THEN INT_MIN ELSE v + 1
decr(v) == IF v = INT_MIN THEN INT_MAX ELSE v - 1

Labels == {"user", "sleep1", "sleep2", "sleep3", "asleep", "relock",
           "wakeup", "dead"}

\* The labels of a process inside sys_sem_down's loop.
Waiting == {"sleep1", "sleep2", "sleep3", "asleep", "relock"}

----------------------------------------------------------------------------
\* sem_t at boot: the zero of .bss, or what sem_init() stores.
boot_value == IF SemInitCalled THEN -1 ELSE 0

Init ==
  /\ holder = [s \in Sem |-> NoProc]
  /\ plock = [p \in Procs |-> NoProc]
  /\ state = [p \in Procs |-> "RUNNING"]
  /\ chan = [p \in Procs |-> NoChan]
  /\ killed = [p \in Procs |-> FALSE]
  /\ wi = [p \in Procs |-> 1]
  /\ value = [s \in Sem |-> boot_value]
  /\ pc = [p \in Procs |-> "user"]
  /\ cur = [p \in Procs |-> 0]
  /\ ret = [p \in Procs |-> 0]
  /\ calls = [p \in Procs |-> 0]

\* usertrap() lets a process into a system call only when it is not killed.
syscall(p, s) ==
  /\ pc[p] = "user"
  /\ ~killed[p]
  /\ calls[p] < MaxCalls
  /\ calls' = [calls EXCEPT ![p] = @ + 1]
  /\ cur' = [cur EXCEPT ![p] = s]

goto(p, l) == pc' = [pc EXCEPT ![p] = l]

return(p, v) == ret' = [ret EXCEPT ![p] = v]

\* Every semaphore call with an id outside the table returns 0.
sys_sem_invalid(p) ==
  /\ \E s \in {-1, MAX_SEMAPHORES} : syscall(p, s)
  /\ return(p, 0)
  /\ UNCHANGED <<swVars, value, pc>>

\* sem_open(s, v): one critical section.
sys_sem_open(p, s, v) ==
  /\ syscall(p, s)
  /\ holder[s] = NoProc
  /\ \/ value[s] = -1 /\ value' = [value EXCEPT ![s] = v] /\ return(p, 1)
     \/ value[s] # -1 /\ UNCHANGED value /\ return(p, 0)
  /\ UNCHANGED <<swVars, pc>>

\* The common part of close and up: take the lock, store, enter wakeup().
update_and_wake(p, s, v) ==
  /\ syscall(p, s)
  /\ acquire(p, s)
  /\ value' = [value EXCEPT ![s] = v]
  /\ goto(p, "wakeup")
  /\ UNCHANGED <<plock, state, chan, killed, wi, ret>>

sys_sem_close(p, s) == update_and_wake(p, s, 0)

\* An up that does not enter wakeup().
sys_sem_up_no_wakeup(p, s) ==
  /\ syscall(p, s)
  /\ holder[s] = NoProc
  /\ value' = [value EXCEPT ![s] = incr(value[s])]
  /\ return(p, 1)
  /\ UNCHANGED <<swVars, pc>>

sys_sem_up(p, s) == update_and_wake(p, s, incr(value[s]))

\* wakeup(&sem_t[s]) goes on to the next slot.
wakeup_step(p) ==
  /\ pc[p] = "wakeup"
  /\ wakeup_visit(p, cur[p])
  /\ UNCHANGED <<value, pc, cur, ret, calls>>

\* wakeup() returns; the caller releases the lock and returns 1.  (The loop
\* variable starts at the first slot again in the next call.)
wakeup_done(p) ==
  /\ pc[p] = "wakeup"
  /\ wi[p] = NPROC + 1
  /\ release(p, cur[p])
  /\ wi' = [wi EXCEPT ![p] = 1]
  /\ goto(p, "user")
  /\ return(p, 1)
  /\ UNCHANGED <<plock, state, chan, killed, value, cur, calls>>

\* The loop of sem_down, entered with the lock just acquired: either the test
\* fails and the rest is one critical section, or the process calls sleep().
down_loop(p, s) ==
  /\ holder[s] = NoProc
  /\ \/ /\ value[s] = 0
        /\ acquire(p, s)
        /\ goto(p, "sleep1")
        /\ UNCHANGED <<value, ret>>
     \/ /\ value[s] # 0
        /\ value' = [value EXCEPT ![s] = decr(@)]
        /\ goto(p, "user")
        /\ return(p, 1)
        /\ UNCHANGED holder
  /\ UNCHANGED <<plock, state, chan, killed, wi>>

sys_sem_down(p, s) == syscall(p, s) /\ down_loop(p, s)

\* sleep(&sem_t[s], &sem_t[s].lock), step by step.
down_sleep1(p) ==
  /\ pc[p] = "sleep1" /\ goto(p, "sleep2")
  /\ sleep_lock(p)
  /\ UNCHANGED <<value, cur, ret, calls>>

down_sleep2(p) ==
  /\ pc[p] = "sleep2" /\ goto(p, "sleep3")
  /\ sleep_release(p, cur[p])
  /\ UNCHANGED <<value, cur, ret, calls>>

down_sleep3(p) ==
  /\ pc[p] = "sleep3" /\ goto(p, "asleep")
  /\ sleep_sched(p, cur[p])
  /\ UNCHANGED <<value, cur, ret, calls>>

down_resume(p) ==
  /\ pc[p] = "asleep" /\ goto(p, "relock")
  /\ scheduler(p)
  /\ UNCHANGED <<value, cur, ret, calls>>

\* The end of sleep() takes the semaphore's lock again and the loop tests.
down_relock(p) ==
  /\ pc[p] = "relock"
  /\ down_loop(p, cur[p])
  /\ UNCHANGED <<cur, calls>>

\* kill(q), called by p.
sys_kill(p, q) ==
  /\ syscall(p, cur[p])
  /\ kill(q)
  /\ return(p, 0)
  /\ UNCHANGED <<value, pc>>

\* usertrap() calls exit(-1) for a killed process.  (A process that exits by
\* itself is, for the semaphores, one that makes no more system calls.)
usertrap_exit(p) ==
  /\ pc[p] = "user"
  /\ killed[p]
  /\ plock[p] = NoProc
  /\ goto(p, "dead")
  /\ state' = [state EXCEPT ![p] = "ZOMBIE"]
  /\ UNCHANGED <<holder, plock, chan, killed, wi, value, cur, ret, calls>>

----------------------------------------------------------------------------
\* Steps a process takes by itself once it is inside a system call.
KernelStep(p) ==
  \/ wakeup_step(p) \/ wakeup_done(p)
  \/ down_sleep1(p) \/ down_sleep2(p) \/ down_sleep3(p)
  \/ down_resume(p) \/ down_relock(p)

SystemCall(p) ==
  \/ sys_sem_invalid(p)
  \/ \E s \in Sem : \/ \E v \in OpenValues : sys_sem_open(p, s, v)
                    \/ sys_sem_close(p, s)
                    \/ sys_sem_up(p, s)
                    \/ sys_sem_down(p, s)
  \/ \E q \in Procs : sys_kill(p, q)

Next == \E p \in Procs : KernelStep(p) \/ SystemCall(p) \/ usertrap_exit(p)

\* A CPU inside the kernel keeps executing, and every scheduler() loop visits
\* every slot; nothing obliges a program to make a system call or to exit.
Fairness == \A p \in Procs : WF_vars(KernelStep(p))

Spec == Init /\ [][Next]_vars /\ Fairness

----------------------------------------------------------------------------
\* The types of the variables; a semaphore's value is an int whatever the calls
\* do to it (sem_up at INT_MAX, sem_down at a negative value).
TypeOK ==
  /\ holder \in [Sem -> Procs \cup {NoProc}]
  /\ plock \in [Procs -> Procs \cup {NoProc}]
  /\ state \in [Procs -> ProcStates]
  /\ chan \in [Procs -> Sem \cup {NoChan}]
  /\ killed \in [Procs -> BOOLEAN]
  /\ wi \in [Procs -> 1..(NPROC + 1)]
  /\ value \in [Sem -> Int32]
  /\ pc \in [Procs -> Labels]
  /\ cur \in [Procs -> Int]
  /\ ret \in [Procs -> {0, 1}]
  /\ calls \in [Procs -> 0..MaxCalls]

\* The control state of p agrees with its slot of the process table.
ControlOK(p) ==
  /\ pc[p] # "user" /\ pc[p] # "dead" => cur[p] \in Sem
  /\ state[p] = "SLEEPING" => pc[p] = "asleep"
  /\ pc[p] = "asleep" =>
       /\ state[p] \in {"SLEEPING", "RUNNABLE"}
       /\ chan[p] = cur[p]
  /\ pc[p] \notin {"asleep", "dead"} => state[p] = "RUNNING"
  /\ pc[p] # "wakeup" => wi[p] = 1

\* The assertions of spinlock.c and proc.c: p holds exactly the spinlocks its
\* place in the code says, so release() is only called by the holder, nothing
\* is acquired twice, and sched() runs with p->lock held and no other lock
\* (no panic("release"), ("acquire"), ("sched p->lock"), ("sched locks")).
LockDiscipline ==
  \A p \in Procs :
    /\ ControlOK(p)
    /\ \A s \in Sem :
         holder[s] = p <=> pc[p] \in {"sleep1", "sleep2", "wakeup"} /\ cur[p] = s
    /\ \A q \in Procs :
         plock[q] = p <=> q = p /\ pc[p] \in {"sleep2", "sleep3"}

\* No wakeup is lost: when nobody is inside semaphore s and its value is not
\* zero, no process sleeps on it, nor has committed itself to sleep on it.
NoLostWakeup ==
  \A s \in Sem :
    holder[s] = NoProc /\ value[s] # 0 =>
      \A p \in Procs : cur[p] = s =>
        pc[p] # "sleep3" /\ (pc[p] = "asleep" => state[p] # "SLEEPING")

\* What makes NoLostWakeup inductive.  A process on its way into sleep() read
\* value 0 under the lock it still holds; once it has let the lock go, it can
\* sleep on a nonzero value only while the process that changed the value is
\* in wakeup() and has not passed its slot.
WakeupPending ==
  \A p \in Procs :
    LET s == cur[p] IN
    /\ pc[p] \in {"sleep1", "sleep2"} => value[s] = 0
    /\ (pc[p] = "sleep3" \/ state[p] = "SLEEPING") /\ value[s] # 0 =>
         \E q \in Procs :
           q # p /\ holder[s] = q /\ pc[q] = "wakeup" /\ wi[q] <= p

IInv == TypeOK /\ LockDiscipline /\ WakeupPending

\* The refinement of the semaphore a user of the system calls sees: p waits on
\* a semaphore exactly while it is inside sem_down's loop.
waiting == [p \in Procs |-> IF pc[p] \in Waiting THEN cur[p] ELSE -1]

Abs == INSTANCE SemaphoreSpec

\* The system calls implement the atomic semaphore, its liveness included: a
\* process blocked on a semaphore whose value stays nonzero gets through.
AtomicSemaphore == Abs!Spec
=============================================================================
