---------------------------- MODULE SleepWakeup ----------------------------
(***************************************************************************)
(* Sleep and wakeup of the labo2 kernel (kernel/proc.c) on top of its      *)
(* spinlocks (kernel/spinlock.c).                                          *)
(*                                                                         *)
(* The module holds the part of the process table that sleep(), wakeup(),  *)
(* kill() and the scheduler share, and one operator per step of them.  A   *)
(* client (Semaphore) conjoins an operator with its own control state.     *)
(*                                                                         *)
(* Granularity.  A critical section that takes no second lock and calls    *)
(* nothing that blocks is one step, guarded by the lock being free: no     *)
(* other process can see the inside of it.  sleep() and wakeup() nest      *)
(* p->lock and the caller's lock, so every acquire and release in them     *)
(* is a step of its own, and so is every visit of wakeup()'s loop.         *)
(***************************************************************************)
EXTENDS Integers

CONSTANTS NPROC,    \* param.h: size of the process table
          NoChan    \* p->chan = 0: not sleeping on anything

\* The process table has at least one slot.
ASSUME NPROCAssumption == NPROC \in Nat \ {0}

VARIABLES holder,   \* holder[lk]: the process that holds spinlock lk, or NoProc
          plock,    \* plock[p]: the holder of p->lock, or NoProc
          state,    \* p->state
          chan,     \* p->chan
          killed,   \* p->killed
          wi        \* wi[p]: the loop variable of the wakeup() that p executes

swVars == <<holder, plock, state, chan, killed, wi>>

Procs == 1..NPROC
NoProc == 0

ProcStates == {"SLEEPING", "RUNNABLE", "RUNNING", "ZOMBIE"}

----------------------------------------------------------------------------
\* acquire(lk): the spin ends when the lock is free.
acquire(p, lk) ==
  /\ holder[lk] = NoProc
  /\ holder' = [holder EXCEPT ![lk] = p]

\* release(lk); it panics unless the caller holds the lock.
release(p, lk) ==
  /\ holder[lk] = p
  /\ holder' = [holder EXCEPT ![lk] = NoProc]

\* A sleep() that does not take p->lock before it gives up the caller's lock.
sleep_lock_skipped(p) ==
  /\ plock[p] = NoProc
  /\ UNCHANGED swVars

\* sleep(), first step: acquire(&p->lock).
sleep_lock(p) ==
  /\ plock[p] = NoProc
  /\ plock' = [plock EXCEPT ![p] = p]
  /\ UNCHANGED <<holder, state, chan, killed, wi>>

\* A sleep() that keeps the caller's lock.
sleep_release_skipped(p, lk) ==
  /\ holder[lk] = p
  /\ UNCHANGED swVars

\* sleep(), second step: release(lk), with p->lock held.
sleep_release(p, lk) ==
  /\ release(p, lk)
  /\ UNCHANGED <<plock, state, chan, killed, wi>>

\* sleep(), third step: p->chan = chan, p->state = SLEEPING and sched(); the
\* scheduler it switches to releases p->lock.
sleep_sched(p, c) ==
  /\ chan' = [chan EXCEPT ![p] = c]
  /\ state' = [state EXCEPT ![p] = "SLEEPING"]
  /\ plock' = [plock EXCEPT ![p] = NoProc]
  /\ UNCHANGED <<holder, killed, wi>>

\* scheduler() picks a process that called sleep(): it takes p->lock, switches
\* to it, and sleep() clears p->chan and releases p->lock.
scheduler(p) ==
  /\ plock[p] = NoProc
  /\ state[p] = "RUNNABLE"
  /\ state' = [state EXCEPT ![p] = "RUNNING"]
  /\ chan' = [chan EXCEPT ![p] = NoChan]
  /\ UNCHANGED <<holder, plock, killed, wi>>

\* wakeup(c), one iteration: the slot under the loop variable, which is
\* skipped when it is the caller's own and otherwise locked, tested, released.
wakeup_visit(p, c) ==
  LET q == wi[p] IN
  /\ q \in Procs
  /\ q # p => plock[q] = NoProc
  /\ state' = IF q # p /\ state[q] = "SLEEPING" /\ chan[q] = c
              THEN [state EXCEPT ![q] = "RUNNABLE"]
              ELSE state
  /\ wi' = [wi EXCEPT ![p] = q + 1]
  /\ UNCHANGED <<holder, plock, chan, killed>>

\* kill(pid) finds the victim q: the flag is set and a sleeper is woken.
kill(q) ==
  /\ plock[q] = NoProc
  /\ killed' = [killed EXCEPT ![q] = TRUE]
  /\ state' = IF state[q] = "SLEEPING"
              THEN [state EXCEPT ![q] = "RUNNABLE"]
              ELSE state
  /\ UNCHANGED <<holder, plock, chan, wi>>
=============================================================================
