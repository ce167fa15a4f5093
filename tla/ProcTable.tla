----------------------------- MODULE ProcTable -----------------------------
(***************************************************************************)
(* The life of processes in the labo2 kernel (kernel/proc.c): fork, exit,  *)
(* wait, reparent, kill, yield and the scheduler, on NCPU processors.      *)
(*                                                                         *)
(* wait_lock protects p->parent; p->lock protects the rest of a slot and,  *)
(* through sched(), the process's kernel stack: it stays held from the     *)
(* change of p->state until the processor is back in scheduler().  Those   *)
(* are the places where the model breaks a kernel function into steps;     *)
(* sleep() up to sched() and a whole wakeup() are single steps, which is   *)
(* what Semaphore establishes about them.                                  *)
(*                                                                         *)
(* Slot 1 is initproc.  Files, memory and exit statuses are left out, the  *)
(* failures of their allocation are not.                                   *)
(***************************************************************************)
EXTENDS Integers, FiniteSets

CONSTANTS NPROC,      \* param.h: size of the process table
          NCPU,       \* param.h: number of processors
          MaxPid,     \* bound: the last pid allocpid() hands out
          MaxCalls,   \* bound: wait() and kill() calls of a process other than init
          KillPids    \* the pids programs pass to kill()

\* There is a slot for init and a processor.  Programs do not kill init: exit()
\* would panic.
ASSUME ProcTableAssumption ==
  /\ NPROC \in Nat \ {0} /\ NCPU \in Nat \ {0}
  /\ MaxPid \in Nat \ {0} /\ MaxCalls \in Nat
  /\ KillPids \subseteq Nat \ {1}

VARIABLES state, pid, parent, chan, killed,   \* the fields of struct proc
          plock,       \* the process that holds p->lock, or NoProc
          wait_lock,   \* the process that holds wait_lock, or NoProc
          nextpid,     \* the next pid
          ncpu,        \* number of processors on p's kernel stack (c->proc == p)
          pc,          \* where p is in the kernel; "user" outside these calls
          np,          \* fork: the slot of the child
          pp,          \* wait: the slot under the loop variable
          havekids,    \* wait: a child was seen
          calls        \* wait() and kill() calls made, bounded by MaxCalls

procVars == <<state, pid, parent, chan, killed>>
localVars == <<np, pp, havekids, calls>>
vars == <<procVars, plock, wait_lock, nextpid, ncpu, pc, localVars>>

Procs == 1..NPROC
NoProc == 0
initproc == 1

Running(p) == ncpu[p] > 0 /\ state[p] = "RUNNING"
goto(p, l) == pc' = [pc EXCEPT ![p] = l]
Children(p) == {q \in Procs : parent[q] = p}

\* The kernel stacks that processors are on.
Busy == {q \in Procs : ncpu[q] > 0}

----------------------------------------------------------------------------
\* userinit() has made the first process.
Init ==
  /\ state = [p \in Procs |-> IF p = initproc THEN "RUNNABLE" ELSE "UNUSED"]
  /\ pid = [p \in Procs |-> IF p = initproc THEN 1 ELSE 0]
  /\ parent = [p \in Procs |-> NoProc]
  /\ chan = [p \in Procs |-> NoProc]
  /\ killed = [p \in Procs |-> FALSE]
  /\ plock = [p \in Procs |-> NoProc]
  /\ wait_lock = NoProc
  /\ nextpid = 2
  /\ ncpu = [p \in Procs |-> 0]
  /\ pc = [p \in Procs |-> "user"]
  /\ np = [p \in Procs |-> NoProc]
  /\ pp = [p \in Procs |-> 1]
  /\ havekids = [p \in Procs |-> FALSE]
  /\ calls = [p \in Procs |-> 0]

\* The sleepers on c, the caller excepted, become RUNNABLE.
wakeup(p, c, st) ==
  [q \in Procs |-> IF q # p /\ st[q] = "SLEEPING" /\ chan[q] = c
                   THEN "RUNNABLE" ELSE st[q]]

----------------------------------------------------------------------------
\* scheduler(): a processor in its scheduler loop locks a RUNNABLE slot,
\* switches to it, and the process (sleep, yield or forkret) releases p->lock;
\* sleep() clears p->chan on its way.
scheduler(p) ==
  /\ Cardinality(Busy) < NCPU
  /\ plock[p] = NoProc
  /\ state[p] = "RUNNABLE"
  /\ state' = [state EXCEPT ![p] = "RUNNING"]
  /\ ncpu' = [ncpu EXCEPT ![p] = @ + 1]
  /\ chan' = [chan EXCEPT ![p] = NoProc]
  /\ UNCHANGED <<pid, parent, killed, plock, wait_lock, nextpid, pc, localVars>>

\* sched() reaches scheduler(): c->proc = 0 and p->lock is released.
sched(p) ==
  /\ ncpu[p] > 0
  /\ state[p] # "RUNNING"
  /\ ncpu' = [ncpu EXCEPT ![p] = @ - 1]
  /\ plock' = [plock EXCEPT ![p] = NoProc]
  /\ UNCHANGED <<procVars, wait_lock, nextpid, pc, localVars>>

\* A yield() that gives p->lock back before it has left the kernel stack.
yield_unlocked(p) ==
  /\ Running(p)
  /\ pc[p] \in {"user", "fork_parent", "fork_run", "wait"}
  /\ plock[p] = NoProc
  /\ state' = [state EXCEPT ![p] = "RUNNABLE"]
  /\ UNCHANGED <<pid, parent, chan, killed, plock, wait_lock, nextpid, ncpu, pc, localVars>>

\* yield() on a timer interrupt, which arrives in user space or where the
\* kernel holds no lock.
yield(p) ==
  /\ Running(p)
  /\ pc[p] \in {"user", "fork_parent", "fork_run", "wait"}
  /\ plock[p] = NoProc
  /\ plock' = [plock EXCEPT ![p] = p]
  /\ state' = [state EXCEPT ![p] = "RUNNABLE"]
  /\ UNCHANGED <<pid, parent, chan, killed, wait_lock, nextpid, ncpu, pc, localVars>>

----------------------------------------------------------------------------
\* A system call starts: usertrap() has seen p->killed clear.
syscall(p) == Running(p) /\ pc[p] = "user" /\ ~killed[p]

\* wait() and kill() are bounded for every process but init.
counted(p) ==
  /\ p # initproc => calls[p] < MaxCalls
  /\ calls' = IF p = initproc THEN calls ELSE [calls EXCEPT ![p] = @ + 1]

\* freeproc(q) writes these fields; the caller holds q->lock.
freeproc(q) ==
  /\ state' = [state EXCEPT ![q] = "UNUSED"]
  /\ pid' = [pid EXCEPT ![q] = 0]
  /\ parent' = [parent EXCEPT ![q] = NoProc]
  /\ chan' = [chan EXCEPT ![q] = NoProc]
  /\ killed' = [killed EXCEPT ![q] = FALSE]

\* allocpid(): the pid is nextpid, the counter moves on under pid_lock.
allocpid == nextpid' = nextpid + 1

\* fork(): allocproc() takes an UNUSED slot and returns with its lock held;
\* its context starts at forkret, on an empty kernel stack.
fork_alloc(p) ==
  /\ syscall(p) /\ goto(p, "fork_copy")
  /\ nextpid <= MaxPid /\ allocpid
  /\ \E q \in Procs :
       /\ state[q] = "UNUSED" /\ plock[q] = NoProc
       /\ plock' = [plock EXCEPT ![q] = p]
       /\ pid' = [pid EXCEPT ![q] = nextpid]
       /\ state' = [state EXCEPT ![q] = "USED"]
       /\ np' = [np EXCEPT ![p] = q]
       /\ calls' = [calls EXCEPT ![q] = 0]
  /\ UNCHANGED <<parent, chan, killed, wait_lock, ncpu, pp, havekids>>

\* fork(): uvmcopy() and the copies succeed and np->lock is released, or memory
\* runs out and the slot is freed first.
fork_copy(p) ==
  /\ pc[p] = "fork_copy"
  /\ plock' = [plock EXCEPT ![np[p]] = NoProc]
  /\ \/ goto(p, "fork_parent") /\ UNCHANGED <<procVars, np>>
     \/ freeproc(np[p]) /\ goto(p, "user") /\ np' = [np EXCEPT ![p] = NoProc]
  /\ UNCHANGED <<wait_lock, nextpid, ncpu, pp, havekids, calls>>

\* fork(): the child gets its parent under wait_lock, which is held briefly.
fork_parent(p) ==
  /\ Running(p) /\ pc[p] = "fork_parent" /\ goto(p, "fork_run")
  /\ wait_lock = NoProc
  /\ parent' = [parent EXCEPT ![np[p]] = p]
  /\ UNCHANGED <<state, pid, chan, killed, plock, wait_lock, nextpid, ncpu, localVars>>

fork_run(p) ==
  /\ Running(p) /\ pc[p] = "fork_run" /\ goto(p, "user")
  /\ plock[np[p]] = NoProc
  /\ state' = [state EXCEPT ![np[p]] = "RUNNABLE"]
  /\ np' = [np EXCEPT ![p] = NoProc]
  /\ UNCHANGED <<pid, parent, chan, killed, plock, wait_lock, nextpid, ncpu, pp, havekids, calls>>

----------------------------------------------------------------------------
\* An exit() that does not give its children to init.
exit_reparent_skipped(p) ==
  /\ Running(p) /\ p # initproc
  /\ pc[p] = "user" /\ goto(p, "exit_wakeup")
  /\ wait_lock = NoProc /\ wait_lock' = p
  /\ UNCHANGED <<procVars, plock, nextpid, ncpu, localVars>>

\* exit(), asked for by the program or by usertrap() for a killed process:
\* under wait_lock, reparent() gives the children to init and wakes it.
exit_reparent(p) ==
  /\ Running(p) /\ p # initproc
  /\ pc[p] = "user" /\ goto(p, "exit_wakeup")
  /\ wait_lock = NoProc /\ wait_lock' = p
  /\ parent' = [q \in Procs |-> IF parent[q] = p THEN initproc ELSE parent[q]]
  /\ state' = IF Children(p) = {} THEN state ELSE wakeup(p, initproc, state)
  /\ UNCHANGED <<pid, chan, killed, plock, nextpid, ncpu, localVars>>

\* An exit() that has released wait_lock before it wakes its parent, and is a
\* zombie only after that.
exit_wakeup_unlocked(p) ==
  /\ pc[p] = "exit_wakeup" /\ goto(p, "exit_zombie")
  /\ wait_lock' = NoProc
  /\ state' = wakeup(p, parent[p], state)
  /\ UNCHANGED <<pid, parent, chan, killed, plock, nextpid, ncpu, localVars>>

\* An exit() that does not wake its parent.
exit_wakeup_skipped(p) ==
  /\ pc[p] = "exit_wakeup" /\ goto(p, "exit_zombie")
  /\ UNCHANGED <<procVars, plock, wait_lock, nextpid, ncpu, localVars>>

\* exit(): wakeup(p->parent).
exit_wakeup(p) ==
  /\ pc[p] = "exit_wakeup" /\ goto(p, "exit_zombie")
  /\ state' = wakeup(p, parent[p], state)
  /\ UNCHANGED <<pid, parent, chan, killed, plock, wait_lock, nextpid, ncpu, localVars>>

\* exit(): p->lock is taken, then wait_lock released; sched() never returns.
exit_zombie(p) ==
  /\ pc[p] = "exit_zombie" /\ goto(p, "user")
  /\ plock[p] = NoProc /\ plock' = [plock EXCEPT ![p] = p]
  /\ state' = [state EXCEPT ![p] = "ZOMBIE"]
  /\ wait_lock' = NoProc
  /\ UNCHANGED <<pid, parent, chan, killed, nextpid, ncpu, localVars>>

----------------------------------------------------------------------------
\* wait() is called.  init.c calls it only when it has a child.
wait_call(p) ==
  /\ syscall(p) /\ goto(p, "wait")
  /\ p = initproc => Children(p) # {}
  /\ counted(p)
  /\ UNCHANGED <<procVars, plock, wait_lock, nextpid, ncpu, np, pp, havekids>>

\* wait() takes wait_lock, first or after sleep(), and starts to scan.
wait_acquire(p) ==
  /\ Running(p) /\ pc[p] = "wait" /\ goto(p, "wait_scan")
  /\ wait_lock = NoProc /\ wait_lock' = p
  /\ pp' = [pp EXCEPT ![p] = 1]
  /\ havekids' = [havekids EXCEPT ![p] = FALSE]
  /\ UNCHANGED <<procVars, plock, nextpid, ncpu, np, calls>>

\* wait() that forgets to lock the child before it looks at it.
wait_scan_unlocked(p) ==
  LET q == pp[p] IN
  /\ pc[p] = "wait_scan" /\ q \in Procs
  /\ \/ /\ parent[q] # p \/ state[q] # "ZOMBIE"
        /\ pp' = [pp EXCEPT ![p] = @ + 1]
        /\ havekids' = [havekids EXCEPT ![p] = @ \/ parent[q] = p]
        /\ UNCHANGED <<procVars, wait_lock, pc>>
     \/ /\ parent[q] = p /\ state[q] = "ZOMBIE"
        /\ freeproc(q)
        /\ wait_lock' = NoProc /\ goto(p, "user")
        /\ pp' = [pp EXCEPT ![p] = 1]
        /\ havekids' = [havekids EXCEPT ![p] = FALSE]
  /\ UNCHANGED <<plock, nextpid, ncpu, np, calls>>

\* wait() looks at one slot: not a child, a living child, or a zombie, which
\* is freed unless the status cannot be copied out (never init, which passes 0).
wait_scan(p) ==
  LET q == pp[p] IN
  /\ pc[p] = "wait_scan" /\ q \in Procs
  /\ \/ /\ parent[q] # p
        /\ pp' = [pp EXCEPT ![p] = @ + 1]
        /\ UNCHANGED <<procVars, wait_lock, pc, havekids>>
     \/ /\ parent[q] = p /\ plock[q] = NoProc /\ state[q] # "ZOMBIE"
        /\ pp' = [pp EXCEPT ![p] = @ + 1]
        /\ havekids' = [havekids EXCEPT ![p] = TRUE]
        /\ UNCHANGED <<procVars, wait_lock, pc>>
     \/ /\ parent[q] = p /\ plock[q] = NoProc /\ state[q] = "ZOMBIE"
        /\ freeproc(q) \/ (p # initproc /\ UNCHANGED procVars)
        /\ wait_lock' = NoProc /\ goto(p, "user")
        /\ pp' = [pp EXCEPT ![p] = 1]
        /\ havekids' = [havekids EXCEPT ![p] = FALSE]
  /\ UNCHANGED <<plock, nextpid, ncpu, np, calls>>

\* wait() after the scan: no children, or killed, and it returns -1; otherwise
\* it goes on to sleep().
wait_check(p) ==
  /\ pc[p] = "wait_scan" /\ pp[p] = NPROC + 1
  /\ pp' = [pp EXCEPT ![p] = 1]
  /\ havekids' = [havekids EXCEPT ![p] = FALSE]
  /\ \/ (~havekids[p] \/ killed[p]) /\ wait_lock' = NoProc /\ goto(p, "user")
     \/ havekids[p] /\ ~killed[p] /\ UNCHANGED wait_lock /\ goto(p, "wait_sleep")
  /\ UNCHANGED <<procVars, plock, nextpid, ncpu, np, calls>>

\* sleep(p, &wait_lock) up to sched().
wait_sleep(p) ==
  /\ pc[p] = "wait_sleep" /\ goto(p, "wait")
  /\ plock[p] = NoProc /\ plock' = [plock EXCEPT ![p] = p]
  /\ wait_lock' = NoProc
  /\ chan' = [chan EXCEPT ![p] = p]
  /\ state' = [state EXCEPT ![p] = "SLEEPING"]
  /\ UNCHANGED <<pid, parent, killed, nextpid, ncpu, localVars>>

----------------------------------------------------------------------------
\* kill(x): the first slot with that pid, and it may be any slot if x is 0.
\* init.c makes no such call.
kill(p, x) ==
  /\ syscall(p) /\ p # initproc /\ counted(p)
  /\ \E q \in Procs :
       /\ pid[q] = x /\ plock[q] = NoProc
       /\ \A r \in 1..(q - 1) : pid[r] # x
       /\ killed' = [killed EXCEPT ![q] = TRUE]
       /\ state' = [state EXCEPT ![q] = IF @ = "SLEEPING" THEN "RUNNABLE" ELSE @]
  /\ UNCHANGED <<pid, parent, chan, plock, wait_lock, nextpid, ncpu, pc, np, pp, havekids>>

----------------------------------------------------------------------------
\* Steps a process takes by itself inside the kernel.
KernelStep(p) ==
  \/ fork_copy(p) \/ fork_parent(p) \/ fork_run(p)
  \/ exit_wakeup(p) \/ exit_zombie(p)
  \/ wait_acquire(p) \/ wait_scan(p) \/ wait_check(p) \/ wait_sleep(p)

Next ==
  \E p \in Procs :
    \/ KernelStep(p) \/ sched(p) \/ scheduler(p) \/ yield(p)
    \/ fork_alloc(p) \/ exit_reparent(p) \/ wait_call(p)
    \/ \E x \in KillPids : kill(p, x)

\* Every processor keeps going: a process in the kernel that is not preempted
\* gets on, timer interrupts never cease, and sched() ends in the scheduler.
\* What init needs beyond that: the scheduler loop resumes behind the slot it
\* ran last, so it gets to init again and again; in a time slice init gets on;
\* and init.c calls wait() in an endless loop.
Fairness ==
  /\ \A p \in Procs : WF_vars(KernelStep(p)) /\ WF_vars(yield(p)) /\ WF_vars(sched(p))
  /\ SF_vars(scheduler(initproc))
  /\ SF_vars(KernelStep(initproc))
  /\ SF_vars(wait_call(initproc))

Spec == Init /\ [][Next]_vars /\ Fairness

----------------------------------------------------------------------------
\* The types of the variables; no more processors run than there are.
TypeOK ==
  /\ state \in [Procs -> {"UNUSED", "USED", "SLEEPING", "RUNNABLE", "RUNNING", "ZOMBIE"}]
  /\ pid \in [Procs -> 0..MaxPid]
  /\ parent \in [Procs -> Procs \cup {NoProc}]
  /\ chan \in [Procs -> Procs \cup {NoProc}]
  /\ killed \in [Procs -> BOOLEAN]
  /\ plock \in [Procs -> Procs \cup {NoProc}]
  /\ wait_lock \in Procs \cup {NoProc}
  /\ nextpid \in 2..(MaxPid + 1)
  /\ ncpu \in [Procs -> 0..NCPU] /\ Cardinality(Busy) <= NCPU
  /\ pc \in [Procs -> {"user", "fork_copy", "fork_parent", "fork_run", "exit_wakeup",
                       "exit_zombie", "wait", "wait_scan", "wait_sleep"}]
  /\ np \in [Procs -> Procs \cup {NoProc}]
  /\ pp \in [Procs -> 1..(NPROC + 1)]
  /\ havekids \in [Procs -> BOOLEAN]
  /\ calls \in [Procs -> 0..MaxCalls]

\* A kernel stack belongs to one processor at a time, from scheduler() until
\* sched() has left it; in particular wait() never frees a process that is
\* still on its way out of exit() (proc.c: "make sure the child isn't still in
\* exit() or swtch()"), and nobody runs a process a second time.
StackSafe ==
  \A p \in Procs :
    /\ ncpu[p] <= 1
    /\ state[p] \in {"UNUSED", "USED"} => ncpu[p] = 0
    /\ state[p] = "RUNNING" => ncpu[p] = 1
    /\ ncpu[p] = 1 /\ state[p] # "RUNNING" => plock[p] = p

\* Every process but init has a parent that can still wait for it: exit() and
\* fork() never leave a child with a parent that is gone or is a zombie.
NoOrphan ==
  \A p \in Procs \ {initproc} :
    state[p] \in {"SLEEPING", "RUNNABLE", "RUNNING", "ZOMBIE"} =>
      /\ parent[p] \in Procs
      /\ state[parent[p]] \in {"SLEEPING", "RUNNABLE", "RUNNING"}

\* Between wait()'s scan and its sleep no exit is missed: a parent is not
\* asleep while it has a zombie to collect.
NoMissedExit ==
  \A p, q \in Procs :
    state[q] = "ZOMBIE" /\ parent[q] = p => ~(state[p] = "SLEEPING" /\ chan[p] = p)

\* Zombies that belong to init, orphans included, are collected.
ZombiesReaped ==
  \A p \in Procs \ {initproc} :
    (state[p] = "ZOMBIE" /\ parent[p] = initproc) ~> state[p] = "UNUSED"
=============================================================================
