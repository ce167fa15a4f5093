--------------------------- MODULE ProcTableProofs ---------------------------
(***************************************************************************)
(* Proofs about ProcTable for every size of the process table, every       *)
(* number of processors and every bound on the pids and on the calls.      *)
(***************************************************************************)
EXTENDS ProcTable, FiniteSetTheorems, TLAPS

USE ProcTableAssumption

----------------------------------------------------------------------------
Live == {"SLEEPING", "RUNNABLE", "RUNNING"}

\* Where wait_lock is held; where a lock keeps the timer interrupt out; where
\* fork() has a slot in np.
HoldsWaitLock == {"exit_wakeup", "exit_zombie", "wait_scan", "wait_sleep"}
Unpreempted == HoldsWaitLock \cup {"fork_copy"}
Forking == {"fork_copy", "fork_parent", "fork_run"}
Exiting == {"exit_wakeup", "exit_zombie"}

\* wait_lock is held from exit()'s reparent() to its sched(), and in wait()
\* except in sleep(); a process that holds a lock is on a processor.
Locks ==
  \A p \in Procs :
    /\ wait_lock = p <=> pc[p] \in HoldsWaitLock
    /\ pc[p] \in Unpreempted => state[p] = "RUNNING"

\* The slot that fork() is filling is USED, so no other fork() takes it, nobody
\* runs it or waits for it, and it has its parent before it can run.
Slots ==
  /\ \A p \in Procs : pc[p] \in Forking => np[p] \in Procs /\ state[np[p]] = "USED"
  /\ \A p, r \in Procs : pc[p] \in Forking /\ pc[r] \in Forking /\ np[p] = np[r] => p = r
  /\ \A p \in Procs : pc[p] = "fork_run" => parent[np[p]] = p

\* A parent is alive and has not begun to exit; every process but init has one;
\* init never exits.
Family ==
  /\ \A q \in Procs : parent[q] \in Procs =>
       state[parent[q]] \in Live /\ pc[parent[q]] \notin Exiting
  /\ \A q \in Procs \ {initproc} : state[q] \in Live \cup {"ZOMBIE"} => parent[q] \in Procs
  /\ state[initproc] \in Live /\ pc[initproc] \notin Exiting

\* p sleeps in wait().
Waits(p) == state[p] = "SLEEPING" /\ chan[p] = p

\* wait() has found no zombie among the children it has passed, and with
\* wait_lock held none can appear; exit() has woken its parent, and with
\* wait_lock held the parent cannot sleep again before the zombie is there.
Waiting ==
  /\ NoMissedExit
  /\ \A p, q \in Procs : parent[q] = p /\ state[q] = "ZOMBIE" =>
       /\ pc[p] = "wait_scan" => pp[p] <= q
       /\ pc[p] # "wait_sleep"
  /\ \A q \in Procs : pc[q] = "exit_zombie" /\ parent[q] \in Procs => ~Waits(parent[q])

IInv == TypeOK /\ StackSafe /\ Locks /\ Slots /\ Family /\ Waiting

----------------------------------------------------------------------------
\* Slots are numbers, 0 is none of them and 1 is init.
LEMMA ProcFacts ==
  /\ NoProc \notin Procs /\ initproc \in Procs
  /\ \A p \in Procs : p \in Int /\ 1 <= p /\ p <= NPROC
  /\ \A k \in 1..(NPROC + 1) : k \in Procs => k + 1 \in 1..(NPROC + 1)
  BY DEF NoProc, initproc, Procs

USE ProcFacts

\* The state userinit() leaves satisfies the inductive invariant.
LEMMA InitInv == Init => IInv
<1>1. ASSUME Init PROVE Cardinality(Busy) <= NCPU
  <2>1. Busy = {}
    BY <1>1 DEF Init, Busy
  <2> QED BY <2>1, FS_EmptySet
<1> QED
  BY <1>1
  DEF Init, IInv, TypeOK, StackSafe, Locks, Slots, Family, Waiting, NoMissedExit, Waits,
         Live, HoldsWaitLock, Unpreempted, Forking, Exiting

\* No step puts more processors on kernel stacks than there are.
LEMMA BusyStep == TypeOK /\ [Next]_vars => Cardinality(Busy') <= NCPU
<1> SUFFICES ASSUME TypeOK, [Next]_vars PROVE Cardinality(Busy') <= NCPU
  OBVIOUS
<1>0. IsFiniteSet(Busy) /\ Cardinality(Busy) \in Nat /\ Cardinality(Busy) <= NCPU
  <2>1. IsFiniteSet(Procs)
    BY FS_Interval DEF Procs
  <2>2. Busy \in SUBSET Procs
    BY DEF Busy
  <2>3. IsFiniteSet(Busy)
    BY <2>1, <2>2, FS_Subset
  <2> QED BY <2>3, FS_CardinalityType DEF TypeOK
<1>1. ASSUME NEW p \in Procs, scheduler(p) PROVE Cardinality(Busy') <= NCPU
  <2>1. Busy' = Busy \cup {p} /\ Cardinality(Busy) < NCPU
    BY <1>1 DEF scheduler, Busy, TypeOK
  <2>2. Cardinality(Busy \cup {p}) = Cardinality(Busy)
        \/ Cardinality(Busy \cup {p}) = Cardinality(Busy) + 1
    BY <1>0, FS_AddElement
  <2> QED BY <1>0, <2>1, <2>2
<1>2. ASSUME NEW p \in Procs, sched(p) PROVE Cardinality(Busy') <= NCPU
  <2>1. Busy' \in SUBSET Busy
    BY <1>2 DEF sched, Busy, TypeOK
  <2>2. Cardinality(Busy') <= Cardinality(Busy) /\ Cardinality(Busy') \in Nat
    BY <1>0, <2>1, FS_Subset, FS_CardinalityType
  <2> QED BY <1>0, <2>2
<1>3. ASSUME UNCHANGED ncpu PROVE Cardinality(Busy') <= NCPU
  <2>1. Busy' = Busy
    BY <1>3 DEF Busy
  <2> QED BY <1>0, <2>1
<1>4. ASSUME NEW p \in Procs,
             \/ KernelStep(p) \/ yield(p) \/ fork_alloc(p) \/ exit_reparent(p) \/ wait_call(p)
             \/ \E x \in KillPids : kill(p, x)
      PROVE  UNCHANGED ncpu
  BY <1>4 DEF KernelStep, fork_copy, fork_parent, fork_run, exit_wakeup, exit_zombie,
              wait_acquire, wait_scan, wait_check, wait_sleep, yield, fork_alloc,
              exit_reparent, wait_call, kill
<1>5. CASE UNCHANGED vars
  BY <1>3, <1>5 DEF vars
<1> QED BY <1>1, <1>2, <1>3, <1>4, <1>5 DEF Next

\* Every step keeps the types.
LEMMA TypeStep == TypeOK /\ StackSafe /\ Locks /\ Slots /\ [Next]_vars => TypeOK'
<1> SUFFICES ASSUME TypeOK, StackSafe, Locks, Slots, [Next]_vars PROVE TypeOK'
  OBVIOUS
<1>0. Cardinality(Busy') <= NCPU
  BY BusyStep
<1> USE <1>0
<1> USE DEF TypeOK, StackSafe, Slots, Forking
<1>1. ASSUME NEW p \in Procs, fork_copy(p) PROVE TypeOK'
  <2>1. CASE goto(p, "fork_parent") /\ UNCHANGED <<procVars, np>>
    BY <1>1, <2>1 DEF fork_copy, goto, procVars
  <2>2. CASE freeproc(np[p]) /\ goto(p, "user") /\ np' = [np EXCEPT ![p] = NoProc]
    BY <1>1, <2>2 DEF fork_copy, freeproc, goto
  <2> QED BY <1>1, <2>1, <2>2 DEF fork_copy
<1>2. ASSUME NEW p \in Procs, fork_parent(p) PROVE TypeOK'
  BY <1>2 DEF fork_parent, Running, goto, localVars
<1>3. ASSUME NEW p \in Procs, fork_run(p) PROVE TypeOK'
  BY <1>3 DEF fork_run, Running, goto
<1>4. ASSUME NEW p \in Procs, exit_wakeup(p) PROVE TypeOK'
  BY <1>4 DEF exit_wakeup, goto, wakeup, localVars
<1>5. ASSUME NEW p \in Procs, exit_zombie(p) PROVE TypeOK'
  BY <1>5 DEF exit_zombie, goto, localVars
<1>6. ASSUME NEW p \in Procs, wait_acquire(p) PROVE TypeOK'
  BY <1>6 DEF wait_acquire, Running, goto, procVars
<1>7. ASSUME NEW p \in Procs, wait_scan(p) PROVE TypeOK'
  <2>1. CASE UNCHANGED <<procVars, wait_lock, pc>>
    <3>1. pp' = [pp EXCEPT ![p] = pp[p] + 1] /\ pp[p] \in Procs
      BY <1>7, <2>1 DEF wait_scan, goto
    <3>2. havekids' = havekids \/ havekids' = [havekids EXCEPT ![p] = TRUE]
      BY <1>7, <2>1 DEF wait_scan, goto
    <3>3. pp' \in [Procs -> 1..(NPROC + 1)]
      BY <3>1
    <3>4. havekids' \in [Procs -> BOOLEAN]
      <4>1. CASE havekids' = havekids
        BY <4>1
      <4>2. CASE havekids' = [havekids EXCEPT ![p] = TRUE]
        BY <4>2
      <4> QED BY <3>2, <4>1, <4>2
    <3>5. UNCHANGED <<procVars, wait_lock, pc, plock, nextpid, ncpu, np, calls>>
      BY <1>7, <2>1 DEF wait_scan
    <3> QED BY <3>3, <3>4, <3>5 DEF procVars
  <2>2. ASSUME parent[pp[p]] = p, plock[pp[p]] = NoProc, state[pp[p]] = "ZOMBIE",
               freeproc(pp[p]) \/ UNCHANGED procVars, pp[p] \in Procs, pc[p] = "wait_scan",
               wait_lock' = NoProc, goto(p, "user"),
               pp' = [pp EXCEPT ![p] = 1], havekids' = [havekids EXCEPT ![p] = FALSE],
               UNCHANGED <<plock, nextpid, ncpu, np, calls>>
        PROVE  TypeOK'
    <3>1. CASE freeproc(pp[p])
      BY <2>2, <3>1 DEF freeproc, goto
    <3>2. CASE UNCHANGED procVars
      BY <2>2, <3>2 DEF procVars, goto
    <3> QED BY <2>2, <3>1, <3>2
  <2> QED BY <1>7, <2>1, <2>2 DEF wait_scan
<1>8. ASSUME NEW p \in Procs, wait_check(p) PROVE TypeOK'
  <2>1. CASE wait_lock' = NoProc /\ goto(p, "user")
    BY <1>8, <2>1 DEF wait_check, goto, procVars
  <2>2. CASE UNCHANGED wait_lock /\ goto(p, "wait_sleep")
    BY <1>8, <2>2 DEF wait_check, goto, procVars
  <2> QED BY <1>8, <2>1, <2>2 DEF wait_check
<1>9. ASSUME NEW p \in Procs, wait_sleep(p) PROVE TypeOK'
  BY <1>9 DEF wait_sleep, goto, localVars
<1>10. ASSUME NEW p \in Procs, sched(p) PROVE TypeOK'
  BY <1>10 DEF sched, procVars, localVars
<1>11. ASSUME NEW p \in Procs, scheduler(p) PROVE TypeOK'
  BY <1>11 DEF scheduler, localVars
<1>12. ASSUME NEW p \in Procs, yield(p) PROVE TypeOK'
  BY <1>12 DEF yield, Running, localVars
<1>13. ASSUME NEW p \in Procs, fork_alloc(p) PROVE TypeOK'
  <2> PICK r \in Procs : /\ state[r] = "UNUSED" /\ plock[r] = NoProc
                        /\ plock' = [plock EXCEPT ![r] = p]
                        /\ pid' = [pid EXCEPT ![r] = nextpid]
                        /\ state' = [state EXCEPT ![r] = "USED"]
                        /\ np' = [np EXCEPT ![p] = r]
                        /\ calls' = [calls EXCEPT ![r] = 0]
    BY <1>13 DEF fork_alloc
  <2> QED BY <1>13 DEF fork_alloc, allocpid, syscall, Running, goto
<1>14. ASSUME NEW p \in Procs, exit_reparent(p) PROVE TypeOK'
  BY <1>14 DEF exit_reparent, Running, goto, wakeup, Children, localVars
<1>15. ASSUME NEW p \in Procs, wait_call(p) PROVE TypeOK'
  BY <1>15 DEF wait_call, syscall, Running, counted, goto, procVars
<1>16. ASSUME NEW p \in Procs, NEW x \in KillPids, kill(p, x) PROVE TypeOK'
  <2> PICK r \in Procs :
           /\ killed' = [killed EXCEPT ![r] = TRUE]
           /\ state' = [state EXCEPT ![r] = IF state[r] = "SLEEPING" THEN "RUNNABLE" ELSE state[r]]
    BY <1>16 DEF kill
  <2> QED BY <1>16 DEF kill, syscall, Running, counted
<1>17. CASE UNCHANGED vars
  BY <1>17 DEF vars, procVars, localVars
<1> QED
  BY <1>1, <1>2, <1>3, <1>4, <1>5, <1>6, <1>7, <1>8, <1>9, <1>10, <1>11, <1>12, <1>13,
     <1>14, <1>15, <1>16, <1>17
  DEF Next, KernelStep

\* Every step keeps a kernel stack to one processor.
LEMMA StackStep == TypeOK /\ StackSafe /\ Locks /\ Slots /\ [Next]_vars => StackSafe'
<1> SUFFICES ASSUME TypeOK, StackSafe, Locks, Slots, [Next]_vars PROVE StackSafe'
  OBVIOUS
<1> USE DEF TypeOK, StackSafe, Locks, Slots, HoldsWaitLock, Unpreempted, Forking
<1>1. ASSUME NEW p \in Procs, fork_copy(p) PROVE StackSafe'
  <2>1. CASE goto(p, "fork_parent") /\ UNCHANGED <<procVars, np>>
    BY <1>1, <2>1 DEF fork_copy, goto, procVars
  <2>2. CASE freeproc(np[p]) /\ goto(p, "user") /\ np' = [np EXCEPT ![p] = NoProc]
    BY <1>1, <2>2 DEF fork_copy, freeproc, goto
  <2> QED BY <1>1, <2>1, <2>2 DEF fork_copy
<1>2. ASSUME NEW p \in Procs, fork_parent(p) PROVE StackSafe'
  BY <1>2 DEF fork_parent, Running, goto, localVars
<1>3. ASSUME NEW p \in Procs, fork_run(p) PROVE StackSafe'
  BY <1>3 DEF fork_run, Running, goto
<1>4. ASSUME NEW p \in Procs, exit_wakeup(p) PROVE StackSafe'
  BY <1>4 DEF exit_wakeup, goto, wakeup, localVars
<1>5. ASSUME NEW p \in Procs, exit_zombie(p) PROVE StackSafe'
  BY <1>5 DEF exit_zombie, goto, localVars
<1>6. ASSUME NEW p \in Procs, wait_acquire(p) PROVE StackSafe'
  BY <1>6 DEF wait_acquire, Running, goto, procVars
<1>7. ASSUME NEW p \in Procs, wait_scan(p) PROVE StackSafe'
  <2>1. CASE UNCHANGED <<procVars, wait_lock, pc>>
    BY <1>7, <2>1 DEF wait_scan, procVars
  <2>2. ASSUME parent[pp[p]] = p, plock[pp[p]] = NoProc, state[pp[p]] = "ZOMBIE",
               freeproc(pp[p]) \/ UNCHANGED procVars, pp[p] \in Procs, pc[p] = "wait_scan",
               wait_lock' = NoProc, goto(p, "user"),
               pp' = [pp EXCEPT ![p] = 1], havekids' = [havekids EXCEPT ![p] = FALSE],
               UNCHANGED <<plock, nextpid, ncpu, np, calls>>
        PROVE  StackSafe'
    <3>1. CASE freeproc(pp[p])
      BY <2>2, <3>1 DEF freeproc, goto
    <3>2. CASE UNCHANGED procVars
      BY <2>2, <3>2 DEF procVars, goto
    <3> QED BY <2>2, <3>1, <3>2
  <2> QED BY <1>7, <2>1, <2>2 DEF wait_scan
<1>8. ASSUME NEW p \in Procs, wait_check(p) PROVE StackSafe'
  <2>1. CASE wait_lock' = NoProc /\ goto(p, "user")
    BY <1>8, <2>1 DEF wait_check, goto, procVars
  <2>2. CASE UNCHANGED wait_lock /\ goto(p, "wait_sleep")
    BY <1>8, <2>2 DEF wait_check, goto, procVars
  <2> QED BY <1>8, <2>1, <2>2 DEF wait_check
<1>9. ASSUME NEW p \in Procs, wait_sleep(p) PROVE StackSafe'
  BY <1>9 DEF wait_sleep, goto, localVars
<1>10. ASSUME NEW p \in Procs, sched(p) PROVE StackSafe'
  BY <1>10 DEF sched, procVars, localVars
<1>11. ASSUME NEW p \in Procs, scheduler(p) PROVE StackSafe'
  BY <1>11 DEF scheduler, localVars
<1>12. ASSUME NEW p \in Procs, yield(p) PROVE StackSafe'
  BY <1>12 DEF yield, Running, localVars
<1>13. ASSUME NEW p \in Procs, fork_alloc(p) PROVE StackSafe'
  <2> PICK r \in Procs : /\ state[r] = "UNUSED" /\ plock[r] = NoProc
                        /\ plock' = [plock EXCEPT ![r] = p]
                        /\ pid' = [pid EXCEPT ![r] = nextpid]
                        /\ state' = [state EXCEPT ![r] = "USED"]
                        /\ np' = [np EXCEPT ![p] = r]
                        /\ calls' = [calls EXCEPT ![r] = 0]
    BY <1>13 DEF fork_alloc
  <2> QED BY <1>13 DEF fork_alloc, allocpid, syscall, Running, goto
<1>14. ASSUME NEW p \in Procs, exit_reparent(p) PROVE StackSafe'
  BY <1>14 DEF exit_reparent, Running, goto, wakeup, Children, localVars
<1>15. ASSUME NEW p \in Procs, wait_call(p) PROVE StackSafe'
  BY <1>15 DEF wait_call, syscall, Running, counted, goto, procVars
<1>16. ASSUME NEW p \in Procs, NEW x \in KillPids, kill(p, x) PROVE StackSafe'
  <2> PICK r \in Procs :
           /\ killed' = [killed EXCEPT ![r] = TRUE]
           /\ state' = [state EXCEPT ![r] = IF state[r] = "SLEEPING" THEN "RUNNABLE" ELSE state[r]]
    BY <1>16 DEF kill
  <2> QED BY <1>16 DEF kill, syscall, Running, counted
<1>17. CASE UNCHANGED vars
  BY <1>17 DEF vars, procVars, localVars
<1> QED
  BY <1>1, <1>2, <1>3, <1>4, <1>5, <1>6, <1>7, <1>8, <1>9, <1>10, <1>11, <1>12, <1>13,
     <1>14, <1>15, <1>16, <1>17
  DEF Next, KernelStep

\* Every step keeps the lock discipline.
LEMMA LocksStep == TypeOK /\ StackSafe /\ Locks /\ Slots /\ [Next]_vars => Locks'
<1> SUFFICES ASSUME TypeOK, StackSafe, Locks, Slots, [Next]_vars PROVE Locks'
  OBVIOUS
<1> USE DEF TypeOK, Locks, Slots, HoldsWaitLock, Unpreempted, Forking
<1>1. ASSUME NEW p \in Procs, fork_copy(p) PROVE Locks'
  <2>1. CASE goto(p, "fork_parent") /\ UNCHANGED <<procVars, np>>
    BY <1>1, <2>1 DEF fork_copy, goto, procVars
  <2>2. CASE freeproc(np[p]) /\ goto(p, "user") /\ np' = [np EXCEPT ![p] = NoProc]
    BY <1>1, <2>2 DEF fork_copy, freeproc, goto
  <2> QED BY <1>1, <2>1, <2>2 DEF fork_copy
<1>2. ASSUME NEW p \in Procs, fork_parent(p) PROVE Locks'
  BY <1>2 DEF fork_parent, Running, goto, localVars
<1>3. ASSUME NEW p \in Procs, fork_run(p) PROVE Locks'
  BY <1>3 DEF fork_run, Running, goto
<1>4. ASSUME NEW p \in Procs, exit_wakeup(p) PROVE Locks'
  BY <1>4 DEF exit_wakeup, goto, wakeup, localVars
<1>5. ASSUME NEW p \in Procs, exit_zombie(p) PROVE Locks'
  BY <1>5 DEF exit_zombie, goto, localVars
<1>6. ASSUME NEW p \in Procs, wait_acquire(p) PROVE Locks'
  BY <1>6 DEF wait_acquire, Running, goto, procVars
<1>7. ASSUME NEW p \in Procs, wait_scan(p) PROVE Locks'
  <2>1. CASE UNCHANGED <<procVars, wait_lock, pc>>
    BY <1>7, <2>1 DEF wait_scan, procVars
  <2>2. ASSUME parent[pp[p]] = p, plock[pp[p]] = NoProc, state[pp[p]] = "ZOMBIE",
               freeproc(pp[p]) \/ UNCHANGED procVars, pp[p] \in Procs, pc[p] = "wait_scan",
               wait_lock' = NoProc, goto(p, "user"),
               pp' = [pp EXCEPT ![p] = 1], havekids' = [havekids EXCEPT ![p] = FALSE],
               UNCHANGED <<plock, nextpid, ncpu, np, calls>>
        PROVE  Locks'
    <3>1. CASE freeproc(pp[p])
      BY <2>2, <3>1 DEF freeproc, goto
    <3>2. CASE UNCHANGED procVars
      BY <2>2, <3>2 DEF procVars, goto
    <3> QED BY <2>2, <3>1, <3>2
  <2> QED BY <1>7, <2>1, <2>2 DEF wait_scan
<1>8. ASSUME NEW p \in Procs, wait_check(p) PROVE Locks'
  <2>1. CASE wait_lock' = NoProc /\ goto(p, "user")
    BY <1>8, <2>1 DEF wait_check, goto, procVars
  <2>2. CASE UNCHANGED wait_lock /\ goto(p, "wait_sleep")
    BY <1>8, <2>2 DEF wait_check, goto, procVars
  <2> QED BY <1>8, <2>1, <2>2 DEF wait_check
<1>9. ASSUME NEW p \in Procs, wait_sleep(p) PROVE Locks'
  BY <1>9 DEF wait_sleep, goto, localVars
<1>10. ASSUME NEW p \in Procs, sched(p) PROVE Locks'
  BY <1>10 DEF sched, procVars, localVars
<1>11. ASSUME NEW p \in Procs, scheduler(p) PROVE Locks'
  BY <1>11 DEF scheduler, localVars
<1>12. ASSUME NEW p \in Procs, yield(p) PROVE Locks'
  BY <1>12 DEF yield, Running, localVars
<1>13. ASSUME NEW p \in Procs, fork_alloc(p) PROVE Locks'
  <2> PICK r \in Procs : /\ state[r] = "UNUSED" /\ plock[r] = NoProc
                        /\ plock' = [plock EXCEPT ![r] = p]
                        /\ pid' = [pid EXCEPT ![r] = nextpid]
                        /\ state' = [state EXCEPT ![r] = "USED"]
                        /\ np' = [np EXCEPT ![p] = r]
                        /\ calls' = [calls EXCEPT ![r] = 0]
    BY <1>13 DEF fork_alloc
  <2> QED BY <1>13 DEF fork_alloc, allocpid, syscall, Running, goto
<1>14. ASSUME NEW p \in Procs, exit_reparent(p) PROVE Locks'
  BY <1>14 DEF exit_reparent, Running, goto, wakeup, Children, localVars
<1>15. ASSUME NEW p \in Procs, wait_call(p) PROVE Locks'
  BY <1>15 DEF wait_call, syscall, Running, counted, goto, procVars
<1>16. ASSUME NEW p \in Procs, NEW x \in KillPids, kill(p, x) PROVE Locks'
  <2> PICK r \in Procs :
           /\ killed' = [killed EXCEPT ![r] = TRUE]
           /\ state' = [state EXCEPT ![r] = IF state[r] = "SLEEPING" THEN "RUNNABLE" ELSE state[r]]
    BY <1>16 DEF kill
  <2> QED BY <1>16 DEF kill, syscall, Running, counted
<1>17. CASE UNCHANGED vars
  BY <1>17 DEF vars, procVars, localVars
<1> QED
  BY <1>1, <1>2, <1>3, <1>4, <1>5, <1>6, <1>7, <1>8, <1>9, <1>10, <1>11, <1>12, <1>13,
     <1>14, <1>15, <1>16, <1>17
  DEF Next, KernelStep

\* Every step keeps fork()'s hold on its slot.
LEMMA SlotsStep == TypeOK /\ StackSafe /\ Locks /\ Slots /\ [Next]_vars => Slots'
<1> SUFFICES ASSUME TypeOK, StackSafe, Locks, Slots, [Next]_vars PROVE Slots'
  OBVIOUS
<1> USE DEF TypeOK, Locks, Slots, HoldsWaitLock, Unpreempted, Forking
<1>1. ASSUME NEW p \in Procs, fork_copy(p) PROVE Slots'
  <2>1. CASE goto(p, "fork_parent") /\ UNCHANGED <<procVars, np>>
    BY <1>1, <2>1 DEF fork_copy, goto, procVars
  <2>2. CASE freeproc(np[p]) /\ goto(p, "user") /\ np' = [np EXCEPT ![p] = NoProc]
    BY <1>1, <2>2 DEF fork_copy, freeproc, goto
  <2> QED BY <1>1, <2>1, <2>2 DEF fork_copy
<1>2. ASSUME NEW p \in Procs, fork_parent(p) PROVE Slots'
  BY <1>2 DEF fork_parent, Running, goto, localVars
<1>3. ASSUME NEW p \in Procs, fork_run(p) PROVE Slots'
  BY <1>3 DEF fork_run, Running, goto
<1>4. ASSUME NEW p \in Procs, exit_wakeup(p) PROVE Slots'
  BY <1>4 DEF exit_wakeup, goto, wakeup, localVars
<1>5. ASSUME NEW p \in Procs, exit_zombie(p) PROVE Slots'
  BY <1>5 DEF exit_zombie, goto, localVars
<1>6. ASSUME NEW p \in Procs, wait_acquire(p) PROVE Slots'
  BY <1>6 DEF wait_acquire, Running, goto, procVars
<1>7. ASSUME NEW p \in Procs, wait_scan(p) PROVE Slots'
  <2>1. CASE UNCHANGED <<procVars, wait_lock, pc>>
    BY <1>7, <2>1 DEF wait_scan, procVars
  <2>2. ASSUME parent[pp[p]] = p, plock[pp[p]] = NoProc, state[pp[p]] = "ZOMBIE",
               freeproc(pp[p]) \/ UNCHANGED procVars, pp[p] \in Procs, pc[p] = "wait_scan",
               wait_lock' = NoProc, goto(p, "user"),
               pp' = [pp EXCEPT ![p] = 1], havekids' = [havekids EXCEPT ![p] = FALSE],
               UNCHANGED <<plock, nextpid, ncpu, np, calls>>
        PROVE  Slots'
    <3>1. CASE freeproc(pp[p])
      BY <2>2, <3>1 DEF freeproc, goto
    <3>2. CASE UNCHANGED procVars
      BY <2>2, <3>2 DEF procVars, goto
    <3> QED BY <2>2, <3>1, <3>2
  <2> QED BY <1>7, <2>1, <2>2 DEF wait_scan
<1>8. ASSUME NEW p \in Procs, wait_check(p) PROVE Slots'
  <2>1. CASE wait_lock' = NoProc /\ goto(p, "user")
    BY <1>8, <2>1 DEF wait_check, goto, procVars
  <2>2. CASE UNCHANGED wait_lock /\ goto(p, "wait_sleep")
    BY <1>8, <2>2 DEF wait_check, goto, procVars
  <2> QED BY <1>8, <2>1, <2>2 DEF wait_check
<1>9. ASSUME NEW p \in Procs, wait_sleep(p) PROVE Slots'
  BY <1>9 DEF wait_sleep, goto, localVars
<1>10. ASSUME NEW p \in Procs, sched(p) PROVE Slots'
  BY <1>10 DEF sched, procVars, localVars
<1>11. ASSUME NEW p \in Procs, scheduler(p) PROVE Slots'
  BY <1>11 DEF scheduler, localVars
<1>12. ASSUME NEW p \in Procs, yield(p) PROVE Slots'
  BY <1>12 DEF yield, Running, localVars
<1>13. ASSUME NEW p \in Procs, fork_alloc(p) PROVE Slots'
  <2> PICK r \in Procs : /\ state[r] = "UNUSED" /\ plock[r] = NoProc
                        /\ plock' = [plock EXCEPT ![r] = p]
                        /\ pid' = [pid EXCEPT ![r] = nextpid]
                        /\ state' = [state EXCEPT ![r] = "USED"]
                        /\ np' = [np EXCEPT ![p] = r]
                        /\ calls' = [calls EXCEPT ![r] = 0]
    BY <1>13 DEF fork_alloc
  <2> QED BY <1>13 DEF fork_alloc, allocpid, syscall, Running, goto
<1>14. ASSUME NEW p \in Procs, exit_reparent(p) PROVE Slots'
  BY <1>14 DEF exit_reparent, Running, goto, wakeup, Children, localVars
<1>15. ASSUME NEW p \in Procs, wait_call(p) PROVE Slots'
  BY <1>15 DEF wait_call, syscall, Running, counted, goto, procVars
<1>16. ASSUME NEW p \in Procs, NEW x \in KillPids, kill(p, x) PROVE Slots'
  <2> PICK r \in Procs :
           /\ killed' = [killed EXCEPT ![r] = TRUE]
           /\ state' = [state EXCEPT ![r] = IF state[r] = "SLEEPING" THEN "RUNNABLE" ELSE state[r]]
    BY <1>16 DEF kill
  <2> QED BY <1>16 DEF kill, syscall, Running, counted
<1>17. CASE UNCHANGED vars
  BY <1>17 DEF vars, procVars, localVars
<1> QED
  BY <1>1, <1>2, <1>3, <1>4, <1>5, <1>6, <1>7, <1>8, <1>9, <1>10, <1>11, <1>12, <1>13,
     <1>14, <1>15, <1>16, <1>17
  DEF Next, KernelStep

\* Every step keeps living parents.
LEMMA FamilyStep == TypeOK /\ Locks /\ Slots /\ Family /\ [Next]_vars => Family'
<1> SUFFICES ASSUME TypeOK, Locks, Slots, Family, [Next]_vars PROVE Family'
  OBVIOUS
<1> USE DEF TypeOK, Locks, Slots, Family, Live, Exiting, HoldsWaitLock, Unpreempted, Forking
<1>1. ASSUME NEW p \in Procs, fork_copy(p) PROVE Family'
  <2>1. CASE goto(p, "fork_parent") /\ UNCHANGED <<procVars, np>>
    BY <1>1, <2>1 DEF fork_copy, goto, procVars
  <2>2. CASE freeproc(np[p]) /\ goto(p, "user") /\ np' = [np EXCEPT ![p] = NoProc]
    BY <1>1, <2>2 DEF fork_copy, freeproc, goto
  <2> QED BY <1>1, <2>1, <2>2 DEF fork_copy
<1>2. ASSUME NEW p \in Procs, fork_parent(p) PROVE Family'
  BY <1>2 DEF fork_parent, Running, goto, localVars
<1>3. ASSUME NEW p \in Procs, fork_run(p) PROVE Family'
  BY <1>3 DEF fork_run, Running, goto
<1>4. ASSUME NEW p \in Procs, exit_wakeup(p) PROVE Family'
  BY <1>4 DEF exit_wakeup, goto, wakeup, localVars
<1>5. ASSUME NEW p \in Procs, exit_zombie(p) PROVE Family'
  BY <1>5 DEF exit_zombie, goto, localVars
<1>6. ASSUME NEW p \in Procs, wait_acquire(p) PROVE Family'
  BY <1>6 DEF wait_acquire, Running, goto, procVars
<1>7. ASSUME NEW p \in Procs, wait_scan(p) PROVE Family'
  <2>1. CASE UNCHANGED <<procVars, wait_lock, pc>>
    BY <1>7, <2>1 DEF wait_scan, procVars
  <2>2. ASSUME parent[pp[p]] = p, plock[pp[p]] = NoProc, state[pp[p]] = "ZOMBIE",
               freeproc(pp[p]) \/ UNCHANGED procVars, pp[p] \in Procs, pc[p] = "wait_scan",
               wait_lock' = NoProc, goto(p, "user"),
               pp' = [pp EXCEPT ![p] = 1], havekids' = [havekids EXCEPT ![p] = FALSE],
               UNCHANGED <<plock, nextpid, ncpu, np, calls>>
        PROVE  Family'
    <3>1. CASE freeproc(pp[p])
      BY <2>2, <3>1 DEF freeproc, goto
    <3>2. CASE UNCHANGED procVars
      BY <2>2, <3>2 DEF procVars, goto
    <3> QED BY <2>2, <3>1, <3>2
  <2> QED BY <1>7, <2>1, <2>2 DEF wait_scan
<1>8. ASSUME NEW p \in Procs, wait_check(p) PROVE Family'
  <2>1. CASE wait_lock' = NoProc /\ goto(p, "user")
    BY <1>8, <2>1 DEF wait_check, goto, procVars
  <2>2. CASE UNCHANGED wait_lock /\ goto(p, "wait_sleep")
    BY <1>8, <2>2 DEF wait_check, goto, procVars
  <2> QED BY <1>8, <2>1, <2>2 DEF wait_check
<1>9. ASSUME NEW p \in Procs, wait_sleep(p) PROVE Family'
  BY <1>9 DEF wait_sleep, goto, localVars
<1>10. ASSUME NEW p \in Procs, sched(p) PROVE Family'
  BY <1>10 DEF sched, procVars, localVars
<1>11. ASSUME NEW p \in Procs, scheduler(p) PROVE Family'
  BY <1>11 DEF scheduler, localVars
<1>12. ASSUME NEW p \in Procs, yield(p) PROVE Family'
  BY <1>12 DEF yield, Running, localVars
<1>13. ASSUME NEW p \in Procs, fork_alloc(p) PROVE Family'
  <2> PICK r \in Procs : /\ state[r] = "UNUSED" /\ plock[r] = NoProc
                        /\ plock' = [plock EXCEPT ![r] = p]
                        /\ pid' = [pid EXCEPT ![r] = nextpid]
                        /\ state' = [state EXCEPT ![r] = "USED"]
                        /\ np' = [np EXCEPT ![p] = r]
                        /\ calls' = [calls EXCEPT ![r] = 0]
    BY <1>13 DEF fork_alloc
  <2> QED BY <1>13 DEF fork_alloc, allocpid, syscall, Running, goto
<1>14. ASSUME NEW p \in Procs, exit_reparent(p) PROVE Family'
  BY <1>14 DEF exit_reparent, Running, goto, wakeup, Children, localVars
<1>15. ASSUME NEW p \in Procs, wait_call(p) PROVE Family'
  BY <1>15 DEF wait_call, syscall, Running, counted, goto, procVars
<1>16. ASSUME NEW p \in Procs, NEW x \in KillPids, kill(p, x) PROVE Family'
  <2> PICK r \in Procs :
           /\ killed' = [killed EXCEPT ![r] = TRUE]
           /\ state' = [state EXCEPT ![r] = IF state[r] = "SLEEPING" THEN "RUNNABLE" ELSE state[r]]
    BY <1>16 DEF kill
  <2> QED BY <1>16 DEF kill, syscall, Running, counted
<1>17. CASE UNCHANGED vars
  BY <1>17 DEF vars, procVars, localVars
<1> QED
  BY <1>1, <1>2, <1>3, <1>4, <1>5, <1>6, <1>7, <1>8, <1>9, <1>10, <1>11, <1>12, <1>13,
     <1>14, <1>15, <1>16, <1>17
  DEF Next, KernelStep

\* Every step keeps exits from being missed.
LEMMA WaitingStep == IInv /\ [Next]_vars => Waiting'
<1> SUFFICES ASSUME IInv, [Next]_vars PROVE Waiting'
  OBVIOUS
<1> USE DEF IInv, TypeOK, Locks, Slots, Family, Waiting, NoMissedExit, Waits, Live, Exiting, HoldsWaitLock, Unpreempted, Forking
<1>1. ASSUME NEW p \in Procs, fork_copy(p) PROVE Waiting'
  <2>1. CASE goto(p, "fork_parent") /\ UNCHANGED <<procVars, np>>
    BY <1>1, <2>1 DEF fork_copy, goto, procVars
  <2>2. CASE freeproc(np[p]) /\ goto(p, "user") /\ np' = [np EXCEPT ![p] = NoProc]
    BY <1>1, <2>2 DEF fork_copy, freeproc, goto
  <2> QED BY <1>1, <2>1, <2>2 DEF fork_copy
<1>2. ASSUME NEW p \in Procs, fork_parent(p) PROVE Waiting'
  BY <1>2 DEF fork_parent, Running, goto, localVars
<1>3. ASSUME NEW p \in Procs, fork_run(p) PROVE Waiting'
  BY <1>3 DEF fork_run, Running, goto
<1>4. ASSUME NEW p \in Procs, exit_wakeup(p) PROVE Waiting'
  BY <1>4 DEF exit_wakeup, goto, wakeup, localVars
<1>5. ASSUME NEW p \in Procs, exit_zombie(p) PROVE Waiting'
  BY <1>5 DEF exit_zombie, goto, localVars
<1>6. ASSUME NEW p \in Procs, wait_acquire(p) PROVE Waiting'
  BY <1>6 DEF wait_acquire, Running, goto, procVars
<1>7. ASSUME NEW p \in Procs, wait_scan(p) PROVE Waiting'
  <2>1. CASE UNCHANGED <<procVars, wait_lock, pc>>
    BY <1>7, <2>1 DEF wait_scan, procVars
  <2>2. ASSUME parent[pp[p]] = p, plock[pp[p]] = NoProc, state[pp[p]] = "ZOMBIE",
               freeproc(pp[p]) \/ UNCHANGED procVars, pp[p] \in Procs, pc[p] = "wait_scan",
               wait_lock' = NoProc, goto(p, "user"),
               pp' = [pp EXCEPT ![p] = 1], havekids' = [havekids EXCEPT ![p] = FALSE],
               UNCHANGED <<plock, nextpid, ncpu, np, calls>>
        PROVE  Waiting'
    <3>1. CASE freeproc(pp[p])
      BY <2>2, <3>1 DEF freeproc, goto
    <3>2. CASE UNCHANGED procVars
      BY <2>2, <3>2 DEF procVars, goto
    <3> QED BY <2>2, <3>1, <3>2
  <2> QED BY <1>7, <2>1, <2>2 DEF wait_scan
<1>8. ASSUME NEW p \in Procs, wait_check(p) PROVE Waiting'
  <2>1. CASE wait_lock' = NoProc /\ goto(p, "user")
    BY <1>8, <2>1 DEF wait_check, goto, procVars
  <2>2. CASE UNCHANGED wait_lock /\ goto(p, "wait_sleep")
    BY <1>8, <2>2 DEF wait_check, goto, procVars
  <2> QED BY <1>8, <2>1, <2>2 DEF wait_check
<1>9. ASSUME NEW p \in Procs, wait_sleep(p) PROVE Waiting'
  BY <1>9 DEF wait_sleep, goto, localVars
<1>10. ASSUME NEW p \in Procs, sched(p) PROVE Waiting'
  BY <1>10 DEF sched, procVars, localVars
<1>11. ASSUME NEW p \in Procs, scheduler(p) PROVE Waiting'
  BY <1>11 DEF scheduler, localVars
<1>12. ASSUME NEW p \in Procs, yield(p) PROVE Waiting'
  BY <1>12 DEF yield, Running, localVars
<1>13. ASSUME NEW p \in Procs, fork_alloc(p) PROVE Waiting'
  <2> PICK r \in Procs : /\ state[r] = "UNUSED" /\ plock[r] = NoProc
                        /\ plock' = [plock EXCEPT ![r] = p]
                        /\ pid' = [pid EXCEPT ![r] = nextpid]
                        /\ state' = [state EXCEPT ![r] = "USED"]
                        /\ np' = [np EXCEPT ![p] = r]
                        /\ calls' = [calls EXCEPT ![r] = 0]
    BY <1>13 DEF fork_alloc
  <2> QED BY <1>13 DEF fork_alloc, allocpid, syscall, Running, goto
<1>14. ASSUME NEW p \in Procs, exit_reparent(p) PROVE Waiting'
  BY <1>14 DEF exit_reparent, Running, goto, wakeup, Children, localVars
<1>15. ASSUME NEW p \in Procs, wait_call(p) PROVE Waiting'
  BY <1>15 DEF wait_call, syscall, Running, counted, goto, procVars
<1>16. ASSUME NEW p \in Procs, NEW x \in KillPids, kill(p, x) PROVE Waiting'
  <2> PICK r \in Procs :
           /\ killed' = [killed EXCEPT ![r] = TRUE]
           /\ state' = [state EXCEPT ![r] = IF state[r] = "SLEEPING" THEN "RUNNABLE" ELSE state[r]]
    BY <1>16 DEF kill
  <2> QED BY <1>16 DEF kill, syscall, Running, counted
<1>17. CASE UNCHANGED vars
  BY <1>17 DEF vars, procVars, localVars
<1> QED
  BY <1>1, <1>2, <1>3, <1>4, <1>5, <1>6, <1>7, <1>8, <1>9, <1>10, <1>11, <1>12, <1>13,
     <1>14, <1>15, <1>16, <1>17
  DEF Next, KernelStep

----------------------------------------------------------------------------
\* The inductive invariant holds of every state the system reaches.
LEMMA Inductive == Spec => []IInv
<1>1. IInv /\ [Next]_vars => IInv'
  BY TypeStep, StackStep, LocksStep, SlotsStep, FamilyStep, WaitingStep DEF IInv
<1> QED BY InitInv, <1>1, PTL DEF Spec

\* The variables have their types.
THEOREM TypeCorrect == Spec => []TypeOK
<1>1. IInv => TypeOK
  BY DEF IInv
<1> QED BY Inductive, <1>1, PTL

\* No kernel stack is ever used by two processors, and none is freed or reused
\* before sched() has left it.
THEOREM StacksCorrect == Spec => []StackSafe
<1>1. IInv => StackSafe
  BY DEF IInv
<1> QED BY Inductive, <1>1, PTL

\* exit() and fork() never leave a process without a living parent.
THEOREM ParentsCorrect == Spec => []NoOrphan
<1>1. IInv => NoOrphan
  BY DEF IInv, TypeOK, Family, Live, NoOrphan
<1> QED BY Inductive, <1>1, PTL

\* wait() and exit() never miss each other: no parent sleeps over a zombie.
THEOREM ExitsCorrect == Spec => []NoMissedExit
<1>1. IInv => NoMissedExit
  BY DEF IInv, Waiting
<1> QED BY Inductive, <1>1, PTL
=============================================================================
