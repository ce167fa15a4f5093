-------------------------- MODULE SemaphoreProofs --------------------------
(***************************************************************************)
(* Proofs about Semaphore for every number of processes and semaphores,    *)
(* every int width and every bound on the calls.                           *)
(***************************************************************************)
EXTENDS Semaphore, TLAPS

USE NPROCAssumption, SemaphoreAssumption

\* value++ and value-- stay within int.
LEMMA WrapType == \A v \in Int32 : incr(v) \in Int32 /\ decr(v) \in Int32
  BY DEF Int32, INT_MIN, incr, decr

\* Ranges of the semaphore ids and of wakeup()'s loop variable.
LEMMA RangeFacts ==
  /\ \A s \in Sem : s \in Int
  /\ \A q \in Procs : q + 1 \in 1..(NPROC + 1)
  BY DEF Sem, Procs

\* The boot state satisfies the inductive invariant.
LEMMA InitInv == Init => IInv
  BY DEF Init, IInv, TypeOK, LockDiscipline, ControlOK, WakeupPending, Procs,
         NoProc, ProcStates, Sem, Int32, INT_MIN, Labels, boot_value

\* Every step keeps the types.
LEMMA TypeStep == TypeOK /\ LockDiscipline /\ [Next]_vars => TypeOK'
<1> SUFFICES ASSUME TypeOK, LockDiscipline, [Next]_vars PROVE TypeOK'
  OBVIOUS
<1> USE DEF TypeOK, ProcStates, Labels
<1>1. ASSUME NEW p \in Procs, NEW s \in Sem, NEW v \in Int32, update_and_wake(p, s, v)
      PROVE  TypeOK'
  BY <1>1, RangeFacts DEF update_and_wake, syscall, acquire, goto
<1>2. ASSUME NEW p \in Procs, NEW s \in Sem, down_loop(p, s),
             UNCHANGED <<cur, calls>> \/ syscall(p, s)
      PROVE  TypeOK'
  BY <1>2, WrapType, RangeFacts DEF down_loop, syscall, acquire, goto, return
<1>3. ASSUME NEW p \in Procs, KernelStep(p) PROVE TypeOK'
  <2>1. CASE wakeup_step(p)
    BY <2>1, RangeFacts DEF wakeup_step, wakeup_visit
  <2>2. CASE wakeup_done(p)
    BY <2>2 DEF wakeup_done, release, goto, return, LockDiscipline, ControlOK
  <2>3. CASE down_sleep1(p)
    BY <2>3 DEF down_sleep1, sleep_lock, goto
  <2>4. CASE down_sleep2(p)
    BY <2>4 DEF down_sleep2, sleep_release, release, goto
  <2>5. CASE down_sleep3(p)
    BY <2>5 DEF down_sleep3, sleep_sched, goto, LockDiscipline, ControlOK
  <2>6. CASE down_resume(p)
    BY <2>6 DEF down_resume, scheduler, goto
  <2>7. CASE down_relock(p)
    BY <2>7, <1>2 DEF down_relock, LockDiscipline, ControlOK
  <2> QED BY <1>3, <2>1, <2>2, <2>3, <2>4, <2>5, <2>6, <2>7 DEF KernelStep
<1>4. ASSUME NEW p \in Procs, SystemCall(p) PROVE TypeOK'
  <2>1. CASE sys_sem_invalid(p)
    BY <2>1 DEF sys_sem_invalid, syscall, return, swVars
  <2>2. ASSUME NEW s \in Sem, NEW v \in OpenValues, sys_sem_open(p, s, v) PROVE TypeOK'
    BY <2>2, RangeFacts DEF sys_sem_open, syscall, return, swVars, Int32, INT_MIN
  <2>3. ASSUME NEW s \in Sem, sys_sem_close(p, s) PROVE TypeOK'
    BY <2>3, <1>1 DEF sys_sem_close, Int32, INT_MIN
  <2>4. ASSUME NEW s \in Sem, sys_sem_up(p, s) PROVE TypeOK'
    BY <2>4, <1>1, WrapType DEF sys_sem_up
  <2>5. ASSUME NEW s \in Sem, sys_sem_down(p, s) PROVE TypeOK'
    BY <2>5, <1>2 DEF sys_sem_down
  <2>6. ASSUME NEW q \in Procs, sys_kill(p, q) PROVE TypeOK'
    BY <2>6 DEF sys_kill, syscall, kill, return
  <2> QED BY <1>4, <2>1, <2>2, <2>3, <2>4, <2>5, <2>6 DEF SystemCall
<1>5. ASSUME NEW p \in Procs, usertrap_exit(p) PROVE TypeOK'
  BY <1>5 DEF usertrap_exit, goto
<1>6. CASE UNCHANGED vars
  BY <1>6 DEF vars
<1> QED BY <1>3, <1>4, <1>5, <1>6 DEF Next

\* Every step keeps the lock discipline.
LEMMA LockStep == TypeOK /\ LockDiscipline /\ [Next]_vars => LockDiscipline'
<1> SUFFICES ASSUME TypeOK, LockDiscipline, [Next]_vars PROVE LockDiscipline'
  OBVIOUS
<1>0. NoProc \notin Procs
  BY DEF NoProc, Procs
<1> USE <1>0 DEF TypeOK, LockDiscipline, ControlOK
<1>1. ASSUME NEW p \in Procs, NEW s \in Sem, NEW v \in Int32, update_and_wake(p, s, v)
      PROVE  LockDiscipline'
  BY <1>1 DEF update_and_wake, syscall, acquire, goto
<1>2. ASSUME NEW p \in Procs, NEW s \in Sem, down_loop(p, s),
             \/ UNCHANGED <<cur, calls>> /\ pc[p] = "relock" /\ s = cur[p]
             \/ syscall(p, s)
      PROVE  LockDiscipline'
  BY <1>2 DEF down_loop, syscall, acquire, goto, return
<1>3. ASSUME NEW p \in Procs, KernelStep(p) PROVE LockDiscipline'
  <2>1. CASE wakeup_step(p)
    BY <2>1 DEF wakeup_step, wakeup_visit
  <2>2. CASE wakeup_done(p)
    BY <2>2 DEF wakeup_done, release, goto, return
  <2>3. CASE down_sleep1(p)
    BY <2>3 DEF down_sleep1, sleep_lock, goto
  <2>4. CASE down_sleep2(p)
    BY <2>4 DEF down_sleep2, sleep_release, release, goto
  <2>5. CASE down_sleep3(p)
    BY <2>5 DEF down_sleep3, sleep_sched, goto
  <2>6. CASE down_resume(p)
    BY <2>6 DEF down_resume, scheduler, goto
  <2>7. CASE down_relock(p)
    BY <2>7, <1>2 DEF down_relock
  <2> QED BY <1>3, <2>1, <2>2, <2>3, <2>4, <2>5, <2>6, <2>7 DEF KernelStep
<1>4. ASSUME NEW p \in Procs, SystemCall(p) PROVE LockDiscipline'
  <2>1. CASE sys_sem_invalid(p)
    BY <2>1 DEF sys_sem_invalid, syscall, return, swVars
  <2>2. ASSUME NEW s \in Sem, NEW v \in OpenValues, sys_sem_open(p, s, v)
        PROVE  LockDiscipline'
    BY <2>2 DEF sys_sem_open, syscall, return, swVars
  <2>3. ASSUME NEW s \in Sem, sys_sem_close(p, s) PROVE LockDiscipline'
    BY <2>3, <1>1 DEF sys_sem_close, Int32, INT_MIN
  <2>4. ASSUME NEW s \in Sem, sys_sem_up(p, s) PROVE LockDiscipline'
    BY <2>4, <1>1, WrapType DEF sys_sem_up
  <2>5. ASSUME NEW s \in Sem, sys_sem_down(p, s) PROVE LockDiscipline'
    BY <2>5, <1>2 DEF sys_sem_down
  <2>6. ASSUME NEW q \in Procs, sys_kill(p, q) PROVE LockDiscipline'
    BY <2>6 DEF sys_kill, syscall, kill, return
  <2> QED BY <1>4, <2>1, <2>2, <2>3, <2>4, <2>5, <2>6 DEF SystemCall
<1>5. ASSUME NEW p \in Procs, usertrap_exit(p) PROVE LockDiscipline'
  BY <1>5 DEF usertrap_exit, goto
<1>6. CASE UNCHANGED vars
  BY <1>6 DEF vars
<1> QED BY <1>3, <1>4, <1>5, <1>6 DEF Next

\* Every step keeps the pending wakeups.
LEMMA WakeupStep == IInv /\ [Next]_vars => WakeupPending'
<1> SUFFICES ASSUME TypeOK, LockDiscipline, WakeupPending, [Next]_vars
             PROVE WakeupPending'
  BY DEF IInv
<1>0. NoProc \notin Procs /\ \A q \in Procs : q \in Int /\ 1 <= q /\ q <= NPROC
  BY DEF NoProc, Procs
<1> USE <1>0 DEF TypeOK, LockDiscipline, ControlOK, WakeupPending
<1>1. ASSUME NEW p \in Procs, NEW s \in Sem, NEW v \in Int32, update_and_wake(p, s, v)
      PROVE  WakeupPending'
  BY <1>1 DEF update_and_wake, syscall, acquire, goto
<1>2. ASSUME NEW p \in Procs, NEW s \in Sem, down_loop(p, s),
             \/ UNCHANGED <<cur, calls>> /\ pc[p] = "relock" /\ s = cur[p]
             \/ syscall(p, s)
      PROVE  WakeupPending'
  BY <1>2 DEF down_loop, syscall, acquire, goto, return
<1>3. ASSUME NEW p \in Procs, KernelStep(p) PROVE WakeupPending'
  <2>1. CASE wakeup_step(p)
    <3>1. pc[p] = "wakeup" /\ cur[p] \in Sem /\ holder[cur[p]] = p /\ wi[p] \in Procs
      BY <2>1 DEF wakeup_step, wakeup_visit
    <3>2. UNCHANGED <<value, pc, cur, holder>> /\ wi'[p] = wi[p] + 1
      BY <2>1 DEF wakeup_step, wakeup_visit
    <3>3. ASSUME NEW r \in Procs, pc[r] = "sleep3" \/ state'[r] = "SLEEPING",
                 value[cur[r]] # 0
          PROVE  r # p /\ cur[r] = cur[p] => wi[p] # r /\ wi[p] <= r
      BY <2>1, <3>1, <3>3 DEF wakeup_step, wakeup_visit
    <3>4. ASSUME NEW r \in Procs, pc[r] = "sleep3" \/ state'[r] = "SLEEPING",
                 value[cur[r]] # 0
          PROVE  \E q \in Procs : /\ q # r /\ holder[cur[r]] = q
                                  /\ pc[q] = "wakeup" /\ wi'[q] <= r
      <4>1. pc[r] = "sleep3" \/ state[r] = "SLEEPING"
        BY <2>1, <3>4 DEF wakeup_step, wakeup_visit
      <4>2. PICK q \in Procs : /\ q # r /\ holder[cur[r]] = q
                               /\ pc[q] = "wakeup" /\ wi[q] <= r
        BY <4>1, <3>4
      <4>3. CASE q = p
        <5>1. cur[r] \in Sem
          BY <4>1
        <5>2. r # p /\ cur[r] = cur[p]
          BY <4>2, <4>3, <5>1
        <5>3. wi[p] # r /\ wi[p] <= r
          BY <5>2, <3>3, <3>4
        <5>4. wi'[p] <= r
          <6> HIDE DEF TypeOK, LockDiscipline, ControlOK, WakeupPending
          <6>1. wi[p] \in Int /\ r \in Int
            BY <3>1
          <6> QED BY <5>3, <6>1, <3>2
        <5> QED BY <4>2, <4>3, <5>4
      <4>4. CASE q # p
        BY <4>2, <4>4, <2>1 DEF wakeup_step, wakeup_visit
      <4> QED BY <4>3, <4>4
    <3> QED BY <3>2, <3>4
  <2>2. CASE wakeup_done(p)
    BY <2>2 DEF wakeup_done, release, goto, return
  <2>3. CASE down_sleep1(p)
    BY <2>3 DEF down_sleep1, sleep_lock, goto
  <2>4. CASE down_sleep2(p)
    BY <2>4 DEF down_sleep2, sleep_release, release, goto
  <2>5. CASE down_sleep3(p)
    BY <2>5 DEF down_sleep3, sleep_sched, goto
  <2>6. CASE down_resume(p)
    BY <2>6 DEF down_resume, scheduler, goto
  <2>7. CASE down_relock(p)
    BY <2>7, <1>2 DEF down_relock
  <2> QED BY <1>3, <2>1, <2>2, <2>3, <2>4, <2>5, <2>6, <2>7 DEF KernelStep
<1>4. ASSUME NEW p \in Procs, SystemCall(p) PROVE WakeupPending'
  <2>1. CASE sys_sem_invalid(p)
    BY <2>1 DEF sys_sem_invalid, syscall, return, swVars
  <2>2. ASSUME NEW s \in Sem, NEW v \in OpenValues, sys_sem_open(p, s, v)
        PROVE  WakeupPending'
    BY <2>2 DEF sys_sem_open, syscall, return, swVars
  <2>3. ASSUME NEW s \in Sem, sys_sem_close(p, s) PROVE WakeupPending'
    BY <2>3, <1>1 DEF sys_sem_close, Int32, INT_MIN
  <2>4. ASSUME NEW s \in Sem, sys_sem_up(p, s) PROVE WakeupPending'
    BY <2>4, <1>1, WrapType DEF sys_sem_up
  <2>5. ASSUME NEW s \in Sem, sys_sem_down(p, s) PROVE WakeupPending'
    BY <2>5, <1>2 DEF sys_sem_down
  <2>6. ASSUME NEW q \in Procs, sys_kill(p, q) PROVE WakeupPending'
    BY <2>6 DEF sys_kill, syscall, kill, return
  <2> QED BY <1>4, <2>1, <2>2, <2>3, <2>4, <2>5, <2>6 DEF SystemCall
<1>5. ASSUME NEW p \in Procs, usertrap_exit(p) PROVE WakeupPending'
  BY <1>5 DEF usertrap_exit, goto
<1>6. CASE UNCHANGED vars
  BY <1>6 DEF vars
<1> QED BY <1>3, <1>4, <1>5, <1>6 DEF Next

\* The inductive invariant holds in every reachable state.
LEMMA Inductive == Spec => []IInv
<1>1. IInv /\ [Next]_vars => IInv'
  BY TypeStep, LockStep, WakeupStep DEF IInv
<1> QED BY InitInv, <1>1, PTL DEF Spec

\* Type correctness of the semaphore system calls, int overflow of value++
\* and value-- included.
THEOREM TypeCorrect == Spec => []TypeOK
<1>1. IInv => TypeOK
  BY DEF IInv
<1> QED BY Inductive, <1>1, PTL

\* No execution of the semaphore calls reaches one of the panics of acquire(),
\* release() and sched().
THEOREM LocksCorrect == Spec => []LockDiscipline
<1>1. IInv => LockDiscipline
  BY DEF IInv
<1> QED BY Inductive, <1>1, PTL

\* sem_up and sem_close wake every process that sem_down left asleep: for any
\* number of processes no wakeup is lost between sem_down's test and sleep().
THEOREM WakeupsCorrect == Spec => []NoLostWakeup
<1>1. IInv => NoLostWakeup
  <2> SUFFICES ASSUME IInv, NEW s \in Sem, holder[s] = NoProc, value[s] # 0,
                      NEW p \in Procs, cur[p] = s,
                      pc[p] = "sleep3" \/ (pc[p] = "asleep" /\ state[p] = "SLEEPING")
               PROVE  FALSE
    BY DEF NoLostWakeup
  <2>1. PICK q \in Procs : holder[s] = q
    BY DEF IInv, WakeupPending
  <2> QED BY <2>1 DEF NoProc, Procs
<1> QED BY Inductive, <1>1, PTL

\* Every step of the kernel code is a step of the atomic semaphore, or is
\* invisible to it.
LEMMA RefinementStep == TypeOK /\ LockDiscipline /\ [Next]_vars => [Abs!ANext]_(Abs!avars)
<1> SUFFICES ASSUME TypeOK, LockDiscipline, [Next]_vars
             PROVE  Abs!ANext \/ UNCHANGED Abs!avars
  OBVIOUS
<1> USE DEF TypeOK, LockDiscipline, ControlOK, Abs!avars, waiting, Waiting
<1>0. Abs!AProcs = Procs /\ Abs!ASem = Sem /\ -1 \notin Sem
  BY DEF Abs!AProcs, Abs!ASem, Procs, Sem
<1>1. \A v \in Int32 : Abs!AIncr(v) = incr(v) /\ Abs!ADecr(v) = decr(v)
  BY DEF Abs!AIncr, Abs!ADecr, incr, decr, INT_MIN, Int32
<1>2. ASSUME NEW p \in Procs, NEW s \in Sem, down_loop(p, s),
             \/ UNCHANGED <<cur, calls>> /\ pc[p] = "relock" /\ s = cur[p]
             \/ syscall(p, s)
      PROVE  Abs!ANext \/ UNCHANGED Abs!avars
  <2>1. CASE value[s] = 0 /\ pc[p] = "user"
    <3>1. /\ pc' = [pc EXCEPT ![p] = "sleep1"] /\ cur' = [cur EXCEPT ![p] = s]
          /\ UNCHANGED value
      BY <1>2, <2>1 DEF down_loop, syscall, goto
    <3>2. waiting[p] = -1 /\ waiting' = [waiting EXCEPT ![p] = s]
      <4>1. waiting[p] = -1
        BY <2>1
      <4>2. ASSUME NEW q \in Procs
            PROVE  (IF pc'[q] \in Waiting THEN cur'[q] ELSE -1)
                     = IF q = p THEN s ELSE waiting[q]
        BY <3>1
      <4>3. waiting' = [q \in Procs |-> IF q = p THEN s ELSE waiting[q]]
        BY <4>2 DEF waiting
      <4>4. waiting = [q \in Procs |-> waiting[q]]
        BY DEF waiting
      <4> HIDE DEF waiting, TypeOK, LockDiscipline, ControlOK
      <4> QED BY <4>1, <4>3, <4>4
    <3> HIDE DEF waiting, TypeOK, LockDiscipline
    <3>3. Abs!AWait(p, s)
      BY <2>1, <3>1, <3>2 DEF Abs!AWait
    <3> QED BY <1>0, <3>3 DEF Abs!ANext
  <2>2. CASE value[s] = 0 /\ pc[p] = "relock"
    BY <1>0, <1>2, <2>2 DEF down_loop, syscall, goto, return
  <2>3. CASE value[s] # 0 /\ pc[p] = "user"
    BY <1>0, <1>1, <1>2, <2>3 DEF down_loop, syscall, goto, return, Abs!ANext, Abs!ADown
  <2>4. CASE value[s] # 0 /\ pc[p] = "relock"
    <3>1. /\ pc' = [pc EXCEPT ![p] = "user"] /\ UNCHANGED cur /\ s = cur[p]
          /\ value' = [value EXCEPT ![s] = decr(value[s])]
      BY <1>2, <2>4 DEF down_loop, syscall, goto
    <3>2. waiting[p] = s /\ waiting' = [waiting EXCEPT ![p] = -1]
      BY <2>4, <3>1
    <3>. value[s] \in Int32
      BY <1>2
    <3> HIDE DEF waiting, TypeOK, LockDiscipline
    <3>3. Abs!AGrant(p)
      BY <1>0, <1>1, <2>4, <3>1, <3>2 DEF Abs!AGrant
    <3> QED BY <1>0, <3>3 DEF Abs!ANext
  <2> QED BY <1>2, <2>1, <2>2, <2>3, <2>4 DEF syscall
<1>3. ASSUME NEW p \in Procs, KernelStep(p) PROVE Abs!ANext \/ UNCHANGED Abs!avars
  <2>1. CASE wakeup_step(p)
    BY <2>1 DEF wakeup_step
  <2>2. CASE wakeup_done(p)
    BY <2>2 DEF wakeup_done, goto
  <2>3. CASE down_sleep1(p) \/ down_sleep2(p) \/ down_sleep3(p) \/ down_resume(p)
    BY <2>3 DEF down_sleep1, down_sleep2, down_sleep3, down_resume, goto
  <2>4. CASE down_relock(p)
    BY <2>4, <1>2 DEF down_relock
  <2> QED BY <1>3, <2>1, <2>2, <2>3, <2>4 DEF KernelStep
<1>4. ASSUME NEW p \in Procs, SystemCall(p) PROVE Abs!ANext \/ UNCHANGED Abs!avars
  <2>1. CASE sys_sem_invalid(p)
    BY <2>1 DEF sys_sem_invalid, syscall
  <2>2. ASSUME NEW s \in Sem, NEW v \in OpenValues, sys_sem_open(p, s, v)
        PROVE  Abs!ANext \/ UNCHANGED Abs!avars
    BY <1>0, <2>2 DEF sys_sem_open, syscall, Abs!ANext, Abs!AOpen
  <2>3. ASSUME NEW s \in Sem, sys_sem_close(p, s) PROVE Abs!ANext
    <3>1. waiting' = waiting /\ value' = [value EXCEPT ![s] = 0]
      BY <2>3 DEF sys_sem_close, update_and_wake, syscall, goto
    <3> QED BY <1>0, <3>1 DEF Abs!ANext, Abs!AClose
  <2>4. ASSUME NEW s \in Sem, sys_sem_up(p, s) PROVE Abs!ANext
    <3>1. waiting' = waiting /\ value' = [value EXCEPT ![s] = incr(value[s])]
      BY <2>4 DEF sys_sem_up, update_and_wake, syscall, goto
    <3>2. value[s] \in Int32
      OBVIOUS
    <3> HIDE DEF waiting, TypeOK, LockDiscipline
    <3> QED BY <1>0, <1>1, <3>1, <3>2 DEF Abs!ANext, Abs!AUp
  <2>5. ASSUME NEW s \in Sem, sys_sem_down(p, s)
        PROVE  Abs!ANext \/ UNCHANGED Abs!avars
    BY <2>5, <1>2 DEF sys_sem_down
  <2>6. ASSUME NEW q \in Procs, sys_kill(p, q) PROVE UNCHANGED Abs!avars
    BY <2>6 DEF sys_kill, syscall
  <2> QED BY <1>4, <2>1, <2>2, <2>3, <2>4, <2>5, <2>6 DEF SystemCall
<1>5. ASSUME NEW p \in Procs, usertrap_exit(p) PROVE UNCHANGED Abs!avars
  BY <1>5 DEF usertrap_exit, goto
<1>6. CASE UNCHANGED vars
  BY <1>6 DEF vars
<1> QED BY <1>3, <1>4, <1>5, <1>6 DEF Next

\* The system calls implement the atomic semaphore: open, close, up and down
\* take effect at one instant each, whatever the interleaving of sleep(),
\* wakeup(), kill() and the scheduler.
THEOREM Refinement == Spec => Abs!Safety
<1>1. Init => Abs!AInit
  BY DEF Init, Abs!AInit, Abs!ASem, Abs!AProcs, Sem, Procs, boot_value, waiting, Waiting
<1>2. IInv /\ [Next]_vars => [Abs!ANext]_(Abs!avars)
  BY RefinementStep DEF IInv
<1> QED BY Inductive, <1>1, <1>2, PTL DEF Spec, Abs!Safety
=============================================================================
