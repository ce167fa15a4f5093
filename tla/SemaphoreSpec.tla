--------------------------- MODULE SemaphoreSpec ---------------------------
(***************************************************************************)
(* What the semaphore system calls of kernel/sysproc.c promise: open,      *)
(* close, up and down act on the value atomically, a down of a semaphore   *)
(* whose value is 0 waits, and a waiting process takes a unit once the     *)
(* value is not 0.  No locks, no sleep channels, no process table.         *)
(*                                                                         *)
(* up and down also act on a semaphore that was never opened or that was   *)
(* closed, because the code does not test for it; labo2/grade-lab2 lists   *)
(* that it should (lines 58 and 60).                                       *)
(***************************************************************************)
EXTENDS Integers

CONSTANTS NPROC, MAX_SEMAPHORES, INT_MAX, OpenValues, SemInitCalled

VARIABLES value,     \* the value of each semaphore
          waiting    \* the semaphore a process is blocked on, or -1

avars == <<value, waiting>>

AProcs == 1..NPROC
ASem == 0..(MAX_SEMAPHORES - 1)
AIncr(v) == IF v = INT_MAX THEN -INT_MAX - 1 ELSE v + 1
ADecr(v) == IF v = -INT_MAX - 1 THEN INT_MAX ELSE v - 1

AInit ==
  /\ value = [s \in ASem |-> IF SemInitCalled THEN -1 ELSE 0]
  /\ waiting = [p \in AProcs |-> -1]

\* Only an unused semaphore, value -1, can be opened.
AOpen(s) ==
  /\ value[s] = -1
  /\ \E v \in OpenValues : value' = [value EXCEPT ![s] = v]
  /\ UNCHANGED waiting

AClose(s) == value' = [value EXCEPT ![s] = 0] /\ UNCHANGED waiting

AUp(s) == value' = [value EXCEPT ![s] = AIncr(@)] /\ UNCHANGED waiting

\* A down that finds a unit, and one that finds none.
ADown(s) ==
  /\ value[s] # 0
  /\ value' = [value EXCEPT ![s] = ADecr(@)]
  /\ UNCHANGED waiting

AWait(p, s) ==
  /\ waiting[p] = -1
  /\ value[s] = 0
  /\ waiting' = [waiting EXCEPT ![p] = s]
  /\ UNCHANGED value

\* A waiting process is let through.
AGrant(p) ==
  /\ waiting[p] \in ASem
  /\ value[waiting[p]] # 0
  /\ value' = [value EXCEPT ![waiting[p]] = ADecr(@)]
  /\ waiting' = [waiting EXCEPT ![p] = -1]

ANext ==
  \/ \E s \in ASem : AOpen(s) \/ AClose(s) \/ AUp(s) \/ ADown(s)
  \/ \E p \in AProcs : AGrant(p) \/ \E s \in ASem : AWait(p, s)

Safety == AInit /\ [][ANext]_avars

Spec == Safety /\ \A p \in AProcs : WF_avars(AGrant(p))
=============================================================================
