-------------------------------- MODULE Pipe --------------------------------
(***************************************************************************)
(* One pipe of the labo2 kernel (kernel/pipe.c), with the file references  *)
(* that decide when an end closes (kernel/file.c) and with kill().         *)
(*                                                                         *)
(* pi->lock is held from the call to the return except in sleep(), so a    *)
(* system call is the steps between two points where kill() matters:       *)
(* killed() is tested once per loop iteration, and sleep() comes after     *)
(* the test.  sleep() and wakeup() themselves are atomic, which is what    *)
(* Semaphore establishes.  nread and nwrite are unsigned and wrap at W;    *)
(* copyin() and copyout() may fail at any byte.                            *)
(***************************************************************************)
EXTENDS Integers, Sequences, FiniteSets, Rings

CONSTANTS Writers, Readers,   \* processes that share the write and the read end
          Byte,               \* values of a byte
          PIPESIZE,           \* bytes in the buffer (512)
          W,                  \* uint wraps at W (2^32)
          MaxLen,             \* bound: bytes asked for in a call
          MaxCalls,           \* bound: reads or writes of a process
          NoProc              \* pi->lock is free

\* The buffer size divides the range of the counters, or the ring would break
\* when they wrap.
ASSUME PipeAssumption ==
  /\ Byte # {} /\ Writers \cap Readers = {} /\ NoProc \notin Writers \cup Readers
  /\ PIPESIZE \in Nat \ {0} /\ W \in Nat /\ W > PIPESIZE /\ W % PIPESIZE = 0
  /\ MaxLen \in Nat \ {0} /\ MaxCalls \in Nat

VARIABLES lock,                  \* holder of pi->lock
          data, nread, nwrite,   \* pi->data, pi->nread, pi->nwrite
          readopen, writeopen,   \* pi->readopen, pi->writeopen
          fds,                   \* processes whose descriptor is open (f->ref)
          killed,                \* p->killed
          pc,                    \* where a process is
          i, len,                \* the bytes moved and asked for in the call
          calls                  \* reads and writes made, bounded by MaxCalls

pipeVars == <<data, nread, nwrite, readopen, writeopen>>
vars == <<lock, data, nread, nwrite, readopen, writeopen, fds, killed, pc, i, len, calls>>

Procs == Writers \cup Readers

\* wakeup(&pi->nread) and wakeup(&pi->nwrite).
wakeup(set, f) == [p \in Procs |-> IF p \in set /\ f[p] = "asleep" THEN "woken" ELSE f[p]]

goto(p, l) == pc' = [pc EXCEPT ![p] = l]

\* A call returns: pi->lock is released and its local variables are gone.
return(p) ==
  /\ lock' = NoProc
  /\ i' = [i EXCEPT ![p] = 0] /\ len' = [len EXCEPT ![p] = 0]

----------------------------------------------------------------------------
\* pipealloc() succeeded and the descriptors were inherited through fork().
Init ==
  /\ lock = NoProc
  /\ data \in [0..(PIPESIZE - 1) -> {CHOOSE ch \in Byte : TRUE}]
  /\ nread = 0 /\ nwrite = 0
  /\ readopen = TRUE /\ writeopen = TRUE
  /\ fds = Procs
  /\ killed = [p \in Procs |-> FALSE]
  /\ pc = [p \in Procs |-> "user"]
  /\ i = [p \in Procs |-> 0]
  /\ len = [p \in Procs |-> 0]
  /\ calls = [p \in Procs |-> 0]

\* pipewrite() or piperead() is called and acquires pi->lock.  A length below 0 is
\* as good as 0.
call(p) ==
  /\ pc[p] = "user" /\ p \in fds /\ ~killed[p]
  /\ calls[p] < MaxCalls /\ calls' = [calls EXCEPT ![p] = @ + 1]
  /\ lock = NoProc /\ lock' = p
  /\ \E k \in 0..MaxLen : len' = [len EXCEPT ![p] = k]
  /\ i' = [i EXCEPT ![p] = 0]
  /\ goto(p, "loop")
  /\ UNCHANGED <<pipeVars, fds, killed>>

\* A pipewrite() that compares the counters without their wrap-around.
full_nowrap == nwrite = nread + PIPESIZE

full == nwrite = (nread + PIPESIZE) % W
empty == nread = nwrite

\* pipewrite(): no reader left, or killed.  The bytes already written stay and
\* nobody is woken.
write_fail(p) ==
  /\ p \in Writers /\ pc[p] = "loop" /\ i[p] < len[p]
  /\ ~readopen \/ killed[p]
  /\ return(p) /\ goto(p, "user")
  /\ UNCHANGED <<pipeVars, fds, killed, calls>>

\* pipewrite(): full; the readers are woken and sleep() is next.
write_full(p) ==
  /\ p \in Writers /\ pc[p] = "loop" /\ i[p] < len[p]
  /\ readopen /\ ~killed[p] /\ full
  /\ pc' = wakeup(Readers, [pc EXCEPT ![p] = "sleep"])
  /\ UNCHANGED <<lock, pipeVars, fds, killed, i, len, calls>>

\* pipewrite(): copy one byte in, unless copyin() fails.
write_byte(p) ==
  /\ p \in Writers /\ pc[p] = "loop" /\ i[p] < len[p]
  /\ readopen /\ ~killed[p] /\ ~full
  /\ \/ /\ \E ch \in Byte : data' = [data EXCEPT ![nwrite % PIPESIZE] = ch]
        /\ nwrite' = (nwrite + 1) % W
        /\ i' = [i EXCEPT ![p] = @ + 1]
        /\ UNCHANGED <<lock, pc, len>>
     \/ /\ pc' = wakeup(Readers, [pc EXCEPT ![p] = "user"])
        /\ return(p)
        /\ UNCHANGED <<data, nwrite>>
  /\ UNCHANGED <<nread, readopen, writeopen, fds, killed, calls>>

\* pipewrite(): all bytes written.
write_done(p) ==
  /\ p \in Writers /\ pc[p] = "loop" /\ i[p] = len[p]
  /\ pc' = wakeup(Readers, [pc EXCEPT ![p] = "user"])
  /\ return(p)
  /\ UNCHANGED <<pipeVars, fds, killed, calls>>

\* piperead(): nothing to read yet; killed, or sleep() is next.
read_empty(p) ==
  /\ p \in Readers /\ pc[p] = "loop" /\ empty /\ writeopen
  /\ \/ killed[p] /\ return(p) /\ goto(p, "user")
     \/ ~killed[p] /\ goto(p, "sleep") /\ UNCHANGED <<lock, i, len>>
  /\ UNCHANGED <<pipeVars, fds, killed, calls>>

\* piperead(): leave the first loop.
read_start(p) ==
  /\ p \in Readers /\ pc[p] = "loop" /\ ~(empty /\ writeopen)
  /\ goto(p, "copy")
  /\ UNCHANGED <<lock, pipeVars, fds, killed, i, len, calls>>

\* piperead(): take a byte; if copyout() fails it is lost and the loop ends.
read_byte(p) ==
  /\ pc[p] = "copy" /\ i[p] < len[p] /\ ~empty
  /\ nread' = (nread + 1) % W
  /\ \/ i' = [i EXCEPT ![p] = @ + 1] /\ UNCHANGED <<lock, pc, len>>
     \/ return(p) /\ pc' = wakeup(Writers, [pc EXCEPT ![p] = "user"])
  /\ UNCHANGED <<data, nwrite, readopen, writeopen, fds, killed, calls>>

\* A piperead() that returns without waking the writers.
read_done_silent(p) ==
  /\ pc[p] = "copy" /\ (i[p] = len[p] \/ empty)
  /\ return(p)
  /\ goto(p, "user")
  /\ UNCHANGED <<pipeVars, fds, killed, calls>>

\* piperead(): as much as there was, or as was asked for.
read_done(p) ==
  /\ pc[p] = "copy" /\ (i[p] = len[p] \/ empty)
  /\ return(p)
  /\ pc' = wakeup(Writers, [pc EXCEPT ![p] = "user"])
  /\ UNCHANGED <<pipeVars, fds, killed, calls>>

\* sleep(chan, &pi->lock): a kill() since the test has no effect on it.
sleep(p) ==
  /\ pc[p] = "sleep" /\ goto(p, "asleep")
  /\ lock' = NoProc
  /\ UNCHANGED <<pipeVars, fds, killed, i, len, calls>>

\* The end of sleep(): scheduled again, and pi->lock reacquired.
resume(p) ==
  /\ pc[p] = "woken" /\ goto(p, "loop")
  /\ lock = NoProc /\ lock' = p
  /\ UNCHANGED <<pipeVars, fds, killed, i, len, calls>>

\* A fileclose() that calls pipeclose() at the first close of an end.
last_close_early(p, side) == p \in fds \cap side

\* fileclose(): f->ref drops to 0.
last_close(p, side) == fds \cap side = {p}

\* A pipeclose() that wakes nobody.
closed_wakes_nobody(side) == {}

\* pipeclose() wakes the processes at the other end.
closed_wakes(side) == IF side = Writers THEN Readers ELSE Writers

\* close() or exit(), fileclose(): the reference is dropped under ftable.lock,
\* and the process that dropped the last one goes on to pipeclose().
fileclose(p, side) ==
  /\ p \in side /\ pc[p] = "user" /\ p \in fds
  /\ fds' = fds \ {p}
  /\ goto(p, IF last_close(p, side) THEN "pipeclose" ELSE "user")
  /\ UNCHANGED <<lock, pipeVars, killed, i, len, calls>>

\* pipeclose(): one critical section.  Both ends closed frees the pipe.
pipeclose(p, side) ==
  /\ p \in side /\ pc[p] = "pipeclose" /\ lock = NoProc
  /\ writeopen' = (writeopen /\ side # Writers)
  /\ readopen' = (readopen /\ side # Readers)
  /\ pc' = wakeup(closed_wakes(side), [pc EXCEPT ![p] = "user"])
  /\ UNCHANGED <<lock, data, nread, nwrite, fds, killed, i, len, calls>>

\* kill(p), by some process outside the model.
kill(p) ==
  /\ ~killed[p]
  /\ killed' = [killed EXCEPT ![p] = TRUE]
  /\ pc' = wakeup({p}, pc)
  /\ UNCHANGED <<lock, pipeVars, fds, i, len, calls>>

----------------------------------------------------------------------------
KernelStep(p) ==
  \/ write_fail(p) \/ write_full(p) \/ write_byte(p) \/ write_done(p)
  \/ read_empty(p) \/ read_start(p) \/ read_byte(p) \/ read_done(p)
  \/ sleep(p) \/ resume(p)
  \/ pipeclose(p, Writers) \/ pipeclose(p, Readers)

Next ==
  \E p \in Procs : \/ KernelStep(p) \/ call(p) \/ kill(p)
                   \/ fileclose(p, Writers) \/ fileclose(p, Readers)

\* A process inside the kernel goes on when it can.  No program has to call,
\* to close or to exit.
Fairness == \A p \in Procs : WF_vars(KernelStep(p))

Spec == Init /\ [][Next]_vars /\ Fairness

----------------------------------------------------------------------------
\* The types of the variables; the counters, which wrap, are never more than
\* PIPESIZE apart, so pipewrite() overwrites nothing that is unread.
TypeOK ==
  /\ lock \in Procs \cup {NoProc}
  /\ data \in [0..(PIPESIZE - 1) -> Byte]
  /\ nread \in 0..(W - 1) /\ nwrite \in 0..(W - 1)
  /\ (nwrite - nread) % W <= PIPESIZE
  /\ readopen \in BOOLEAN /\ writeopen \in BOOLEAN
  /\ fds \subseteq Procs /\ killed \in [Procs -> BOOLEAN]
  /\ pc \in [Procs -> {"user", "loop", "copy", "sleep", "asleep", "woken", "pipeclose"}]
  /\ i \in [Procs -> 0..MaxLen] /\ len \in [Procs -> 0..MaxLen]
  /\ calls \in [Procs -> 0..MaxCalls]

\* A writer is not left asleep when there is room or there are no readers, kill
\* or not: every way out of piperead() that took a byte wakes the writers.  A
\* reader is not left asleep when there are bytes or there are no writers,
\* except by a killed writer: pipewrite() returns -1 for it without waking the
\* readers of what it has written.
NotStranded ==
  lock = NoProc =>
    /\ ~full \/ ~readopen => \A p \in Writers : pc[p] # "asleep"
    /\ (~empty \/ ~writeopen) /\ (\A p \in Writers : ~killed[p]) => \A p \in Readers : pc[p] # "asleep"

\* The pipe is freed only when no process is inside it.
NoUseAfterFree ==
  ~readopen /\ ~writeopen => lock = NoProc /\ \A p \in Procs : pc[p] = "user"

\* Once the other end is closed, a blocked call returns.
CloseUnblocks ==
  /\ \A p \in Readers : (pc[p] # "user" /\ ~writeopen) ~> pc[p] = "user"
  /\ \A p \in Writers : (pc[p] # "user" /\ ~readopen) ~> pc[p] = "user"

\* The bytes in the ring, oldest first.
q == ring(data, PIPESIZE, W, nread, nwrite)

Abs == INSTANCE PipeSpec WITH Size <- PIPESIZE, rend <- readopen, wend <- writeopen

\* The ring buffer with its wrapping counters is a bounded first-in first-out
\* queue for any number of readers and writers.
FIFO == Abs!Spec
=============================================================================
