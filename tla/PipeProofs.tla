----------------------------- MODULE PipeProofs -----------------------------
(***************************************************************************)
(* Proofs about Pipe for every number of readers and writers, every buffer *)
(* size, every width of the counters and every bound on the calls.         *)
(***************************************************************************)
EXTENDS Pipe, RingProofs, TLAPS

----------------------------------------------------------------------------
\* Where a process is inside pipewrite() or piperead(), and where it holds
\* pi->lock.
Inside == {"loop", "copy", "sleep", "asleep", "woken"}
Holding == {"loop", "copy", "sleep"}

\* pi->lock is held from the call to the return except in sleep(); a process
\* inside a call has its end open; only piperead() copies out.
Control ==
  /\ \A p \in Procs : lock = p <=> pc[p] \in Holding
  /\ \A p \in Procs : pc[p] \in Inside => p \in fds
  /\ \A p \in Procs : pc[p] = "copy" => p \in Readers
  /\ \A p \in Procs : i[p] <= len[p]

\* The process on its way to pipeclose() has dropped the last reference of its
\* end, and an end that is closed has no reference.
Closing(side, open) ==
  /\ \A p \in side : pc[p] = "pipeclose" =>
       /\ side \cap fds = {}
       /\ \A r \in side \ {p} : pc[r] # "pipeclose"
  /\ ~open => \A p \in side : p \notin fds /\ pc[p] # "pipeclose"

Ends == Closing(Readers, readopen) /\ Closing(Writers, writeopen)

\* NotStranded while pi->lock is held: whoever has given the sleepers a reason
\* to go on still holds the lock and has its wakeup() ahead of it.
Stranded ==
  /\ \A w \in Writers : pc[w] \in {"sleep", "asleep"} =>
       (full /\ readopen) \/ \E r \in Readers : pc[r] = "copy"
  /\ \A r \in Readers : pc[r] \in {"sleep", "asleep"} =>
       \/ empty /\ writeopen
       \/ \E w \in Writers : pc[w] = "loop" \/ killed[w]

IInv == TypeOK /\ Control /\ Ends /\ Stranded

----------------------------------------------------------------------------
\* The sizes.
LEMMA SizeFacts ==
  /\ PIPESIZE \in Nat \ {0} /\ W \in Nat \ {0} /\ PIPESIZE < W
  /\ RingSizes(PIPESIZE, W)
  BY PipeAssumption DEF RingSizes

USE SizeFacts

\* The number of bytes in the ring.
count == span(nread, nwrite, W)

\* The counters are indices of a ring.
LEMMA RingState ==
  ASSUME TypeOK
  PROVE  /\ nread \in Index(W) /\ nwrite \in Index(W) /\ data \in Buffer(PIPESIZE, Byte)
         /\ count \in 0..PIPESIZE
<1>1. nread \in Index(W) /\ nwrite \in Index(W) /\ data \in Buffer(PIPESIZE, Byte)
      /\ count <= PIPESIZE
  BY DEF TypeOK, Index, Buffer, count, span
<1>2. count \in 0..(W - 1)
  BY <1>1, SpanType DEF count
<1> QED BY <1>1, <1>2

\* What full and empty say about it, and how a byte put or got changes it.
LEMMA RingCount ==
  ASSUME TypeOK
  PROVE  /\ count \in 0..PIPESIZE
         /\ full <=> count = PIPESIZE
         /\ empty <=> count = 0
         /\ ~full => /\ (nwrite + 1) % W \in 0..(W - 1)
                     /\ (((nwrite + 1) % W) - nread) % W = count + 1
         /\ ~empty => /\ (nread + 1) % W \in 0..(W - 1)
                      /\ (nwrite - ((nread + 1) % W)) % W = count - 1
<1>1. nread \in Index(W) /\ nwrite \in Index(W) /\ count \in 0..PIPESIZE
  BY RingState
<1>2. full <=> count = PIPESIZE
  <2>1. PIPESIZE \in Index(W)
    BY DEF Index
  <2> QED BY <1>1, <2>1, SpanFull DEF full, count
<1>3. empty <=> count = 0
  BY <1>1, SpanType DEF empty, count
<1>4. (nwrite + 1) % W \in 0..(W - 1) /\ (nread + 1) % W \in 0..(W - 1)
  BY <1>1, SpanStep DEF Index
<1>5. ~full => span(nread, (nwrite + 1) % W, W) = count + 1
  BY <1>1, <1>2, SpanStep DEF count
<1>6. ~empty => span((nread + 1) % W, nwrite, W) = count - 1
  BY <1>1, SpanStep DEF count, empty
<1> QED BY <1>1, <1>2, <1>3, <1>4, <1>5, <1>6 DEF span

\* pipewrite()'s byte is the new last byte of the queue.
LEMMA PutByte ==
  ASSUME TypeOK, ~full, NEW ch \in Byte,
         data' = [data EXCEPT ![nwrite % PIPESIZE] = ch],
         nwrite' = (nwrite + 1) % W, nread' = nread
  PROVE  q' = Append(q, ch) /\ Len(q) < PIPESIZE
<1>1. nread \in Index(W) /\ nwrite \in Index(W) /\ data \in Buffer(PIPESIZE, Byte)
      /\ count < PIPESIZE /\ count < W - 1
  BY RingState, RingCount
<1>2. Len(q) = count
  BY <1>1, RingSeq DEF q, count
<1>3. ring(stored(data, PIPESIZE, nwrite, ch), PIPESIZE, W, nread, (nwrite + 1) % W)
        = Append(ring(data, PIPESIZE, W, nread, nwrite), ch)
  BY <1>1, RingPut DEF count
<1>4. data' = stored(data, PIPESIZE, nwrite, ch)
  BY DEF stored
<1> QED BY <1>1, <1>2, <1>3, <1>4 DEF q

\* piperead()'s byte is the first byte of the queue.
LEMMA GetByte ==
  ASSUME TypeOK, ~empty, nread' = (nread + 1) % W, UNCHANGED <<data, nwrite>>
  PROVE  q # <<>> /\ q' = Tail(q)
<1>1. nread \in Index(W) /\ nwrite \in Index(W) /\ data \in Buffer(PIPESIZE, Byte)
  BY RingState
<1>2. /\ ring(data, PIPESIZE, W, nread, nwrite) # <<>>
      /\ ring(data, PIPESIZE, W, (nread + 1) % W, nwrite) = Tail(ring(data, PIPESIZE, W, nread, nwrite))
  BY <1>1, RingGet DEF empty
<1> QED BY <1>2 DEF q

----------------------------------------------------------------------------
USE PipeAssumption

\* The state after pipealloc() satisfies the inductive invariant.
LEMMA InitInv == Init => IInv
  BY DEF Init, IInv, TypeOK, Control, Ends, Closing, Stranded, Inside, Holding, full,
         empty, Procs

\* Every step keeps the types, and the counters at most PIPESIZE apart.
LEMMA TypeStep == TypeOK /\ Control /\ [Next]_vars => TypeOK'
<1> SUFFICES ASSUME TypeOK, Control, [Next]_vars PROVE TypeOK'
  OBVIOUS
<1>0. /\ ~full => /\ (nwrite + 1) % W \in 0..(W - 1)
                  /\ (((nwrite + 1) % W) - nread) % W <= PIPESIZE
      /\ ~empty => /\ (nread + 1) % W \in 0..(W - 1)
                   /\ (nwrite - ((nread + 1) % W)) % W <= PIPESIZE
  BY RingCount
<1> USE DEF TypeOK, Control, pipeVars
<1>1. ASSUME NEW p \in Procs, call(p) PROVE TypeOK'
  BY <1>1 DEF call, goto
<1>2. ASSUME NEW p \in Procs, write_fail(p) PROVE TypeOK'
  BY <1>2 DEF write_fail, return, goto
<1>3. ASSUME NEW p \in Procs, write_full(p) PROVE TypeOK'
  BY <1>3 DEF write_full, wakeup
<1>4. ASSUME NEW p \in Procs, write_byte(p) PROVE TypeOK'
  <2>1. ASSUME NEW ch \in Byte, data' = [data EXCEPT ![nwrite % PIPESIZE] = ch],
               nwrite' = (nwrite + 1) % W, i' = [i EXCEPT ![p] = i[p] + 1],
               UNCHANGED <<lock, pc, len>>
        PROVE  TypeOK'
    <3>1. nwrite' \in 0..(W - 1) /\ (nwrite' - nread) % W <= PIPESIZE
      BY <1>4, <2>1, <1>0 DEF write_byte
    <3>2. i' \in [Procs -> 0..MaxLen]
      BY <1>4, <2>1 DEF write_byte
    <3> QED BY <1>4, <2>1, <3>1, <3>2 DEF write_byte
  <2>2. ASSUME pc' = wakeup(Readers, [pc EXCEPT ![p] = "user"]), return(p),
               UNCHANGED <<data, nwrite>>
        PROVE  TypeOK'
    BY <1>4, <2>2 DEF write_byte, wakeup, return
  <2> QED BY <1>4, <2>1, <2>2 DEF write_byte
<1>5. ASSUME NEW p \in Procs, write_done(p) PROVE TypeOK'
  BY <1>5 DEF write_done, wakeup, return
<1>6. ASSUME NEW p \in Procs, read_empty(p) PROVE TypeOK'
  <2>1. CASE return(p) /\ goto(p, "user")
    BY <1>6, <2>1 DEF read_empty, return, goto
  <2>2. CASE goto(p, "sleep") /\ UNCHANGED <<lock, i, len>>
    BY <1>6, <2>2 DEF read_empty, goto
  <2> QED BY <1>6, <2>1, <2>2 DEF read_empty
<1>7. ASSUME NEW p \in Procs, read_start(p) PROVE TypeOK'
  BY <1>7 DEF read_start, goto
<1>8. ASSUME NEW p \in Procs, read_byte(p) PROVE TypeOK'
  <2>0. nread' \in 0..(W - 1) /\ (nwrite - nread') % W <= PIPESIZE
    BY <1>8, <1>0 DEF read_byte
  <2>1. CASE i' = [i EXCEPT ![p] = i[p] + 1] /\ UNCHANGED <<lock, pc, len>>
    BY <1>8, <2>0, <2>1 DEF read_byte
  <2>2. CASE return(p) /\ pc' = wakeup(Writers, [pc EXCEPT ![p] = "user"])
    BY <1>8, <2>0, <2>2 DEF read_byte, wakeup, return
  <2> QED BY <1>8, <2>1, <2>2 DEF read_byte
<1>9. ASSUME NEW p \in Procs, read_done(p) PROVE TypeOK'
  BY <1>9 DEF read_done, wakeup, return
<1>10. ASSUME NEW p \in Procs, sleep(p) PROVE TypeOK'
  BY <1>10 DEF sleep, goto
<1>11. ASSUME NEW p \in Procs, resume(p) PROVE TypeOK'
  BY <1>11 DEF resume, goto
<1>12. ASSUME NEW p \in Procs, pipeclose(p, Writers) PROVE TypeOK'
  BY <1>12 DEF pipeclose, wakeup, closed_wakes
<1>13. ASSUME NEW p \in Procs, pipeclose(p, Readers) PROVE TypeOK'
  BY <1>13 DEF pipeclose, wakeup, closed_wakes
<1>14. ASSUME NEW p \in Procs, kill(p) PROVE TypeOK'
  BY <1>14 DEF kill, wakeup
<1>15. ASSUME NEW p \in Procs, fileclose(p, Writers) PROVE TypeOK'
  BY <1>15 DEF fileclose, goto, last_close
<1>16. ASSUME NEW p \in Procs, fileclose(p, Readers) PROVE TypeOK'
  BY <1>16 DEF fileclose, goto, last_close
<1>17. CASE UNCHANGED vars
  BY <1>17 DEF vars
<1> QED
  BY <1>1, <1>2, <1>3, <1>4, <1>5, <1>6, <1>7, <1>8, <1>9, <1>10, <1>11, <1>12, <1>13, <1>14, <1>15, <1>16, <1>17
  DEF Next, KernelStep

\* Every step keeps the lock discipline.
LEMMA ControlStep == TypeOK /\ Control /\ [Next]_vars => Control'
<1> SUFFICES ASSUME TypeOK, Control, [Next]_vars PROVE Control'
  OBVIOUS
<1> USE DEF TypeOK, Control, Inside, Holding, pipeVars, Procs
<1>1. ASSUME NEW p \in Procs, call(p) PROVE Control'
  BY <1>1 DEF call, goto
<1>2. ASSUME NEW p \in Procs, write_fail(p) PROVE Control'
  BY <1>2 DEF write_fail, return, goto
<1>3. ASSUME NEW p \in Procs, write_full(p) PROVE Control'
  BY <1>3 DEF write_full, wakeup
<1>4. ASSUME NEW p \in Procs, write_byte(p) PROVE Control'
  <2>1. ASSUME NEW ch \in Byte, data' = [data EXCEPT ![nwrite % PIPESIZE] = ch],
               nwrite' = (nwrite + 1) % W, i' = [i EXCEPT ![p] = i[p] + 1],
               UNCHANGED <<lock, pc, len>>
        PROVE  Control'
    BY <1>4, <2>1 DEF write_byte
  <2>2. ASSUME pc' = wakeup(Readers, [pc EXCEPT ![p] = "user"]), return(p),
               UNCHANGED <<data, nwrite>>
        PROVE  Control'
    BY <1>4, <2>2 DEF write_byte, wakeup, return
  <2> QED BY <1>4, <2>1, <2>2 DEF write_byte
<1>5. ASSUME NEW p \in Procs, write_done(p) PROVE Control'
  BY <1>5 DEF write_done, wakeup, return
<1>6. ASSUME NEW p \in Procs, read_empty(p) PROVE Control'
  <2>1. CASE return(p) /\ goto(p, "user")
    BY <1>6, <2>1 DEF read_empty, return, goto
  <2>2. CASE goto(p, "sleep") /\ UNCHANGED <<lock, i, len>>
    BY <1>6, <2>2 DEF read_empty, goto
  <2> QED BY <1>6, <2>1, <2>2 DEF read_empty
<1>7. ASSUME NEW p \in Procs, read_start(p) PROVE Control'
  BY <1>7 DEF read_start, goto
<1>8. ASSUME NEW p \in Procs, read_byte(p) PROVE Control'
  <2>1. CASE i' = [i EXCEPT ![p] = i[p] + 1] /\ UNCHANGED <<lock, pc, len>>
    BY <1>8, <2>1 DEF read_byte
  <2>2. CASE return(p) /\ pc' = wakeup(Writers, [pc EXCEPT ![p] = "user"])
    BY <1>8, <2>2 DEF read_byte, wakeup, return
  <2> QED BY <1>8, <2>1, <2>2 DEF read_byte
<1>9. ASSUME NEW p \in Procs, read_done(p) PROVE Control'
  BY <1>9 DEF read_done, wakeup, return
<1>10. ASSUME NEW p \in Procs, sleep(p) PROVE Control'
  BY <1>10 DEF sleep, goto
<1>11. ASSUME NEW p \in Procs, resume(p) PROVE Control'
  BY <1>11 DEF resume, goto
<1>12. ASSUME NEW p \in Procs, pipeclose(p, Writers) PROVE Control'
  BY <1>12 DEF pipeclose, wakeup, closed_wakes
<1>13. ASSUME NEW p \in Procs, pipeclose(p, Readers) PROVE Control'
  BY <1>13 DEF pipeclose, wakeup, closed_wakes
<1>14. ASSUME NEW p \in Procs, kill(p) PROVE Control'
  BY <1>14 DEF kill, wakeup
<1>15. ASSUME NEW p \in Procs, fileclose(p, Writers) PROVE Control'
  BY <1>15 DEF fileclose, goto, last_close
<1>16. ASSUME NEW p \in Procs, fileclose(p, Readers) PROVE Control'
  BY <1>16 DEF fileclose, goto, last_close
<1>17. CASE UNCHANGED vars
  BY <1>17 DEF vars
<1> QED
  BY <1>1, <1>2, <1>3, <1>4, <1>5, <1>6, <1>7, <1>8, <1>9, <1>10, <1>11, <1>12, <1>13, <1>14, <1>15, <1>16, <1>17
  DEF Next, KernelStep

\* Every step keeps the relation between the ends and the references.
LEMMA EndsStep == TypeOK /\ Control /\ Ends /\ [Next]_vars => Ends'
<1> SUFFICES ASSUME TypeOK, Control, Ends, [Next]_vars PROVE Ends'
  OBVIOUS
<1> USE DEF TypeOK, Control, Inside, Ends, Closing, pipeVars, Procs
<1>1. ASSUME NEW p \in Procs, call(p) PROVE Ends'
  BY <1>1 DEF call, goto
<1>2. ASSUME NEW p \in Procs, write_fail(p) PROVE Ends'
  BY <1>2 DEF write_fail, return, goto
<1>3. ASSUME NEW p \in Procs, write_full(p) PROVE Ends'
  BY <1>3 DEF write_full, wakeup
<1>4. ASSUME NEW p \in Procs, write_byte(p) PROVE Ends'
  BY <1>4 DEF write_byte, wakeup, return
<1>5. ASSUME NEW p \in Procs, write_done(p) PROVE Ends'
  BY <1>5 DEF write_done, wakeup, return
<1>6. ASSUME NEW p \in Procs, read_empty(p) PROVE Ends'
  <2>1. CASE return(p) /\ goto(p, "user")
    BY <1>6, <2>1 DEF read_empty, return, goto
  <2>2. CASE goto(p, "sleep") /\ UNCHANGED <<lock, i, len>>
    BY <1>6, <2>2 DEF read_empty, goto
  <2> QED BY <1>6, <2>1, <2>2 DEF read_empty
<1>7. ASSUME NEW p \in Procs, read_start(p) PROVE Ends'
  BY <1>7 DEF read_start, goto
<1>8. ASSUME NEW p \in Procs, read_byte(p) PROVE Ends'
  BY <1>8 DEF read_byte, wakeup, return
<1>9. ASSUME NEW p \in Procs, read_done(p) PROVE Ends'
  BY <1>9 DEF read_done, wakeup, return
<1>10. ASSUME NEW p \in Procs, sleep(p) PROVE Ends'
  BY <1>10 DEF sleep, goto
<1>11. ASSUME NEW p \in Procs, resume(p) PROVE Ends'
  BY <1>11 DEF resume, goto
<1>12. ASSUME NEW p \in Procs, pipeclose(p, Writers) PROVE Ends'
  BY <1>12 DEF pipeclose, wakeup, closed_wakes
<1>13. ASSUME NEW p \in Procs, pipeclose(p, Readers) PROVE Ends'
  BY <1>13 DEF pipeclose, wakeup, closed_wakes
<1>14. ASSUME NEW p \in Procs, kill(p) PROVE Ends'
  BY <1>14 DEF kill, wakeup
<1>15. ASSUME NEW p \in Procs, fileclose(p, Writers) PROVE Ends'
  BY <1>15 DEF fileclose, goto, last_close
<1>16. ASSUME NEW p \in Procs, fileclose(p, Readers) PROVE Ends'
  BY <1>16 DEF fileclose, goto, last_close
<1>17. CASE UNCHANGED vars
  BY <1>17 DEF vars
<1> QED
  BY <1>1, <1>2, <1>3, <1>4, <1>5, <1>6, <1>7, <1>8, <1>9, <1>10, <1>11, <1>12, <1>13, <1>14, <1>15, <1>16, <1>17
  DEF Next, KernelStep

\* Every step keeps a wakeup ahead of every sleeper that could go on.
LEMMA StrandedStep == IInv /\ [Next]_vars => Stranded'
<1> SUFFICES ASSUME IInv, [Next]_vars PROVE Stranded'
  OBVIOUS
<1> USE DEF IInv, TypeOK, Control, Holding, Inside, Ends, Closing, Stranded, full, empty, pipeVars, Procs
<1>1. ASSUME NEW p \in Procs, call(p) PROVE Stranded'
  BY <1>1 DEF call, goto
<1>2. ASSUME NEW p \in Procs, write_fail(p) PROVE Stranded'
  BY <1>2 DEF write_fail, return, goto
<1>3. ASSUME NEW p \in Procs, write_full(p) PROVE Stranded'
  BY <1>3 DEF write_full, wakeup
<1>4. ASSUME NEW p \in Procs, write_byte(p) PROVE Stranded'
  BY <1>4 DEF write_byte, wakeup, return
<1>5. ASSUME NEW p \in Procs, write_done(p) PROVE Stranded'
  BY <1>5 DEF write_done, wakeup, return
<1>6. ASSUME NEW p \in Procs, read_empty(p) PROVE Stranded'
  BY <1>6 DEF read_empty, return, goto
<1>7. ASSUME NEW p \in Procs, read_start(p) PROVE Stranded'
  BY <1>7 DEF read_start, goto
<1>8. ASSUME NEW p \in Procs, read_byte(p) PROVE Stranded'
  BY <1>8 DEF read_byte, wakeup, return
<1>9. ASSUME NEW p \in Procs, read_done(p) PROVE Stranded'
  BY <1>9 DEF read_done, wakeup, return
<1>10. ASSUME NEW p \in Procs, sleep(p) PROVE Stranded'
  BY <1>10 DEF sleep, goto
<1>11. ASSUME NEW p \in Procs, resume(p) PROVE Stranded'
  BY <1>11 DEF resume, goto
<1>12. ASSUME NEW p \in Procs, pipeclose(p, Writers) PROVE Stranded'
  BY <1>12 DEF pipeclose, wakeup, closed_wakes
<1>13. ASSUME NEW p \in Procs, pipeclose(p, Readers) PROVE Stranded'
  BY <1>13 DEF pipeclose, wakeup, closed_wakes
<1>14. ASSUME NEW p \in Procs, kill(p) PROVE Stranded'
  BY <1>14 DEF kill, wakeup
<1>15. ASSUME NEW p \in Procs, fileclose(p, Writers) PROVE Stranded'
  BY <1>15 DEF fileclose, goto, last_close
<1>16. ASSUME NEW p \in Procs, fileclose(p, Readers) PROVE Stranded'
  BY <1>16 DEF fileclose, goto, last_close
<1>17. CASE UNCHANGED vars
  BY <1>17 DEF vars
<1> QED
  BY <1>1, <1>2, <1>3, <1>4, <1>5, <1>6, <1>7, <1>8, <1>9, <1>10, <1>11, <1>12, <1>13, <1>14, <1>15, <1>16, <1>17
  DEF Next, KernelStep

----------------------------------------------------------------------------
\* The inductive invariant holds of every state the system reaches.
LEMMA Inductive == Spec => []IInv
<1>1. IInv /\ [Next]_vars => IInv'
  BY TypeStep, ControlStep, EndsStep, StrandedStep DEF IInv
<1> QED BY InitInv, <1>1, PTL DEF Spec

\* The variables have their types and pipewrite() never overwrites a byte that
\* is unread, whatever the counters wrap at.
THEOREM TypeCorrect == Spec => []TypeOK
<1>1. IInv => TypeOK
  BY DEF IInv
<1> QED BY Inductive, <1>1, PTL

\* No writer sleeps on when there is room or no reader, and no reader sleeps on
\* when there are bytes or no writer unless a writer was killed.
THEOREM SleepersCorrect == Spec => []NotStranded
<1>1. IInv => NotStranded
  BY DEF IInv, TypeOK, Control, Holding, Stranded, NotStranded, Procs
<1> QED BY Inductive, <1>1, PTL

\* pipeclose() frees the pipe only when no process is inside it.
THEOREM FreeCorrect == Spec => []NoUseAfterFree
<1>1. IInv => NoUseAfterFree
  BY DEF IInv, TypeOK, Control, Ends, Closing, Inside, Holding, NoUseAfterFree, Procs
<1> QED BY Inductive, <1>1, PTL

----------------------------------------------------------------------------
\* Every step is a step of PipeSpec or leaves the queue and the ends alone.
LEMMA RefinementStep == IInv /\ [Next]_vars => [Abs!PNext]_(Abs!pvars)
<1> SUFFICES ASSUME IInv, [Next]_vars PROVE [Abs!PNext]_(Abs!pvars)
  OBVIOUS
<1>0. TypeOK /\ Control /\ Ends
  BY DEF IInv
<1>1. ASSUME UNCHANGED pipeVars PROVE UNCHANGED Abs!pvars
  BY <1>1 DEF pipeVars, Abs!pvars, q
<1>2. ASSUME NEW p \in Procs, write_byte(p) PROVE Abs!Put \/ UNCHANGED Abs!pvars
  <2>1. p \in Writers /\ pc[p] = "loop" /\ readopen /\ ~full
        /\ UNCHANGED <<nread, readopen, writeopen>>
    BY <1>2 DEF write_byte
  <2>2. writeopen
    BY <1>0, <2>1 DEF TypeOK, Control, Inside, Ends, Closing
  <2>3. ASSUME NEW ch \in Byte, data' = [data EXCEPT ![nwrite % PIPESIZE] = ch],
               nwrite' = (nwrite + 1) % W
        PROVE  Abs!Put
    <3>1. q' = Append(q, ch) /\ Len(q) < PIPESIZE
      BY <1>0, <2>1, <2>3, PutByte
    <3> QED BY <2>1, <2>2, <3>1 DEF Abs!Put
  <2>4. ASSUME UNCHANGED <<data, nwrite>> PROVE UNCHANGED Abs!pvars
    BY <2>1, <2>4, <1>1 DEF pipeVars
  <2> QED BY <1>2, <2>3, <2>4 DEF write_byte
<1>3. ASSUME NEW p \in Procs, read_byte(p) PROVE Abs!Get
  <2>1. pc[p] = "copy" /\ ~empty /\ nread' = (nread + 1) % W
        /\ UNCHANGED <<data, nwrite, readopen, writeopen>>
    BY <1>3 DEF read_byte
  <2>2. readopen
    BY <1>0, <2>1 DEF TypeOK, Control, Inside, Ends, Closing
  <2>3. q # <<>> /\ q' = Tail(q)
    BY <1>0, <2>1, GetByte
  <2> QED BY <2>1, <2>2, <2>3 DEF Abs!Get
<1>4. ASSUME NEW p \in Procs, pipeclose(p, Writers) PROVE Abs!CloseWrite
  <2>1. writeopen /\ Writers # Readers
    BY <1>0, <1>4 DEF TypeOK, Ends, Closing, pipeclose
  <2>2. writeopen' = FALSE /\ readopen' = readopen /\ UNCHANGED <<data, nread, nwrite>>
    BY <1>0, <1>4, <2>1 DEF TypeOK, pipeclose
  <2> QED BY <2>1, <2>2 DEF Abs!CloseWrite, q
<1>5. ASSUME NEW p \in Procs, pipeclose(p, Readers) PROVE Abs!CloseRead
  <2>1. readopen /\ Writers # Readers
    BY <1>0, <1>5 DEF TypeOK, Ends, Closing, pipeclose
  <2>2. readopen' = FALSE /\ writeopen' = writeopen /\ UNCHANGED <<data, nread, nwrite>>
    BY <1>0, <1>5, <2>1 DEF TypeOK, pipeclose
  <2> QED BY <2>1, <2>2 DEF Abs!CloseRead, q
<1>6. ASSUME NEW p \in Procs,
             \/ call(p) \/ write_fail(p) \/ write_full(p) \/ write_done(p)
             \/ read_empty(p) \/ read_start(p) \/ read_done(p)
             \/ sleep(p) \/ resume(p) \/ kill(p)
             \/ fileclose(p, Writers) \/ fileclose(p, Readers)
      PROVE  UNCHANGED pipeVars
  BY <1>6 DEF call, write_fail, write_full, write_done, read_empty, read_start,
              read_done, sleep, resume, kill, fileclose
<1>7. CASE UNCHANGED vars
  BY <1>7, <1>1 DEF vars, pipeVars
<1>8. ASSUME NEW p \in Procs,
             \/ KernelStep(p) \/ call(p) \/ kill(p)
             \/ fileclose(p, Writers) \/ fileclose(p, Readers)
      PROVE  [Abs!PNext]_(Abs!pvars)
  BY <1>8, <1>1, <1>2, <1>3, <1>4, <1>5, <1>6 DEF KernelStep, Abs!PNext
<1> QED BY <1>7, <1>8 DEF Next

\* The ring buffer with its wrapping counters implements the bounded queue of
\* PipeSpec for any number of readers and writers.
THEOREM Refinement == Spec => FIFO
<1>1. Init => Abs!PInit
  <2>1. ASSUME Init PROVE (nwrite - nread) % W = 0
    BY <2>1 DEF Init
  <2> QED BY <2>1 DEF Init, Abs!PInit, q
<1> QED BY <1>1, Inductive, RefinementStep, PTL DEF Spec, FIFO, Abs!Spec
=============================================================================
