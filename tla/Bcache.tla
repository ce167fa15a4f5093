------------------------------- MODULE Bcache -------------------------------
(***************************************************************************)
(* The buffer cache of the labo2 kernel (kernel/bio.c) with the sleep      *)
(* locks of its buffers (kernel/sleeplock.c).                              *)
(*                                                                         *)
(* bcache.lock is held for whole steps of the model.  bget() and brelse()  *)
(* each touch the cache and a sleep lock in separate critical sections,    *)
(* and are two steps.  sleep() and wakeup() are atomic, which is what      *)
(* Semaphore establishes.                                                  *)
(*                                                                         *)
(* The clients are the file system and the log: a process that changes a   *)
(* buffer writes it (bwrite) or logs it (log_write, which pins it), and a  *)
(* logged block is unpinned once it is written home.  One client does not: *)
(* a writei() whose copy from the user fails half-way lets the buffer go   *)
(* changed, neither written nor logged.                                    *)
(*                                                                         *)
(* Proc stands for the uses of a buffer.  A process that has two buffers   *)
(* at a time (bmap() and itrunc() while balloc() or bfree() has the        *)
(* bitmap, write_log() and install_trans()) is two of its elements, which  *)
(* here go on independently: what holds for them holds for the process.    *)
(***************************************************************************)
EXTENDS Integers, FiniteSets

CONSTANTS Proc,      \* uses of the cache, by processes
          Block,     \* block numbers (of one device)
          Val,       \* contents of a block; 0 is what the disk starts with
          NBUF,      \* param.h: number of buffers
          MaxReads,  \* bound: calls of bread() by a process
          None       \* no process, no block, no buffer

\* There are buffers, and blocks start as zeros.
ASSUME BcacheAssumption ==
  /\ NBUF \in Nat \ {0} /\ MaxReads \in Nat /\ IsFiniteSet(Proc)
  /\ 0 \in Val /\ None \notin Proc /\ None \notin Block /\ None \notin 1..NBUF

VARIABLES disk,                            \* contents of the disk
          blockno, valid, refcnt, data,    \* fields of struct buf
          lru,                             \* the list: most recently used first
          locked,                          \* b->lock: the owner of the sleep lock
          pc, cur, want,                   \* a process's place, buffer, block
          pinned,                          \* blocks in the log's header
          panic,                           \* bget: no buffers
          reads                            \* calls of bread(), bounded by MaxReads

bufVars == <<blockno, valid, refcnt, data, lru>>
vars == <<disk, bufVars, locked, pc, cur, want, pinned, panic, reads>>

Buf == 1..NBUF

goto(p, l) == pc' = [pc EXCEPT ![p] = l]

----------------------------------------------------------------------------
\* binit(): each buffer goes to the front of the list; none caches a block.
Init ==
  /\ disk = [b \in Block |-> 0]
  /\ blockno = [k \in Buf |-> None]
  /\ valid = [k \in Buf |-> FALSE]
  /\ refcnt = [k \in Buf |-> 0]
  /\ data = [k \in Buf |-> 0]
  /\ lru = [k \in Buf |-> NBUF + 1 - k]
  /\ locked = [k \in Buf |-> None]
  /\ pc = [p \in Proc |-> "idle"]
  /\ cur = [p \in Proc |-> None]
  /\ want = [p \in Proc |-> None]
  /\ pinned = {}
  /\ panic = FALSE
  /\ reads = [p \in Proc |-> 0]

\* The buffers that hold block b.
cached(b) == {k \in Buf : blockno[k] = b}

\* A bget() that recycles a buffer nobody has locked.
unused_unlocked(k) == locked[k] = None

unused(k) == refcnt[k] = 0

\* The least recently used unused buffer.
victim == lru[CHOOSE i \in Buf : unused(lru[i]) /\ \A j \in (i + 1)..NBUF : ~unused(lru[j])]

\* A bget() that keeps b->valid when it recycles a buffer.
recycle_valid(k, b) ==
  /\ blockno' = [blockno EXCEPT ![k] = b]
  /\ refcnt' = [refcnt EXCEPT ![k] = 1]
  /\ UNCHANGED valid

\* Buffer k now stands for block b, not read yet.
recycle(k, b) ==
  /\ blockno' = [blockno EXCEPT ![k] = b]
  /\ valid' = [valid EXCEPT ![k] = FALSE]
  /\ refcnt' = [refcnt EXCEPT ![k] = 1]

\* bget(): the block is cached.
bget_cached(p, b) ==
  /\ \E k \in cached(b) :
       /\ refcnt' = [refcnt EXCEPT ![k] = @ + 1]
       /\ cur' = [cur EXCEPT ![p] = k]
  /\ goto(p, "acquiresleep")
  /\ UNCHANGED <<blockno, valid, panic>>

\* bget(): not cached; recycle a buffer.
bget_recycled(p, b) ==
  /\ cached(b) = {} /\ \E k \in Buf : unused(k)
  /\ recycle(victim, b)
  /\ cur' = [cur EXCEPT ![p] = victim] /\ goto(p, "acquiresleep")
  /\ UNCHANGED panic

\* bget(): no buffers.
bget_panics(p, b) ==
  /\ cached(b) = {} /\ \A k \in Buf : ~unused(k)
  /\ panic' = TRUE
  /\ UNCHANGED <<blockno, valid, refcnt, cur, pc>>

\* bread() calls bget(): find the block or recycle a buffer, or panic.
bget(p, b) ==
  /\ pc[p] = "idle" /\ reads[p] < MaxReads /\ reads' = [reads EXCEPT ![p] = @ + 1]
  /\ want' = [want EXCEPT ![p] = b]
  /\ bget_cached(p, b) \/ bget_recycled(p, b) \/ bget_panics(p, b)
  /\ UNCHANGED <<disk, data, lru, locked, pinned>>

\* bget() goes on to acquiresleep(), which sleeps while the buffer is locked.
acquiresleep(p) ==
  /\ pc[p] = "acquiresleep"
  /\ \/ locked[cur[p]] # None /\ goto(p, "asleep") /\ UNCHANGED locked
     \/ /\ locked[cur[p]] = None /\ locked' = [locked EXCEPT ![cur[p]] = p]
        /\ goto(p, IF valid[cur[p]] THEN "have" ELSE "read")
  /\ UNCHANGED <<disk, bufVars, cur, want, pinned, panic, reads>>

\* bread() reads the block with virtio_disk_rw(b, 0).
bread(p) ==
  /\ pc[p] = "read" /\ goto(p, "have")
  /\ data' = [data EXCEPT ![cur[p]] = disk[blockno[cur[p]]]]
  /\ valid' = [valid EXCEPT ![cur[p]] = TRUE]
  /\ UNCHANGED <<disk, blockno, refcnt, lru, locked, cur, want, pinned, panic, reads>>

\* The client changes the buffer it has, as writei() does, in whole or in part.
modify(p, v) ==
  /\ pc[p] \in {"have", "dirty"} /\ goto(p, "dirty")
  /\ data' = [data EXCEPT ![cur[p]] = v]
  /\ UNCHANGED <<disk, blockno, valid, refcnt, lru, locked, cur, want, pinned, panic, reads>>

\* bwrite(): the buffer goes to the disk.
bwrite(p) ==
  /\ pc[p] \in {"have", "dirty"} /\ goto(p, "have")
  /\ disk' = [disk EXCEPT ![blockno[cur[p]]] = data[cur[p]]]
  /\ UNCHANGED <<bufVars, locked, cur, want, pinned, panic, reads>>

\* bpin(), called by log_write() for a block that is not yet in the log.
bpin(p) ==
  /\ pc[p] = "dirty" /\ goto(p, "have")
  /\ pinned' = pinned \cup {want[p]}
  /\ refcnt' = [refcnt EXCEPT ![cur[p]] = IF want[p] \in pinned THEN @ ELSE @ + 1]
  /\ UNCHANGED <<disk, blockno, valid, data, lru, locked, cur, want, panic, reads>>

\* install_trans(): bwrite() of a logged block, then bunpin().
bunpin(p) ==
  /\ pc[p] = "have" /\ want[p] \in pinned
  /\ disk' = [disk EXCEPT ![blockno[cur[p]]] = data[cur[p]]]
  /\ pinned' = pinned \ {want[p]}
  /\ refcnt' = [refcnt EXCEPT ![cur[p]] = @ - 1]
  /\ UNCHANGED <<blockno, valid, data, lru, locked, pc, cur, want, panic, reads>>

\* releasesleep() wakes those who sleep on the buffer's lock.
woken(k) == {q \in Proc : pc[q] = "asleep" /\ cur[q] = k}

\* brelse() starts with releasesleep().  The buffer may be dirty: writei() calls it
\* when either_copyin() failed, without log_write().
releasesleep(p) ==
  /\ pc[p] \in {"have", "dirty"}
  /\ locked' = [locked EXCEPT ![cur[p]] = None]
  /\ pc' = [q \in Proc |-> CASE q = p -> "brelse"
                             [] q \in woken(cur[p]) -> "acquiresleep"
                             [] OTHER -> pc[q]]
  /\ UNCHANGED <<disk, bufVars, cur, want, pinned, panic, reads>>

dropped(k) == refcnt[k] - 1

\* The list with k at the head; the buffers that were before it move one back.
to_front(k) ==
  LET at == CHOOSE i \in Buf : lru[i] = k
  IN [i \in Buf |-> CASE i = 1 -> k [] i \in 2..at -> lru[i - 1] [] OTHER -> lru[i]]

\* brelse() then drops the reference; the last one moves the buffer to the
\* front of the list.
brelse(p) ==
  /\ pc[p] = "brelse" /\ goto(p, "idle")
  /\ LET k == cur[p] IN
       /\ refcnt' = [refcnt EXCEPT ![k] = dropped(k)]
       /\ lru' = IF dropped(k) = 0 THEN to_front(k) ELSE lru
  /\ cur' = [cur EXCEPT ![p] = None] /\ want' = [want EXCEPT ![p] = None]
  /\ UNCHANGED <<disk, blockno, valid, data, locked, pinned, panic, reads>>

----------------------------------------------------------------------------
Next ==
  /\ ~panic
  /\ \E p \in Proc :
       \/ \E b \in Block : bget(p, b)
       \/ acquiresleep(p) \/ bread(p)
       \/ \E v \in Val : modify(p, v)
       \/ bwrite(p) \/ bpin(p) \/ bunpin(p)
       \/ releasesleep(p) \/ brelse(p)

Spec == Init /\ [][Next]_vars

----------------------------------------------------------------------------
Labels == {"idle", "acquiresleep", "asleep", "read", "have", "dirty", "brelse"}

\* The types of the variables; the list holds every buffer once.
TypeOK ==
  /\ disk \in [Block -> Val]
  /\ blockno \in [Buf -> Block \cup {None}]
  /\ valid \in [Buf -> BOOLEAN]
  /\ refcnt \in [Buf -> Nat]
  /\ data \in [Buf -> Val]
  /\ lru \in [Buf -> Buf]
  /\ \A i, j \in Buf : lru[i] = lru[j] => i = j
  /\ \A k \in Buf : \E i \in Buf : lru[i] = k
  /\ locked \in [Buf -> Proc \cup {None}]
  /\ pc \in [Proc -> Labels]
  /\ cur \in [Proc -> Buf \cup {None}] /\ want \in [Proc -> Block \cup {None}]
  /\ pinned \subseteq Block /\ panic \in BOOLEAN

\* A block is never in two buffers, or two processes would each change their
\* own copy of it.
OneBuffer ==
  \A j, k \in Buf : blockno[j] = blockno[k] /\ blockno[j] # None => j = k

\* The processes that have buffer k.
users(k) == {p \in Proc : cur[p] = k}

\* b->refcnt is the number of processes between bget() and the end of brelse()
\* plus the log's pin: a count too low recycles a buffer in use, one too high
\* leaks a buffer until bget() panics.
RefcntExact ==
  \A k \in Buf :
    refcnt[k] = Cardinality(users(k)) + (IF blockno[k] \in pinned THEN 1 ELSE 0)

\* While a process uses a buffer, or sleeps for it, and while the log has its
\* block, the buffer stands for that block: it is not recycled under them.
NotRecycled ==
  /\ \A p \in Proc : cur[p] # None => blockno[cur[p]] = want[p]
  /\ \A b \in pinned : \E k \in Buf : blockno[k] = b /\ refcnt[k] > 0

\* Nobody sleeps for a buffer that is free: releasesleep() wakes the sleepers
\* and acquiresleep() tests under the same lock as it sleeps.
SleeperHasOwner ==
  \A p \in Proc : pc[p] = "asleep" => locked[cur[p]] \in Proc \ {p}

\* The cache keeps its books right across the two critical sections of bget()
\* and of brelse(): one buffer for a block, a count of exactly its users, no
\* buffer recycled under a user and no sleeper without an owner to wake it; and
\* the list of the buffers stays a permutation of them, with the other types.
CacheSound == TypeOK /\ OneBuffer /\ RefcntExact /\ NotRecycled /\ SleeperHasOwner

----------------------------------------------------------------------------
\* The contents of the blocks as a process that gets them would see them.
store ==
  [b \in Block |->
     IF \E k \in Buf : blockno[k] = b /\ valid[k]
     THEN data[CHOOSE k \in Buf : blockno[k] = b /\ valid[k]]
     ELSE disk[b]]

owner ==
  [b \in Block |->
     IF \E p \in Proc : pc[p] \in {"have", "dirty"} /\ want[p] = b
     THEN CHOOSE p \in Proc : pc[p] \in {"have", "dirty"} /\ want[p] = b
     ELSE None]

Abs == INSTANCE BlockSpec WITH SProcs <- Proc, SBlocks <- Block, SVals <- Val, SNone <- None

\* The cache is transparent: a block has one owner at a time, who alone changes
\* it, and what was written or logged is what the next owner reads, whatever was
\* recycled in between.  Only a change that was let go without bwrite() or
\* log_write() may be lost, and then the block is as it was last written.
Transparent == Abs!Spec
=============================================================================
