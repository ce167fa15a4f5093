-------------------------------- MODULE Log --------------------------------
(***************************************************************************)
(* The write-ahead log of the labo2 file system (kernel/log.c) over the    *)
(* buffer cache (kernel/bio.c) and a disk that survives crashes.           *)
(*                                                                         *)
(* Processes run file system operations: begin_op(), some log_write()s of  *)
(* at most OPBLOCKS different blocks, end_op().  A write whose copy from   *)
(* the user fails half-way changes a block without log_write() (writei).   *)
(* The last one to end commits.  A crash may come between any two block    *)
(* writes, of a commit or of a recovery; a block write itself is atomic.   *)
(* The in-memory log header log.lh is the sequence lh; the one on disk is  *)
(* dhead.                                                                  *)
(*                                                                         *)
(* log.lock is held only for whole steps of the model; sleep(&log) and     *)
(* wakeup(&log) under it are atomic, which is what Semaphore establishes.  *)
(***************************************************************************)
EXTENDS Integers, Sequences, FiniteSets

CONSTANTS Proc,          \* processes that make file system calls
          Block,         \* home blocks of the file system
          Val,           \* contents of a block; 0 is what the disk starts with
          MAXOPBLOCKS,   \* param.h: blocks begin_op() reserves for an operation
          OPBLOCKS,      \* blocks the longest operation of sysfile.c and file.c writes
          LOGSIZE,       \* param.h: length of logheader.block
          nlog,          \* superblock: blocks of the on-disk log, header included
          MaxCrashes,    \* bound: crashes
          NoVal          \* contents of a buffer that is not cached

\* One operation fits in the log, and operations leave so much of what is reserved
\* for them that neither the header nor the log on disk is ever full: log_write()
\* panics then, even if the block is already in the log.  The kernel has 10, 30 and
\* nlog 30, so the operations, filewrite() with 7 the longest, may write 8 blocks.
ASSUME LogAssumption ==
  /\ 0 \in Val /\ NoVal \notin Val /\ IsFiniteSet(Proc)
  /\ MAXOPBLOCKS \in Nat \ {0} /\ LOGSIZE \in Nat /\ MAXOPBLOCKS <= LOGSIZE
  /\ nlog \in Nat /\ MaxCrashes \in Nat
  /\ OPBLOCKS \in Nat /\ OPBLOCKS < MAXOPBLOCKS
  /\ LOGSIZE - MAXOPBLOCKS + OPBLOCKS < nlog - 1

VARIABLES disk, dlog, dhead,       \* on disk: home blocks, log blocks, log header
          cache, pinned,           \* buffer cache: contents; refcnt raised by bpin
          lh,                      \* log.lh
          outstanding, committing, \* log.outstanding, log.committing
          pc,                      \* where a process is
          wrote,                   \* blocks the current operation has written
          tail,                    \* loop variable of write_log and install_trans
          boot,                    \* recovery: where recover_from_log() is, "up" after
          panic,                   \* panic() was called
          crashes                  \* counter for the bound

diskVars == <<disk, dlog, dhead>>
vars == <<disk, dlog, dhead, cache, pinned, lh, outstanding, committing, pc, wrote, tail,
          boot, panic, crashes>>

n == Len(lh)
logged == {lh[i] : i \in 1..n}

\* bread(): the cached contents, or what is on the disk.
bread(b) == IF cache[b] = NoVal THEN disk[b] ELSE cache[b]

goto(p, l) == pc' = [pc EXCEPT ![p] = l]

\* wakeup(&log): the sleepers in begin_op() go round their loop again.
wakeup(f) == [p \in Proc |-> IF f[p] = "asleep" THEN "begin" ELSE f[p]]

----------------------------------------------------------------------------
\* A formatted disk, and a machine that has just been switched on.
Init ==
  /\ disk = [b \in Block |-> 0]
  /\ dlog = [i \in 1..LOGSIZE |-> 0]
  /\ dhead = <<>>
  /\ cache = [b \in Block |-> NoVal]
  /\ pinned = {}
  /\ lh = <<>>
  /\ outstanding = 0
  /\ committing = FALSE
  /\ pc = [p \in Proc |-> "idle"]
  /\ wrote = [p \in Proc |-> {}]
  /\ tail = 1
  /\ boot = "read_head"
  /\ panic = FALSE
  /\ crashes = 0

Up == boot = "up" /\ ~panic

----------------------------------------------------------------------------
\* recover_from_log(), one disk access at a time.
read_head ==
  /\ boot = "read_head" /\ boot' = "install"
  /\ lh' = dhead /\ tail' = 1
  /\ UNCHANGED <<diskVars, cache, pinned, outstanding, committing, pc, wrote, panic, crashes>>

\* install_trans(1): log block tail goes to its home block.
recover_install ==
  /\ boot = "install" /\ tail <= n
  /\ disk' = [disk EXCEPT ![lh[tail]] = dlog[tail]]
  /\ cache' = [cache EXCEPT ![lh[tail]] = dlog[tail]]
  /\ tail' = tail + 1
  /\ UNCHANGED <<dlog, dhead, pinned, lh, outstanding, committing, pc, wrote, boot, panic, crashes>>

\* log.lh.n = 0; write_head().
recover_erase ==
  /\ boot = "install" /\ tail > n /\ boot' = "up"
  /\ lh' = <<>> /\ dhead' = <<>> /\ tail' = 1
  /\ UNCHANGED <<disk, dlog, cache, pinned, outstanding, committing, pc, wrote, panic, crashes>>

----------------------------------------------------------------------------
\* A begin_op() that does not count the blocks already in the log.
has_space_no_n == (outstanding + 1) * MAXOPBLOCKS <= LOGSIZE

has_space == n + (outstanding + 1) * MAXOPBLOCKS <= LOGSIZE

\* A begin_op() that lets an operation into a commit.
may_begin_in_commit == has_space

may_begin == ~committing /\ has_space

\* begin_op(), first or after a wakeup: enter or sleep(&log, &log.lock).
begin_op(p) ==
  /\ Up
  /\ pc[p] \in {"idle", "begin"}
  /\ \/ may_begin /\ outstanding' = outstanding + 1 /\ goto(p, "active")
     \/ ~may_begin /\ UNCHANGED outstanding /\ goto(p, "asleep")
  /\ wrote' = [wrote EXCEPT ![p] = {}]
  /\ UNCHANGED <<diskVars, cache, pinned, lh, committing, tail, boot, panic, crashes>>

\* A log_write() without log absorption.
absorbed_never(b) == FALSE

\* Log absorption: the block is already in the transaction.
absorbed(b) == b \in logged

\* The operation changes a block it has locked and calls log_write().
log_write(p, b, v) ==
  /\ Up /\ pc[p] = "active"
  /\ Cardinality(wrote[p] \cup {b}) <= OPBLOCKS
  /\ cache' = [cache EXCEPT ![b] = v]
  /\ wrote' = [wrote EXCEPT ![p] = @ \cup {b}]
  /\ panic' = (n >= LOGSIZE \/ n >= nlog - 1 \/ outstanding < 1)
  /\ \/ (absorbed(b) \/ panic') /\ UNCHANGED <<lh, pinned>>
     \/ ~absorbed(b) /\ ~panic' /\ lh' = Append(lh, b) /\ pinned' = pinned \cup {b}
  /\ UNCHANGED <<diskVars, outstanding, committing, pc, tail, boot, crashes>>

\* writei(): either_copyin() fails after it has changed a part of the block, and
\* the buffer is let go without log_write().
writei_fails(p, b, v) ==
  /\ Up /\ pc[p] = "active"
  /\ cache' = [cache EXCEPT ![b] = v]
  /\ UNCHANGED <<diskVars, pinned, lh, outstanding, committing, pc, wrote, tail, boot, panic, crashes>>

\* end_op(): the last operation starts the commit, any other wakes the waiters.
end_op(p) ==
  /\ Up /\ pc[p] = "active"
  /\ outstanding' = outstanding - 1
  /\ panic' = committing
  /\ \/ /\ outstanding' = 0
        /\ committing' = TRUE
        /\ goto(p, IF n > 0 THEN "write_log" ELSE "committed")
     \/ /\ outstanding' # 0
        /\ pc' = wakeup([pc EXCEPT ![p] = "idle"])
        /\ UNCHANGED committing
  /\ tail' = 1
  /\ UNCHANGED <<diskVars, cache, pinned, lh, wrote, boot, crashes>>

\* commit(), write_log(): one cached block goes to the log.
write_log(p) ==
  /\ Up /\ pc[p] = "write_log" /\ tail <= n
  /\ dlog' = [dlog EXCEPT ![tail] = bread(lh[tail])]
  /\ tail' = tail + 1
  /\ UNCHANGED <<disk, dhead, cache, pinned, lh, outstanding, committing, pc, wrote, boot, panic, crashes>>

\* A commit() that writes the header before the log blocks.
write_head_early(p) ==
  /\ Up /\ pc[p] = "write_log" /\ dhead # lh
  /\ dhead' = lh
  /\ UNCHANGED <<disk, dlog, cache, pinned, lh, outstanding, committing, pc, wrote, tail, boot, panic, crashes>>

\* commit(), write_head(): the commit point.
write_head(p) ==
  /\ Up /\ pc[p] = "write_log" /\ tail > n /\ goto(p, "install")
  /\ dhead' = lh /\ tail' = 1
  /\ UNCHANGED <<disk, dlog, cache, pinned, lh, outstanding, committing, wrote, boot, panic, crashes>>

\* commit(), install_trans(0): one log block goes home and is unpinned.
install_trans(p) ==
  /\ Up /\ pc[p] = "install" /\ tail <= n
  /\ disk' = [disk EXCEPT ![lh[tail]] = dlog[tail]]
  /\ cache' = [cache EXCEPT ![lh[tail]] = dlog[tail]]
  /\ pinned' = pinned \ {lh[tail]}
  /\ tail' = tail + 1
  /\ UNCHANGED <<dlog, dhead, lh, outstanding, committing, pc, wrote, boot, panic, crashes>>

\* commit(): log.lh.n = 0; write_head().
erase_head(p) ==
  /\ Up /\ pc[p] = "install" /\ tail > n /\ goto(p, "committed")
  /\ lh' = <<>> /\ dhead' = <<>> /\ tail' = 1
  /\ UNCHANGED <<disk, dlog, cache, pinned, outstanding, committing, wrote, boot, panic, crashes>>

\* An end_op() that does not wake the waiters after the commit.
commit_done_silent(p) ==
  /\ Up /\ pc[p] = "committed"
  /\ committing' = FALSE
  /\ goto(p, "idle")
  /\ UNCHANGED <<diskVars, cache, pinned, lh, outstanding, wrote, tail, boot, panic, crashes>>

\* end_op() after the commit.
commit_done(p) ==
  /\ Up /\ pc[p] = "committed"
  /\ committing' = FALSE
  /\ pc' = wakeup([pc EXCEPT ![p] = "idle"])
  /\ UNCHANGED <<diskVars, cache, pinned, lh, outstanding, wrote, tail, boot, panic, crashes>>

----------------------------------------------------------------------------
\* bget() recycles a buffer nobody has a reference to.
evict(b) ==
  /\ Up
  /\ cache[b] # NoVal /\ b \notin pinned
  /\ cache' = [cache EXCEPT ![b] = NoVal]
  /\ UNCHANGED <<diskVars, pinned, lh, outstanding, committing, pc, wrote, tail, boot, panic, crashes>>

\* The machine stops; the disk survives, the memory does not.
crash ==
  /\ crashes < MaxCrashes /\ crashes' = crashes + 1
  /\ cache' = [b \in Block |-> NoVal]
  /\ pinned' = {}
  /\ lh' = <<>>
  /\ outstanding' = 0
  /\ committing' = FALSE
  /\ pc' = [p \in Proc |-> "idle"]
  /\ wrote' = [p \in Proc |-> {}]
  /\ tail' = 1
  /\ boot' = "read_head"
  /\ panic' = FALSE
  /\ UNCHANGED diskVars

----------------------------------------------------------------------------
Recovery == read_head \/ recover_install \/ recover_erase

\* The steps an operation is sure to take once it has begun.
OpStep(p) ==
  \/ pc[p] = "begin" /\ begin_op(p)
  \/ end_op(p)
  \/ write_log(p) \/ write_head(p) \/ install_trans(p) \/ erase_head(p) \/ commit_done(p)

Next ==
  \/ Recovery \/ crash
  \/ \E b \in Block : evict(b)
  \/ \E p \in Proc : OpStep(p) \/ (pc[p] = "idle" /\ begin_op(p))
  \/ \E p \in Proc, b \in Block, v \in Val : log_write(p, b, v) \/ writei_fails(p, b, v)

\* The processor goes on with the commit or the recovery it executes, and
\* every file system call reaches its end_op().
Fairness == WF_vars(Recovery) /\ \A p \in Proc : WF_vars(OpStep(p))

Spec == Init /\ [][Next]_vars /\ Fairness

----------------------------------------------------------------------------
\* The types of the variables; the header fits LOGSIZE blocks and, by log
\* absorption, lists none of them twice.
TypeOK ==
  /\ disk \in [Block -> Val] /\ dlog \in [1..LOGSIZE -> Val]
  /\ cache \in [Block -> Val \cup {NoVal}] /\ pinned \subseteq Block
  /\ lh \in Seq(Block) /\ n <= LOGSIZE /\ Cardinality(logged) = n
  /\ dhead \in Seq(Block) /\ Len(dhead) <= LOGSIZE
  /\ outstanding \in 0..Cardinality(Proc) /\ committing \in BOOLEAN
  /\ pc \in [Proc -> {"idle", "begin", "asleep", "active", "write_log", "install", "committed"}]
  /\ wrote \in [Proc -> SUBSET Block]
  /\ tail \in 1..(LOGSIZE + 1)
  /\ boot \in {"read_head", "install", "up"}
  /\ panic \in BOOLEAN

\* None of the panics of log.c is reached: "too big a transaction",
\* "log_write outside of trans", "log.committing".
NoPanic == ~panic

active == {p \in Proc : pc[p] = "active"}

\* The blocks the running operations may still add to the log.
reserved == {r \in active \X (1..MAXOPBLOCKS) : r[2] > Cardinality(wrote[r[1]])}

\* Space promised by begin_op() is kept: what is in the log and what the running
\* operations may still add to it fits in LOGSIZE blocks.
ReservationHolds == n + Cardinality(reserved) <= LOGSIZE

\* p gets into an operation.
enters(p) == pc[p] # "active" /\ pc'[p] = "active"

\* Who sleeps in begin_op() is woken, and his call returns once the others start
\* no more operations, unless the machine goes down.  While they do, they may get
\* in first every time: nothing in wakeup() or the scheduler prefers who waited.
BeginReturns ==
  \A p \in Proc :
    /\ pc[p] = "asleep" ~> pc[p] # "asleep"
    /\ <>[][\A q \in Proc \ {p} : ~enters(q)]_vars =>
         (pc[p] \in {"asleep", "begin"} ~> pc[p] \in {"active", "idle"})

\* The disk a crash now would leave after recovery.
durable ==
  [b \in Block |-> IF \E i \in 1..Len(dhead) : dhead[i] = b
                   THEN dlog[CHOOSE i \in 1..Len(dhead) : dhead[i] = b]
                   ELSE disk[b]]

\* The disk as the file system sees it through the buffer cache.
logical == IF boot = "up" THEN [b \in Block |-> bread(b)] ELSE durable

\* The blocks logged since the last commit.
fresh == IF dhead = <<>> THEN logged ELSE {}

Abs == INSTANCE LogSpec WITH LProcs <- Proc, LBlocks <- Block, LVals <- Val

\* Logging makes operations atomic under crashes: at any moment a crash leaves
\* the logged changes of whole operations, the committed ones, and recovery may
\* itself crash and start over.  A change that was not logged, which only a
\* failing writei() makes, goes with the block if that is logged, and else lasts
\* as long as the block's buffer.
AtomicDisk == Abs!Spec
=============================================================================
