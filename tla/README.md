# A TLA+ model of the labo2 kernel and of mybash

The repository holds two programs of an operating systems course:

* `labo2/`: the xv6 kernel for RISC-V with four system calls added by the
  group, `sem_open`, `sem_close`, `sem_up`, `sem_down`, and `pingpong`, a
  program that uses them;
* `kickstart/`: mybash, a small shell (commands, pipelines, redirections).

The project models the kernel from the semaphores down to the process table,
and across to the log, the buffer cache, the file system, memory, the devices
and pipes; and the two shells, mybash and the kernel's own `sh`.

## 1. Inventory

| component | source (`src/...`) | state | operations | what is hard | module |
|---|---|---|---|---|---|
| semaphores | `labo2/kernel/sysproc.c:97-208` | `value` and a spinlock per semaphore | open, close, up, down | test-then-sleep, wrap-around, reuse | `Semaphore`, `SemaphoreLife` |
| sleep/wakeup, spinlocks | `proc.c:545-592`, `spinlock.c` | `p->lock`, `p->state`, `p->chan` | sleep, wakeup, acquire, release | lost wakeups, locks held in `sched` | `SleepWakeup` |
| pingpong | `user/pingpong.c` | two processes, two semaphores | ping, pong | termination | `PingPong` |
| process table | `proc.c`, `trap.c`, `user/init.c` | the slots, `wait_lock`, processors | fork, exit, wait, kill, yield, scheduler | exit/wait races, stacks in use, orphans | `ProcTable`, `ProcKill` |
| log | `log.c` | header, reservation, log blocks on disk | begin_op, log_write, end_op, commit, recovery | crashes, space, waiting | `Log` |
| buffer cache, sleep locks | `bio.c`, `sleeplock.c` | buffers, reference counts, LRU list | bget, bread, bwrite, brelse | recycling, running out of buffers | `Bcache` |
| inodes, directories, blocks | `fs.c` | inode table, bitmap, directories | ialloc, iget, iput, itrunc, bmap, namex | references against links, freeing against reuse | `FileSys` |
| file table, system calls | `file.c`, `sysfile.c` | references, offsets, descriptors | open, dup, close, read, write, link, unlink... | partial failure inside a transaction, lock order | `FileSys`, `Pipe` |
| mkfs | `mkfs/mkfs.c` | the image | main | agreement with the kernel's layout | `Mkfs` |
| memory, exec | `kalloc.c`, `vm.c`, `exec.c`, `proc.c` | free list, page tables, sizes | fork, exec, wait, sbrk, copyin/out | undoing half of a call, wrap-around of sizes | `Memory` |
| disk driver | `virtio_disk.c` | descriptors, rings, requests in flight | rw, interrupt | interrupt before sleep, descriptors run out | `Devices` |
| console, uart, clock | `console.c`, `uart.c`, `trap.c` | two rings, ticks | read, write, sleep, interrupts | three indices that wrap, echo past the ring | `Devices` |
| pipes | `pipe.c`, `file.c` | ring, counters, open ends, references | read, write, close | wrap-around, stranding, free in use | `Pipe` |
| mybash | `kickstart/*.c` | pipelines, the parser, descriptors, children | parse, execute, builtins | failing calls, SIGCHLD, ends left open | `MyBash` |
| sh | `user/sh.c` | command trees, processes, descriptors | parse, runcmd | nested commands, wait(0), ends left open | `Sh` |

How they interact. The semaphore calls, pipes, log, disk and console all block
with `sleep(chan, lk)` and unblock with `wakeup(chan)`, which share the process
table's `p->lock` with `exit`, `wait`, `kill` and the scheduler. The file
system runs inside the log's transactions; the log uses the buffer cache, and
the cache the disk driver. `kill` reaches every sleeper. The shells use fork,
exit, wait, pipe and the descriptors.

`PROJECT.json` lists the hazards line by line, with the properties that cover
them; those without a property carry the reason.

## 2. Modules

    SleepWakeup ── Semaphore ──┬── SemaphoreLife      SemaphoreSpec  (abstract)
                               ├── PingPong
                               └── SemaphoreProofs
    ProcTable ──┬─ ProcKill
                └─ ProcTableProofs
    Log ────────── LogProofs                          LogSpec        (abstract)
    Bcache ─────── BcacheProofs                       BlockSpec      (abstract)
    Rings ──────── RingProofs
     ├─ Pipe ───── PipeProofs                         PipeSpec       (abstract)
     └─ Devices ── DevicesProofs                      ConsoleSpec    (abstract)
    FileSys        Mkfs        (the disk FileSys starts from)
    Memory ─────── MemoryProofs
    MyBash, Sh                 (composed in MCShells)
    *Proofs        theorems, checked by TLAPS
    MC*            instances for TLC

**Granularity.** A critical section of a spinlock that neither takes a second
lock nor blocks is one step, guarded by the lock being free. Where the code
nests locks or drops one, there are several. The finest interleaving is in
`SleepWakeup` and `Semaphore`: `sleep()` is four steps (take `p->lock`,
release the caller's lock, become SLEEPING and switch away, be switched back
in) and `wakeup()` visits one slot per step. What they establish, that a sleep
and a wakeup under the same lock behave as if atomic, is what allows the other
modules to treat them as single steps. In the same way `Bcache` establishes
that a sleep lock can be a guard, and `Log` that a transaction is atomic, which
`FileSys` relies on.

**SleepWakeup**: `holder[lk]` and `plock[p]` are the spinlocks, `state`, `chan`,
`killed` the fields of `struct proc`, `wi[p]` the loop variable of a `wakeup()`
in progress. **Semaphore** adds `value` (an int that wraps), `pc`, the argument
and the result of the last call. A semaphore at boot is `boot_value`: 0 when
nobody calls `sem_init()`, as in this kernel, -1 if somebody did; the constant
`SemInitCalled` covers both and the theorems hold for both. Where a killed
process leaves for good is `usertrap_exit`. **SemaphoreSpec** has the values
and who waits, nothing else. It promises what the code does: `up` and `down` act
on any semaphore, also on one that was never opened or was closed, because
`sys_sem_up` and `sys_sem_down` do not test for it. The list of checks still to be
written in `grade-lab2:58,60` ("semaphores cannot be used if not init", "closed
sempahores cannot be used") says otherwise.

**SemaphoreLife** remembers which semaphores are not open. **PingPong** conjoins
the statements of `pingpong.c` with the system calls they make; the file as
committed includes `kernel/sysproc.c` and is read for what it does.

**ProcTable**: `ncpu[p]` counts the processors on p's kernel stack, so sharing a
stack is visible. `p->lock` is held across `sched()`: `exit_zombie`, `yield` and
`wait_sleep` take it, `sched` gives it back when the processor has left the
stack. `fork` is four steps, `exit` three (plus `sched`), `wait` scans a slot per
step. Slot 1 is init; programs are assumed not to kill it (`exit` would panic).
Memory and files are left out, the failures of their allocation are not:
`fork_copy` can fail, and `wait_scan` can fail to copy the status out.
**ProcKill** remembers the pids passed to `kill`.

**Log**: `disk`, `dlog`, `dhead` survive `crash`; `cache`, `pinned`, `lh` and the
counters do not. Every block write is a step, and so is every step of
recovery. `evict` is `bget` recycling an unpinned buffer. A block in the cache
is changed and logged in one step because its buffer is locked meanwhile;
`writei_fails` is the one place that changes a block and does not log it
(`fs.c:522-525`). An operation logs at most `OPBLOCKS` distinct blocks, fewer than
the `MAXOPBLOCKS` that `begin_op` reserves; the on-disk log has `nlog` blocks, header
included. How many operations are begun is not bounded. **LogSpec** is a disk with
the logical contents, what a crash would leave, and the blocks logged since the
last commit (`fresh`): a commit makes those durable, and any other block may fall
back to what is durable, which matters only after a `writei_fails`.

**Bcache**: `blockno`, `valid`, `refcnt`, `data` are the fields of `struct buf`, `lru` is
the list, `locked` the sleep locks. `bget` and `brelse` are two steps each, because
they leave `bcache.lock` before they take the sleep lock, or the other way
round; the three outcomes of `bget`'s two loops are `bget_cached`, `bget_recycled`
and `bget_panics`. The clients may do with a buffer that they have locked whatever
the file system and the log do: change it, write it, pin it, unpin it once it is
written home, and let it go, also changed and neither written nor pinned, as
`writei` does when `either_copyin` fails. An element of `Proc` is one use of a
buffer. `bmap` and `itrunc` hold the buffer of the indirect block while `balloc` and
`bfree` take that of the bitmap, and the log's commit and recovery hold two as
well: such a process is two elements, which in the model go on in any order, its
own among them. **BlockSpec** is a store of blocks with an owner each, in which a
change lasts once it is written or logged, and a block that is neither owned
nor logged may fall back to what was last written; that is what `Log` assumes of
its cache (`bread`, `pinned`, `evict`).

**FileSys**: `dinode`, `ents` and `bitmap` are the disk, `itable` the inode table
with reference counts and sleep locks, `ftable`, `ofile` and `cwd` the files of
processes. A step of a process ends where it locks an inode or takes
`itable.lock`, so walks, `create`, `link`, `unlink`, `iput` and the second half of
a freeing `iput` interleave. Inodes to be put are kept in `puts` and put before
the process goes on. Names are model values; the offsets of files count blocks
and those of directories count entries; contents are left out. A call inside a
transaction sees the changes of the others in it, as in the kernel; crashes
are `Log`'s business. **Mkfs** gives the image of `mkfs.c` for a list of files as a
function; `MCFileSys` boots from it, after a `mkdir`.

**Memory**: the free list, and for each process its trapframe page, its page table
(root, inner pages, leaves) and its size. A system call is one step, because
processes meet only at the free list; so that the others' allocations still
count, each call gets the number of its `kalloc`s that succeed, anything up to
the pages free, and fails at the next one. Sizes and addresses wrap at `W`.
`exec` reads an image given by its segments, whole or broken in the ways the
code tests for. The loops of `uvmalloc`, `uvmcopy` and `exec` are recursive functions
of the number of turns. `MemoryAssumption` asks for more virtual pages than physical
ones and for the pages of the first process at boot, which the code takes for
granted (`userinit` and `uvmfirst` do not test `kalloc`).

**Rings**: what the ring buffers of `pipe.c`, `console.c` and `uart.c` have in
common, indices that grow, wrap at the width of their type and are reduced
modulo the size of the buffer: `ring(buf, N, W, a, b)` is the sequence of entries
between two of them.

**Devices**: the disk driver with its descriptors and two rings, the console's
input ring (r, w, e), the uart's transmit ring, and the clock; `hd` and `hu` are
the places of the two interrupt handlers. The devices themselves are external:
the disk serves requests in any order, the uart has a FIFO of which a write
never waits, and a key can be typed at any time. The three characters of an
erase are one echo. **ConsoleSpec** is a line under edition and a queue of what
was entered.

**Pipe**: one pipe whose ends are shared by `Writers` and `Readers` (through
`fork`). `pi->lock` is held from call to return except in `sleep()`; steps end
where `kill` can interfere. `fileclose` drops the reference under `ftable.lock`;
`pipeclose` is a step of its own. A process that holds both ends appears as a
writer and a reader. **PipeSpec** is a bounded queue with two ends.

**MyBash**: as committed, `execute.c` (lines 40, 54, 76, 129 and from 166 on) and
`command.c` (lines 133, 257, 295) hold the text of comments whose marks are gone,
and do not compile; they are read for what they do without that text. A line is a
sequence of tokens, because the lexer is an object file
behind `parser.h`. The parser is a function of the tokens; the execution of a
pipeline has a step for each `pipe`, `fork`, close and `waitpid`, and children run in
between. What the code does with a parser that it has destroyed is undefined,
and `main_undefined` allows a crash, an end of file, and going on. The kernel
below is Linux: with SIGCHLD ignored a child leaves no zombie, and `waitpid`
waits for it and then fails.

**Sh**: the recursive descent of `sh.c` over the tokens that `gettoken` cuts, and
`runcmd`, which walks the tree: descriptor tables with lowest-free allocation,
one step for each `fork`, `pipe`, redirection and `wait`. The programs that both
shells run either read their input up to its end, or just end.

## 3. Runs

Passing:

| run | instance | states | shows |
|---|---|---|---|
| `semaphore` | 3 processes, 1 semaphore, 2-bit int, 2 calls each | 276 000 | lock discipline, no lost wakeup, refinement of `SemaphoreSpec` with its liveness |
| `proctable` | 3 slots, 2 processors, pids up to 4, kill of a child and of pid 0 | 59 000 | stacks, orphans, missed exits, reaping |
| `log` | 2 processes, 2 blocks, any number of operations of up to 2 blocks, 2 crashes | 89 000 | atomicity under crashes, space, waiting |
| `bcache` | 3 processes, 3 blocks, 2 buffers, 2 reads each (symmetry in processes and blocks) | 332 000 | sound books, nothing written or logged is lost |
| `pipe` | 2 writers, 1 reader, ring of 2, counters modulo 4, 0 to 3 bytes a call | 156 000 | queue refinement, nobody stranded, close unblocks, free |
| `fs` | 2 processes, every pair of 8 programs of 2 to 5 calls, 4 inodes, 6 blocks, files of 2 blocks, fork at any point | 437 000 | counts, blocks, coherence, no panic, no deadlock |
| `memory` | 2 slots, 18 pages, page tables of 3 entries, 8 images, 8 calls | 42 700 | no page lost or shared, sizes, failures undone |
| `devices` | 3 processes, 7 descriptors, rings of 3 and 2, 167 scenarios of calls, keys and kills | 97 000 | requests, order of output, line discipline, everyone served |
| `shells` | mybash: every line of up to 4 of 6 tokens; sh: every line of up to 3 of 7 tokens and of 4 of 5 tokens; longer sessions; one pipe or fork fails | 156 000 | parsers against grammars, nothing left behind, everything ends |

Why the bounds are enough: three processes are a waiter, a waker and a third
that closes or kills between them; two-bit ints wrap within the calls made;
two processors and three slots let a parent and its child exit at once while
init waits; a second crash falls into the recovery from the first; two buffers
for three blocks are recycled while others wait for them; two writers fill a
ring of two twice over, so writers block, and the counters wrap at two ring
lengths. In `fs` the programs bear on the same names in one directory, the
inodes and the blocks both run out, a file needs its indirect block, and the
slots of the file table and the descriptors run out too. In `memory` every
allocation of every call fails in some behaviour, and a page table needs more
than one page at each level. In `devices` two requests take all descriptors but
one, so a third waits, and the indices wrap; every sequence of three keys is
more than the input ring holds after the first line. In `shells` a pipeline of
three commands has both a pipe that the parent must close and one that it has
just opened; three words fill argv, and a fourth is refused.

Properties, by run (the comment above each definition says more):

* `semaphore`. `TypeOK`. `LockDiscipline`: each process holds exactly the locks that
  its place in the code says, so the panics of `acquire`, `release` and `sched` are
  unreachable. `NoLostWakeup`: nobody sleeps, or has committed itself to sleep,
  on a free semaphore with a nonzero value. `AtomicSemaphore`: refinement, with
  the liveness that a waiter gets through if the value stays nonzero.
* `proctable`. `TypeOK`. `StackSafe`: a kernel stack has one processor, and is not
  freed or rerun before that processor has left it. `NoOrphan`: a live or zombie
  process has a parent that can still wait for it. `NoMissedExit`: a parent does
  not sleep in `wait` while it has a zombie. `ZombiesReaped`: what belongs to
  init is collected.
* `log`. `TypeOK`. `AtomicDisk`: the refinement of `LogSpec`. `ReservationHolds` and
  `NoPanic`: the space promised by `begin_op` is there (two blocks do not come near
  the end of the log; the theorem about `NoPanic` covers any number).
  `BeginReturns`: who sleeps in `begin_op` is woken, and his call returns once the
  others begin no more operations. While they do it may not return: nothing in
  `wakeup` or the scheduler gives a woken process precedence over one that calls
  `begin_op` anew, so it may find the log committing or reserved every time.
* `bcache`. `Transparent`: the refinement of `BlockSpec`: one owner at a time, and what
  was written or logged is what the next owner reads. `CacheSound`: a block is in
  one buffer at most; the reference count is what bget() and the log account
  for; a buffer that is used, waited for or pinned keeps its block; no lost
  wakeup in the sleep locks.
* `pipe`. `TypeOK`. `FIFO`: the refinement of `PipeSpec`. `NotStranded`: nobody is left
  asleep with something to do (with the one exception the code has, a killed
  writer's bytes). `NoUseAfterFree`. `CloseUnblocks`.
* `fs`. `NoPanic`: no assertion of `fs.c` and `sysfile.c` fails. `RefExact`: `ip->ref` is
  the number of pointers to the slot. `NamesCounted`: no name leads to a free
  inode and none has more names than links. `BlocksOwnedOnce`: the bitmap marks
  exactly the blocks that are in one place of one inode. `Coherent`: an inode has
  one slot, which agrees with the disk, and what is open is not freed.
  `NoDeadlock`: nobody waits in a circle for inodes.
* `memory`. `NoPanic`: no assertion about pages fails (`kfree` of what is no page, `walk`
  beyond `MAXVA`, remapping, unmapping what is not mapped, `freewalk` of a leaf,
  `uvmcopy`, `uvmclear` and `loadseg` of a missing page); those about alignment and
  the size of an argument are left out. `PagesOwnedOnce`: a page is free or has one use. `SizeMapped`: the
  pages mapped are those below `p->sz`. `FailureUndone`: a call that fails leaves
  memory as it was.
* `devices`. `DiskCorrect`: descriptors are free or in one chain, and a request that
  the driver takes for finished has moved the right data. `OutputInOrder`: what
  is written comes out once, in order, around the echo, and the uart's FIFO never
  holds two written characters. `LineDiscipline`: the
  refinement of `ConsoleSpec`. `AllServed`: every call returns, unless it waits for
  a line that nobody enters.
* `shells`. `PromptClean` (mybash): at the prompt no foreground child is left, no
  zombie, no open end of a pipe. `ParseCorrect` (mybash): what is executed is the
  pipeline of the grammar. `NothingLeft` (sh): what was not put in the background
  ends before its parent, and programs start with three descriptors.
  `ParseDecides` (sh): the parser gives the one tree of a line in the grammar, and
  panics if there is none. `BothEnd`: both shells and all they start end.

Violations, each a disagreement of the code with what the repository says:

| run | property | what the code does |
|---|---|---|
| `semaphore_life` | `ClosedCanBeOpened` | `sem_init` is never called and `sem_close` stores 0, while `sem_open` accepts only -1: a semaphore nobody uses cannot be opened |
| `pingpong` | `Terminates` | the result of `sem_open` is used as an id; both processes block |
| `kill_zero` | `OnlyNamedVictims` | `kill(0)` marks a free slot, whose next process is born killed |

How full the log may get is tighter than `begin_op` suggests. Its test admits
operations until the log is exactly full, but `log_write` panics when the log is
full even if the block is already in it, and `mkfs` makes the on-disk log of
`LOGSIZE` blocks with the header counted, one less than `begin_op` assumes. With
operations of `MAXOPBLOCKS` distinct blocks the panic would be reachable. The
longest operation of the kernel is `filewrite` with 7 blocks out of 10, so it is
not, and that is what `LogAssumption` asks: `LOGSIZE - MAXOPBLOCKS + OPBLOCKS` is
less than `nlog - 1`. The run keeps this relation (`nlog = LOGSIZE`).

One change of a block escapes the log. `writei` copies the caller's bytes straight
into the buffer (`fs.c:522`); the copy goes page by page, and when it fails at the
second page the buffer is let go changed, without `log_write`. The next reader sees
the change; it disappears when the buffer is recycled or the machine crashes, and
it becomes durable if an operation of this or a later transaction logs the same
block. `write` returns -1 then, and the offset and the size do not count the bytes of
this block, so nothing that the call reported is lost. The comment at `bio.c:10` ("After changing buffer data, call
bwrite to write it to disk") and the log's rule that `log_write` replaces it are
broken here, and only here in `fs.c`; `Bcache` and `Log` have the step, and `BlockSpec`
and `LogSpec` say what is left of the promise.

**Deadlock** is checked in `proctable` only: elsewhere processes may legally
block for ever (nobody ups, nobody writes, nobody types) or the bound on calls
lets them stop; `NoDeadlock`, `AllServed` and `BothEnd` say what must not happen.

**Fairness.** A processor in the kernel keeps executing, so the steps a process
takes by itself inside a system call are weakly fair; making a call, closing
or exiting is never assumed. In `ProcTable`, `yield` is weakly fair (timer
interrupts keep coming) and three actions of init are strongly fair: the
scheduler loop goes round the whole table, so a slot that is RUNNABLE again
and again is picked; a time slice is long enough for init to get on; and
`init.c` calls `wait` in an endless loop. In `Log` every operation that has begun
reaches its `end_op`, and a woken process tries again; nothing is assumed of who is
first. In `Devices` processes, both handlers, the devices and the
clock are weakly fair: a device finishes what it was given and raises its
interrupt. In `MyBash` and `Sh` the scheduler runs every process, and the programs
they start end when their input does.

## 4. Proofs

TLC checks the instances above; the theorems hold for every value of the
constants that the named assumptions allow. TLC evaluates each assumption in the
run of its module. Every proof has the same outline: an inductive invariant
`IInv` that is a conjunction of named parts, a lemma that `Init` implies it, a
lemma per part that a step preserves it, and `PTL` to put them together. A
refinement adds a lemma that every step maps to a step of the abstract
specification or to a stutter.

| module | theorems | for every |
|---|---|---|
| `SemaphoreProofs` | `TypeOK`, `LockDiscipline`, `NoLostWakeup`, refinement of `SemaphoreSpec` (its safety part) | number of processes and semaphores, width of int, initial values, both boot states |
| `ProcTableProofs` | `TypeOK`, `StackSafe`, `NoOrphan`, `NoMissedExit` | number of slots and processors |
| `LogProofs` | `TypeOK`, `NoPanic`, `ReservationHolds`, refinement of `LogSpec` | number of processes and blocks, sizes of the log, number of crashes |
| `BcacheProofs` | `CacheSound`, refinement of `BlockSpec` | number of processes, blocks and buffers |
| `PipeProofs` | `TypeOK`, `NotStranded`, `NoUseAfterFree`, refinement of `PipeSpec` | number of readers and writers, ring length, width of the counters |
| `MemoryProofs` | `NoPanic`, `PagesOwnedOnce`, `SizeMapped`, `FailureUndone` | number of processes and pages, sizes of a page and of a page-table page, width of addresses, images, arguments |
| `DevicesProofs` | `DiskCorrect`, `OutputInOrder`, refinement of `ConsoleSpec` | number of processes, blocks and descriptors, sizes of the rings, width of the indices, whatever is called, typed and killed |

**Semaphores.** `NoLostWakeup` is not inductive: it says nothing while the lock is
held, which is when a value changes. `WakeupPending` says that a process on its
way into `sleep()` with the semaphore's lock has seen value 0 and it is still
0; and that a process past that point can face a nonzero value only while
whoever changed it is in `wakeup()` with the lock, at or before its slot. The
waker cannot pass the slot of a process that is between releasing the lock
and being SLEEPING, because that process holds its own `p->lock`; that is where
`LockDiscipline` is needed.

**Process table.** `NoOrphan` needs `Family`, that a parent is alive and has not
begun to exit, which needs `Locks`: `wait_lock` is held from `reparent` to `sched`.
`NoMissedExit` needs `Waiting`, what `wait` knows of the slots its scan has passed
and what `exit` knows of the parent it has just woken; `wait_lock` keeps both
true. `Slots` keeps two `fork`s from filling one slot. The number of processors in
use is bounded by counting (`BusyStep`).

**Log.** `Counting` ties `log.outstanding` to the running operations and makes the
committer one and alone. `ReservationHolds` counts what the running operations
may still write on top of what is logged; `NoPanic` follows from it with
`LogAssumption`. For atomicity, `Pins` and `Cached` say that the newest contents of a
logged block are in the cache until they are installed, and that recovery leaves
in the cache what is on the disk (a block that is not logged may differ from the
disk at other times, because of `writei`); `LogBlocks` says that what is in the log blocks is what will be
installed, and `Header` that the header on disk is empty exactly when nothing is
to be recovered; the abstract disk is what recovery would make of the real one
(`DurableFacts`), so a crash is a step that loses only what is not committed, and
an interrupted recovery can be repeated.

**Buffer cache.** `RefcntExact`, in `CacheSound`, needs `Control`, that a buffer and
its sleep lock are held exactly where the code says. The heart of the refinement
is that a recycled buffer has neither an owner nor a pin, because its count is 0
and the count is exact: so recycling is `SForget` of its block, and can lose only what
nobody wrote or logged. That `bget`'s
second loop takes an unused buffer that is last in the list needs a least
element of a set of numbers (`LeastNat` of `RingProofs`, from the well-foundedness of
`<`; `alloc3_desc` needs it too).

**Rings.** `RingProofs` has the arithmetic once: equal indices modulo the width are
equal modulo the size because the size divides the width (`SameSlot`); fewer than
`N` entries apart, places differ (`OtherSlot`); adding at one end is `Append`, taking
from the other is `Tail`, going back is the sequence without its last entry
(`RingPut`, `RingGet`, `RingUnput`), and two adjacent pieces are a concatenation
(`RingJoin`).

**Pipe.** `Stranded` extends `NotStranded` to the moments when `pi->lock` is held:
whoever has given a sleeper a reason to go on still has its `wakeup()` ahead of it.
`Ends` says that the process on its way to `pipeclose` holds the last reference.

**Console and uart.** `Transmit` bounds the uart's FIFO: a character of `uartstart` and
an echo that both found it empty. It makes `OutputInOrder` inductive, as at most
one written character is between the ring and the line. `Input` says that the
three indices of the input ring are in order and that the line under edition
holds no newline; so the loop of control-u stops at `w` and nowhere else
(`KillLineIndex`), and backspace, storing, entering and reading are the operations of
`ConsoleSpec`.

**Disk driver.** The invariant follows a request from the available ring through the
disk to the used ring (`Transfers`): it is in at most one of the three, once, its
process has not been told, and `info[id].b` at its head still names that process.
`Chains` says that the chains of two requests share no descriptor and that none of
theirs is free. `Moved` says that the disk has made the transfer of every request in
the used ring and of every request that is finished; a later transfer cannot undo
it, because processes at the disk have different blocks (`Args`: each holds its
buffer's sleep lock). Every entry of a ring has three descriptors of its own
(`Counts`), so a ring never fills up and its indices never meet.

**Memory.** The invariant `MInv` says that the free list and the processes share out
the pages (`Shared`), that no assertion has failed, and of a process in use (`Live`)
that its table has each page in one place (`Tidy`), that its trapframe is outside
it, and that the leaves are the user pages from 0 up to the size, the trapframe and
the trampoline (`Shape`). `SizeMapped` alone is not inductive: freeing a process's
table is safe only because no page is in it twice and nobody else has it; and the
panics are excluded by `Shape`, since the code unmaps by size and panics at a page
that is missing or left over. The proof follows the code from `kalloc` up. Each
operator has a lemma saying what it exchanges between the free list and the table
it works on, that a failure gives back what it took, and that its assertions hold:
`walk` stays below `MAXVA` and `kfree` gets pages (`BelowMaxva`, `Walked`). The loops are treated by a
least counterexample (`NatUp`, from `LeastNat` of `RingProofs`): `Iterates` shows that
the function of the turns has values, and the lemmas about `newpages`, `uvmcopy` and
`segments` that each turn keeps the shape. A size never reaches the trapframe
because every user page is a page of memory and there are fewer of those (`Fits`,
a pigeonhole argument), so for a segment at a huge address `uvmalloc` runs out
of memory before it meets the trapframe's mapping or the end of the addresses. For boot, the trampoline and the trapframe share their
page-table pages (`SameNodes`), so `userinit` needs seven pages. Last, one lemma per
system call (`ForkStep`, `ExitStep`, `WaitStep`, `SbrkStep`, `ExecStep`).

Only model-checked:

* liveness (`AtomicSemaphore`'s fairness, `ZombiesReaped`, `BeginReturns`, `CloseUnblocks`,
  `AllServed`, `BothEnd`, `Terminates`), which is out of the prover's reach;
* `Sh` and the parser of `MyBash`, whose definitions are recursive, with
  `PromptClean`, `ParseCorrect`, `NothingLeft` and `ParseDecides`;
* `FileSys`, with `NoPanic`, `RefExact`, `NamesCounted`, `BlocksOwnedOnce`, `Coherent` and
  `NoDeadlock`: its steps cut a system call at every inode lock, and the invariant
  has to say, for each of those places, which references and names the call still
  owes.

## 5. Plan

To prove next: `RefExact` of `FileSys`, and on top of it `Coherent` and
`BlocksOwnedOnce`. `NoPanic` there also depends on how many inodes and files the
calls in flight can use, so it needs assumptions on the sizes of the tables.

## 6. Not modelled

* Interrupt enabling (`push_off`, `pop_off`) and memory ordering: locks are taken
  to be fences and to keep their own handler out, as the code makes them.
* The kernel's own page table, built once at boot; the assembly (register saving,
  page table switches, start-up); `printf.c`, `plic.c` and `ramdisk.c`.
* The panics about alignment and argument sizes (`uvmunmap: not aligned`,
  `mappages: size`, `uvmfirst: more than a page`, `kfree` of an unaligned address): a
  page is a number in `Memory`, and the callers pass whole pages.
* How many buffers the processes together hold, against `NBUF`; and what a crash
  leaves of a file that was unlinked while open: nothing in the code frees it.
* Two windows of `fs.c` that the code leaves open, and that need deeper trees or
  longer programs than the instance has: the inode that nobody frees when
  `create` fails between the two halves of an `iput`, and the `..` of a directory
  that was removed with its parent.
* mybash's ownership of strings and its conversions to strings for messages;
  `strextra.c`; the obfuscated program and the prebuilt lexer in `kickstart`.
* The xv6 user programs other than `sh`, `init` and `pingpong`, the C library,
  `usertests` and `grind`: sequential programs over the kernel.
