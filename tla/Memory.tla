------------------------------- MODULE Memory -------------------------------
(***************************************************************************)
(* Physical pages and user memory of the labo2 kernel: the page allocator  *)
(* (kernel/kalloc.c), page tables (kernel/vm.c), exec (kernel/exec.c), and *)
(* what fork, wait and sbrk do with them (kernel/proc.c).                  *)
(*                                                                         *)
(* A system call is one step.  Two processes meet only at the free list,   *)
(* where one may take the page another was about to get; so every call is  *)
(* given the number of its kalloc()s that succeed, any number up to the    *)
(* pages that are free, and fails at the next.  What a page holds is left  *)
(* out.  Virtual addresses count units of which a page has PGSIZE.         *)
(***************************************************************************)
EXTENDS Integers, Sequences, FiniteSets, FiniteSetsExt

CONSTANTS Proc,      \* slots of the process table
          InitProc,  \* the first process
          NPAGE,     \* pages of kmem.freelist at boot
          R,         \* entries of a page-table page (512)
          PGSIZE,    \* units in a page
          W,         \* addresses are computed modulo W (2^64)
          Image,     \* bound: the files exec() is asked to run
          NArgs,     \* bound: the numbers of arguments
          Delta,     \* bound: the arguments of sbrk()
          Addr,      \* bound: the addresses user code passes
          MaxCalls   \* bound: the system calls made

Page == 1..NPAGE
TRAMPOLINE == R * R * R - 1
TRAPFRAME == TRAMPOLINE - 1

\* Page tables have more than one entry, the address space is larger than the
\* memory, and the first process fits.
ASSUME MemoryAssumption ==
  /\ R \in Nat /\ R > 1 /\ PGSIZE \in Nat \ {0} /\ NPAGE \in Nat /\ NPAGE > 6
  /\ NPAGE < TRAPFRAME /\ W \in Nat /\ W >= PGSIZE * R * R * R
  /\ InitProc \in Proc /\ NArgs \subseteq Nat /\ Delta \subseteq Int /\ Addr \subseteq 0..(W - 1) /\ MaxCalls \in Nat
  /\ \A img \in Image : /\ img.elf \in BOOLEAN /\ img.fits \in BOOLEAN
                        /\ img.segs \in Seq([vaddr : 0..(W - 1), memsz : 0..(W - 1), filesz : 0..(W - 1),
                                              short : BOOLEAN])

VARIABLES free,    \* kmem.freelist
          proc,    \* p->state, p->trapframe, p->pagetable, p->sz
          ret,     \* the last system call, whether it succeeded, and its number
          panic    \* the assertions that failed

vars == <<free, proc, ret, panic>>

\* A page table: the root, the page-table pages by level and index, and the
\* leaves by virtual page.
NoTable == [root |-> 0, node |-> <<>>, leaf |-> <<>>]
Unused == [state |-> "UNUSED", tf |-> 0, pt |-> NoTable, sz |-> 0]

PGROUNDUP(a) == (a + PGSIZE - 1) \div PGSIZE   \* in pages

----------------------------------------------------------------------------
(* A system call computes on a record: the free list, the kalloc()s that    *)
(* are left to it, the page it got last, the page table it works on and its *)
(* size, whether all went well so far, and the assertions that failed.  An  *)
(* operation on a record that is not ok does nothing.                       *)

begin(F, n, pt, sz) ==
  [free |-> F, left |-> n, mem |-> 0, pt |-> pt, sz |-> sz, ok |-> TRUE, panic |-> {}]

fail(m) == [m EXCEPT !.ok = FALSE]
assert(m, cond, msg) == [m EXCEPT !.panic = IF cond THEN @ ELSE @ \cup {msg}]

kalloc(m) ==
  IF ~m.ok THEN m
  ELSE IF m.left = 0 \/ m.free = {} THEN [m EXCEPT !.ok = FALSE, !.mem = 0]
  ELSE [m EXCEPT !.free = @ \ {Min(@)}, !.left = @ - 1, !.mem = Min(m.free)]

\* kfree() of the pages S, which are pages of memory: 0 stands for no page, and
\* for one of the kernel.
kfree(m, S) == [assert(m, S \subseteq Page, "kfree") EXCEPT !.free = @ \cup (S \cap Page)]

with(f, x, y) == [z \in DOMAIN f \cup {x} |-> IF z = x THEN y ELSE f[z]]
without(f, S) == [z \in DOMAIN f \ S |-> f[z]]

\* One level of walk() with alloc set; the page-table page does not become mem.
linked(k, n, mem) == IF k.ok THEN [k EXCEPT !.pt.node = with(@, n, k.mem), !.mem = mem] ELSE [k EXCEPT !.mem = mem]
walk_level(m, n) == IF ~m.ok \/ n \in DOMAIN m.pt.node THEN m ELSE linked(kalloc(m), n, m.mem)

below_maxva(m, v) == IF m.ok THEN assert(m, v <= TRAMPOLINE, "walk") ELSE m
walk(m, v) == walk_level(walk_level(below_maxva(m, v), <<1, v \div (R * R)>>), <<0, v \div R>>)

\* mappages() of one page v at pa; u is PTE_U.
mapped(w, v, pa, u) ==
  IF ~w.ok THEN w
  ELSE [assert(w, v \notin DOMAIN w.pt.leaf, "mappages: remap")
          EXCEPT !.pt.leaf = with(@, v, [pa |-> pa, u |-> u])]
mappages(m, v, pa, u) == mapped(walk(m, v), v, pa, u)

\* uvmunmap() of the pages vs, which are freed if do_free.
uvmunmap(m, vs, do_free) ==
  [kfree(assert(m, vs \subseteq DOMAIN m.pt.leaf, "uvmunmap: not mapped"),
         IF do_free THEN {m.pt.leaf[v].pa : v \in vs \cap DOMAIN m.pt.leaf} ELSE {})
     EXCEPT !.pt.leaf = without(@, vs)]

\* A uvmdealloc() that takes one page too many.
uvmdealloc_one_more(m, old, new) == IF new < old THEN uvmunmap(m, new..old, TRUE) ELSE m

\* uvmdealloc() from old to new, both in pages.
uvmdealloc(m, old, new) == IF new < old THEN uvmunmap(m, new..(old - 1), TRUE) ELSE m

\* A page v whose mapping failed is forgotten.
undone_lost(m, first, v) == IF m.ok THEN m ELSE uvmdealloc(m, v, first)

\* When page v could not be allocated or mapped, it is freed and so are the
\* pages from first on.
undone(m, first, v) == IF m.ok THEN m ELSE uvmdealloc(kfree(m, {m.mem} \ {0}), v, first)

\* kalloc() and mappages() of page v, the pages from first on being new.
mapmem(k, v, u) == mappages(k, v, k.mem, u)
newpage(m, first, v, u) == IF m.ok THEN undone(mapmem(kalloc(m), v, u), first, v) ELSE m

\* uvmalloc() from m.sz to new, which is then m.sz.  It returns 0 on error, so
\* that a new size of 0 is one too.
resized(m, new) == IF m.ok THEN [m EXCEPT !.sz = new, !.ok = new # 0] ELSE m
newpages(m, first, n) ==
  LET r[i \in 0..n] == IF i = 0 THEN m ELSE newpage(r[i - 1], first, first + i - 1, TRUE) IN r[n]
uvmalloc(m, new) ==
  IF ~m.ok \/ new < m.sz THEN m
  ELSE resized(newpages(m, PGROUNDUP(m.sz), PGROUNDUP(new) - PGROUNDUP(m.sz)), new)

\* freewalk(): the page-table pages go; no leaf may be left.
freewalk(m) ==
  [kfree(assert(m, m.pt.leaf = <<>>, "freewalk: leaf"),
         {m.pt.root} \cup {m.pt.node[n] : n \in DOMAIN m.pt.node}) EXCEPT !.pt = NoTable]

uvmfree(m, sz) == freewalk(uvmunmap(m, 0..(PGROUNDUP(sz) - 1), TRUE))

proc_freepagetable(m, sz) == uvmfree(uvmunmap(m, {TRAMPOLINE, TRAPFRAME}, FALSE), sz)

\* proc_pagetable(): uvmcreate(), the trampoline (page 0: it is kernel text)
\* and the trapframe tf.  When one cannot be mapped, what was is undone.
uvmcreate(k) == IF k.ok THEN [k EXCEPT !.pt = [NoTable EXCEPT !.root = k.mem]] ELSE k
pagetable_or_none(m) ==
  IF m.ok \/ m.pt = NoTable THEN m ELSE uvmfree(uvmunmap(m, {TRAMPOLINE} \cap DOMAIN m.pt.leaf, FALSE), 0)
proc_pagetable(m, tf) ==
  pagetable_or_none(mappages(mappages(uvmcreate(kalloc(m)), TRAMPOLINE, 0, FALSE), TRAPFRAME, tf, FALSE))

\* uvmcopy() of the pages of old below sz: what could be copied is undone.
present(m, old, v) == assert(m, v \in DOMAIN old.leaf, "uvmcopy: page not present")
uvmcopy(m, old, sz) ==
  LET r[i \in 0..PGROUNDUP(sz)] ==
        IF i = 0 THEN m ELSE newpage(present(r[i - 1], old, i - 1), 0, i - 1, old.leaf[i - 1].u)
  IN r[PGROUNDUP(sz)]

----------------------------------------------------------------------------
(* System calls *)

in_state(p, st) == proc[p].state = st /\ panic = {} /\ ret.n < MaxCalls

\* The call is over: m is what it leaves of the free list.
return(name, m, ok) == /\ free' = m.free
                       /\ panic' = panic \cup m.panic
                       /\ ret' = [call |-> name, ok |-> ok, n |-> ret.n + 1]

freeproc(m, tf, sz) ==
  IF m.pt = NoTable THEN kfree(m, {tf} \ {0}) ELSE proc_freepagetable(kfree(m, {tf} \ {0}), sz)

\* fork(): allocproc(), then uvmcopy().  When one fails np->sz is still 0.
allocproc(k) == [m |-> proc_pagetable(k, k.mem), tf |-> k.mem]
fork(p, q) ==
  /\ in_state(p, "RUNNABLE") /\ proc[q].state = "UNUSED"
  /\ \E n \in 0..Cardinality(free) :
     \E a \in {allocproc(kalloc(begin(free, n, NoTable, 0)))} :
     \E m \in {uvmcopy(a.m, proc[p].pt, proc[p].sz)} :
       \/ /\ ~m.ok
          /\ return("fork", freeproc(m, a.tf, 0), FALSE) /\ UNCHANGED proc
       \/ /\ m.ok
          /\ return("fork", m, TRUE)
          /\ proc' = [proc EXCEPT ![q] = [state |-> "RUNNABLE", tf |-> a.tf, pt |-> m.pt, sz |-> proc[p].sz]]

\* An exit()ed process keeps its memory until wait() calls freeproc().
exit(p) ==
  /\ in_state(p, "RUNNABLE") /\ p # InitProc
  /\ proc' = [proc EXCEPT ![p].state = "ZOMBIE"]
  /\ ret' = [call |-> "exit", ok |-> TRUE, n |-> ret.n + 1]
  /\ UNCHANGED <<free, panic>>

\* walkaddr(): va is in a user page that is mapped.
walkaddr(pt, va) == LET v == va \div PGSIZE IN v < TRAMPOLINE + 1 /\ v \in DOMAIN pt.leaf /\ pt.leaf[v].u

\* copyout(), copyin() and copyinstr() go page by page, to the first that is not
\* the user's: len units from va on.
copies(pt, va, len) == \A a \in va..(va + len - 1) : walkaddr(pt, a)

\* wait() by p: a status that cannot be copied out leaves the zombie.
wait(p, q, addr) ==
  /\ in_state(p, "RUNNABLE") /\ in_state(q, "ZOMBIE")
  /\ \/ /\ addr # 0 /\ ~copies(proc[p].pt, addr, 1)
        /\ return("wait", begin(free, 0, NoTable, 0), FALSE)
        /\ UNCHANGED proc
     \/ /\ addr = 0 \/ copies(proc[p].pt, addr, 1)
        /\ return("wait", freeproc(begin(free, 0, proc[q].pt, 0), proc[q].tf, proc[q].sz), TRUE)
        /\ proc' = [proc EXCEPT ![q] = Unused]

\* A size that does not wrap around.
newsz_signed(sz, n) == sz + n

\* sz + n in 64 bits.
newsz(sz, n) == (sz + n) % W

\* growproc(), k of whose kalloc()s succeed.  uvmdealloc() to a size that
\* wrapped around does nothing.
growproc(p, n, k) ==
  LET new == newsz(proc[p].sz, n)
      down == Min({new, proc[p].sz})
  IN IF n > 0 THEN uvmalloc(begin(free, k, proc[p].pt, proc[p].sz), new)
     ELSE uvmdealloc(begin(free, k, proc[p].pt, down), PGROUNDUP(proc[p].sz), PGROUNDUP(down))

sbrk(p, n) ==
  /\ in_state(p, "RUNNABLE")
  /\ \E k \in 0..Cardinality(free) :
     \E m \in {growproc(p, n, k)} :
       /\ return("sbrk", m, m.ok)
       /\ proc' = [proc EXCEPT ![p].pt = m.pt, ![p].sz = m.sz]

----------------------------------------------------------------------------
(* exec().  An image says whether it is found and has an ELF header, which  *)
(* segments it has, and whether the arguments fit on the stack.             *)

\* What the kernel refuses in a program header.
bad_segment(s) == s.memsz < s.filesz \/ (s.vaddr + s.memsz) % W < s.vaddr \/ s.vaddr % PGSIZE # 0

\* loadseg() finds every page of the segment; the file may be too short.
loadseg(m, s) ==
  IF ~m.ok THEN m
  ELSE [assert(m, s.filesz = 0 \/ \A v \in (s.vaddr \div PGSIZE)..(PGROUNDUP(s.vaddr + s.filesz) - 1) :
                                    v \in DOMAIN m.pt.leaf /\ m.pt.leaf[v].u,
               "loadseg: address should exist") EXCEPT !.ok = ~s.short]

segment(m, s) == IF bad_segment(s) THEN fail(m) ELSE loadseg(uvmalloc(m, s.vaddr + s.memsz), s)

\* The guard page and the stack, at the next page boundary.
uvmclear(m, v) == [assert(m, v \in DOMAIN m.pt.leaf, "uvmclear") EXCEPT !.pt.leaf[v].u = FALSE]
guarded(m) == IF m.ok THEN uvmclear(m, PGROUNDUP(m.sz) - 2) ELSE m
stack(m) == guarded(uvmalloc([m EXCEPT !.sz = PGROUNDUP(@) * PGSIZE], (PGROUNDUP(m.sz) + 2) * PGSIZE))

\* exec() from proc_pagetable() to the point where it commits: the record is
\* ok, or everything the new page table took was given back.
segments(m, segs) ==
  LET r[i \in 0..Len(segs)] == IF i = 0 THEN m ELSE segment(r[i - 1], segs[i]) IN r[Len(segs)]
pushed(m, img) == IF img.fits THEN m ELSE fail(m)
loaded(m) == IF m.ok \/ m.pt = NoTable THEN m ELSE proc_freepagetable(m, m.sz)
load(m, tf, img) ==
  IF img.elf THEN loaded(pushed(stack(segments(proc_pagetable(m, tf), img.segs)), img)) ELSE fail(m)

\* A page table that is freed before the new one is known to be complete.
replaced_early(m, pt, sz) == proc_freepagetable([m EXCEPT !.pt = pt], sz)

\* The old page table pt is freed once the new one is in place.
replaced(m, pt, sz) == IF m.ok THEN proc_freepagetable([m EXCEPT !.pt = pt], sz) ELSE m

\* fetchaddr(), fetchstr(): an argument at addr, of more than one unit, can be
\* read.
fetchstr(p, addr) == copies(proc[p].pt, addr, 2)

\* sys_exec() takes a page for every argument around the call of exec(), and
\* gives them back if it has too few or cannot fetch an argument.
first_pages(n) == IF n = 0 THEN {} ELSE {x \in free : Cardinality({y \in free : y <= x}) <= n}
exec(p, img, nargs) ==
  /\ in_state(p, "RUNNABLE")
  /\ \E n \in 0..Cardinality(free) :
       \/ /\ n < nargs \/ \E addr \in Addr : nargs > 0 /\ ~fetchstr(p, addr)
          /\ \E k \in 0..n :
               /\ k <= nargs
               /\ return("exec", kfree(begin(free \ first_pages(k), n - k, NoTable, 0), first_pages(k)), FALSE)
          /\ UNCHANGED proc
       \/ /\ n >= nargs
          /\ \E m \in {load(begin(free \ first_pages(nargs), n - nargs, NoTable, 0), proc[p].tf, img)} :
               /\ return("exec", kfree(replaced(m, proc[p].pt, proc[p].sz), first_pages(nargs)), m.ok)
               /\ proc' = IF m.ok THEN [proc EXCEPT ![p].pt = m.pt, ![p].sz = m.sz] ELSE proc

----------------------------------------------------------------------------
\* kinit() frees every page.
kinit == begin(Page, NPAGE, NoTable, 0)

\* uvmfirst() maps a page at address 0, for initcode.
uvmfirst(m) == mapmem(kalloc(m), 0, TRUE)

\* userinit(): the first process.
Init ==
  \E a \in {allocproc(kalloc(kinit))} :
  \E m \in {uvmfirst(a.m)} :
    /\ free = m.free
    /\ proc = [p \in Proc |-> IF p = InitProc
                              THEN [state |-> "RUNNABLE", tf |-> a.tf, pt |-> m.pt, sz |-> PGSIZE]
                              ELSE Unused]
    /\ ret = [call |-> "none", ok |-> TRUE, n |-> 0]
    /\ panic = m.panic

Next ==
  \E p \in Proc :
    \/ \E q \in Proc : fork(p, q) \/ \E addr \in Addr : wait(p, q, addr)
    \/ exit(p)
    \/ \E n \in Delta : sbrk(p, n)
    \/ \E img \in Image, n \in NArgs : exec(p, img, n)

Spec == Init /\ [][Next]_vars

----------------------------------------------------------------------------
\* The pages a process has, as many times as it has them.
nodes(p) == {proc[p].pt.node[n] : n \in DOMAIN proc[p].pt.node}
user_leaves(p) == {v \in DOMAIN proc[p].pt.leaf : v < TRAPFRAME}
user_pages(p) == {proc[p].pt.leaf[v].pa : v \in user_leaves(p)}
owned(p) == nodes(p) \cup user_pages(p) \cup ({proc[p].tf, proc[p].pt.root} \ {0})

\* The types of the variables.
TypeOK ==
  /\ free \subseteq Page
  /\ \A p \in Proc : /\ proc[p].state \in {"UNUSED", "RUNNABLE", "ZOMBIE"} /\ proc[p].sz \in 0..(W - 1)
                     /\ owned(p) \subseteq Page

\* No assertion of kalloc.c, vm.c or exec.c about a page fails, whichever kalloc()
\* found no page; those about alignment and the size of an argument are left out.
NoPanic == panic = {}

\* A page is on the free list or has one use in one process: nothing a failed
\* fork(), exec() or sbrk() took is lost, nothing is freed twice or shared.
PagesOwnedOnce ==
  /\ free \cup UNION {owned(p) : p \in Proc} = Page
  /\ \A p \in Proc : /\ owned(p) \cap free = {}
                     /\ \A q \in Proc \ {p} : owned(p) \cap owned(q) = {}
                     /\ proc[p].state # "UNUSED" =>
                          Cardinality(owned(p)) = 2 + Cardinality(DOMAIN proc[p].pt.node)
                                                  + Cardinality(user_leaves(p))

\* The mapped user pages are exactly those below p->sz, which is what the next
\* uvmcopy() and uvmfree() will walk; the trapframe is the process's own; and
\* the types are right: a size that wrapped is not one.
SizeMapped ==
  /\ TypeOK
  /\ \A p \in Proc : proc[p].state # "UNUSED" =>
       /\ DOMAIN proc[p].pt.leaf = 0..(PGROUNDUP(proc[p].sz) - 1) \cup {TRAPFRAME, TRAMPOLINE}
       /\ proc[p].pt.leaf[TRAPFRAME].pa = proc[p].tf

\* A fork(), exec() or wait() that fails changes nothing; an sbrk() that fails
\* keeps the size and the mapped pages (page-table pages may stay).
FailureUndone ==
  [][~ret'.ok => /\ ret'.call \in {"fork", "exec", "wait"} => free' = free /\ proc' = proc
                 /\ \A p \in Proc : proc'[p].sz = proc[p].sz /\ proc'[p].pt.leaf = proc[p].pt.leaf]_vars
=============================================================================
