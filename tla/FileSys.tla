------------------------------ MODULE FileSys ------------------------------
(***************************************************************************)
(* The file system of the labo2 kernel above the log: inodes, directories, *)
(* block allocation and path names (kernel/fs.c), open files               *)
(* (kernel/file.c) and the system calls on them (kernel/sysfile.c).        *)
(*                                                                         *)
(* A step of a process is what it does between two points where another    *)
(* process can make a difference: the acquisition of an inode's sleep lock *)
(* (a guard: sleep and wakeup are the business of Bcache) and the sections *)
(* of itable.lock.  Every inode that a step lets go with iput() is left in *)
(* puts and put before the process goes on.  A process that is not in user *)
(* code is inside begin_op() ... end_op(), which Log makes atomic; only    *)
(* read() and fstat() run outside a transaction, in one step.              *)
(*                                                                         *)
(* Names are model values, offsets of files count blocks and offsets of    *)
(* directories count entries.  File contents are left out.                 *)
(***************************************************************************)
EXTENDS Integers, Sequences, FiniteSets, FiniteSetsExt, SequencesExt

CONSTANTS Proc,               \* processes
          Programs,           \* bound: the sequences of calls processes may make
          NINODES,            \* sb.ninodes: inode numbers are 1 .. NINODES - 1
          NINODE,             \* slots of the inode table
          NFILE, NOFILE,      \* slots of the file table, descriptors of a process
          NBLOCK,             \* data blocks are 1 .. NBLOCK
          NDIRECT, NINDIRECT, \* blocks of a file by direct and indirect address
          DPB,                \* directory entries in a block
          MaxWrite,           \* blocks filewrite() puts in one transaction
          NDEV,               \* major device numbers are 0 .. NDEV - 1
          Disk0,              \* the disk at the start: dinode, ents, bitmap
          First,              \* the process that runs at the start
          None                \* no process

ROOTINO == 1
Inum == 1..(NINODES - 1)
Block == 1..NBLOCK
Slot == 1..NINODE
File == 1..NFILE
Fd == 0..(NOFILE - 1)
MAXFILE == NDIRECT + NINDIRECT

\* The tables exist, and a directory's own two entries share a block.
ASSUME FileSysAssumption ==
  /\ NINODES \in Nat /\ NINODES > ROOTINO /\ NINODE \in Nat \ {0}
  /\ NFILE \in Nat \ {0} /\ NOFILE \in Nat \ {0} /\ NBLOCK \in Nat
  /\ NDIRECT \in Nat /\ NINDIRECT \in Nat /\ DPB \in Nat /\ DPB > 1
  /\ MaxWrite \in Nat \ {0} /\ None \notin Proc
  /\ NDEV \in Nat

VARIABLES dinode, ents, bitmap,   \* the disk: inodes, directory contents, free map
          itable,                 \* itable.inode[]
          ftable,                 \* ftable.file[]
          ofile,                  \* p->ofile[], 0 when closed
          cwd,                    \* p->cwd
          proc                    \* a process's place in its system call

disk == <<dinode, ents, bitmap>>
files == <<ftable, ofile>>
vars == <<disk, itable, files, cwd, proc>>

\* struct dinode: addrs are the data blocks in order, ind the indirect block.
FreeDinode == [type |-> "FREE", major |-> 0, nlink |-> 0, addrs |-> <<>>, ind |-> 0, size |-> 0]

NoCall == [op |-> "none"]
NoFile == [ref |-> 0, type |-> "NONE", ip |-> 0, off |-> 0, readable |-> FALSE, writable |-> FALSE]
Idle == [pc |-> "user", next |-> "user", call |-> NoCall, path |-> <<>>,
         dp |-> 0, ip |-> 0, puts |-> <<>>, freeing |-> "no", f |-> 0, n |-> 0, todo |-> <<>>]

----------------------------------------------------------------------------
(* Blocks *)

\* The map m once block b is marked in use; b is 0 when there was none.
taken(m, b) == m \cup ({b} \ {0})

\* balloc(): the first free block of the map m, 0 when there is none.
balloc(m) == IF m = Block THEN 0 ELSE Min(Block \ m)

\* bmap(): the dinode d and the map m once the block bn of the file exists;
\* ok says whether it does.  A file has no holes, so a missing block is the
\* one after the last.
bmap(d, m, bn) ==
  LET direct == bn < NDIRECT
      m1 == IF direct \/ d.ind # 0 THEN m ELSE taken(m, balloc(m))
      i1 == IF direct \/ d.ind # 0 THEN d.ind ELSE balloc(m)
      b  == IF direct \/ i1 # 0 THEN balloc(m1) ELSE 0
  IN IF bn < Len(d.addrs) THEN [ok |-> TRUE, d |-> d, m |-> m]
     ELSE [ok |-> b # 0,
           d  |-> [d EXCEPT !.ind = i1, !.addrs = IF b = 0 THEN @ ELSE Append(@, b)],
           m  |-> taken(m1, b)]

\* The blocks of a dinode, as many times as they are in it.
blocks(d) == d.addrs \o (IF d.ind = 0 THEN <<>> ELSE <<d.ind>>)

\* An itrunc() that forgets the indirect block.
freed_direct(d) == ToSet(d.addrs)

\* itrunc() frees the blocks of the file and of its indirect block.
freed(d) == ToSet(blocks(d))

\* bfree() panics on a block that is free, be it the second time in one itrunc().
bfree_panic(d, m) == ~(ToSet(blocks(d)) \subseteq m) \/ Cardinality(ToSet(blocks(d))) < Len(blocks(d))

truncated(d) == [d EXCEPT !.addrs = <<>>, !.ind = 0, !.size = 0]

----------------------------------------------------------------------------
(* Directories: ents[i] is the contents of directory i, with empty entries *)

NoEnt == [name |-> "", inum |-> 0]

\* dirlookup(): the positions of name in the entries e.
positions(e, name) == {s \in DOMAIN e : e[s].inum # 0 /\ e[s].name = name}

\* dirlink() writes to the first empty entry, or after the last, which may
\* take a block.  It fails if the name is there or the disk is full.
dirlink(d, e, m, name, i) ==
  LET empty == {s \in DOMAIN e : e[s].inum = 0}
      s == IF empty = {} THEN Len(e) + 1 ELSE Min(empty)
      b == bmap(d, m, (s - 1) \div DPB)
      new == [name |-> name, inum |-> i]
  IN IF positions(e, name) # {} THEN [ok |-> FALSE, d |-> d, e |-> e, m |-> m]
     ELSE [ok |-> b.ok,
           d  |-> IF b.ok /\ s > Len(e) THEN [b.d EXCEPT !.size = s] ELSE b.d,
           e  |-> IF ~b.ok THEN e ELSE IF s > Len(e) THEN Append(e, new) ELSE [e EXCEPT ![s] = new],
           m  |-> b.m]

\* isdirempty() looks at the entries after "." and "..".
isdirempty(e) == \A s \in DOMAIN e : s > 2 => e[s].inum = 0

----------------------------------------------------------------------------
(* The inode table; the operators take a table T and return one *)

\* iget(): the slot that holds inode i, or an empty one, or 0.
slot(T, i) ==
  LET in == {k \in Slot : T[k].ref > 0 /\ T[k].inum = i}
      empty == {k \in Slot : T[k].ref = 0}
  IN IF in # {} THEN Min(in) ELSE IF empty # {} THEN Min(empty) ELSE 0

idup(T, k) == [T EXCEPT ![k].ref = @ + 1]

\* An iget() that takes the recycled slot's inode for the one it wants.
iget_valid(T, i) ==
  LET k == slot(T, i) IN
  IF k = 0 THEN T
  ELSE IF T[k].ref > 0 THEN idup(T, k)
  ELSE [T EXCEPT ![k] = [@ EXCEPT !.inum = i, !.ref = 1]]

iget(T, i) ==
  LET k == slot(T, i) IN
  IF k = 0 THEN T
  ELSE IF T[k].ref > 0 THEN idup(T, k)
  ELSE [T EXCEPT ![k] = [@ EXCEPT !.inum = i, !.ref = 1, !.valid = FALSE]]

\* ilock() reads the inode from the disk unless it is valid.
ino(k) == IF itable[k].valid THEN itable[k].d ELSE dinode[itable[k].inum]

\* The table T with slot k locked by p (None: unlocked) and its inode d.
held(T, k, p, d) == [T EXCEPT ![k] = [@ EXCEPT !.valid = TRUE, !.d = d, !.lock = p]]

\* An iupdate() that is not called.
iupdate_none(D, i, d) == D

iupdate(D, i, d) == [D EXCEPT ![i] = d]

----------------------------------------------------------------------------
(* Control *)

\* Process p is at label l with nothing left to put.
at(p, l) == proc[p].pc = l /\ proc[p].puts = <<>>

\* The next system call of p, in user code, is op.
calls(p, op) == at(p, "user") /\ proc[p].todo # <<>> /\ Head(proc[p].todo).op = op

\* p goes to label l and lets the slots ks go, in that order.
goto(p, l, ks) ==
  proc' = [proc EXCEPT ![p] = [@ EXCEPT !.pc = l, !.puts = ks,
                                        !.dp = IF @ \in ToSet(ks) THEN 0 ELSE @,
                                        !.ip = IF @ \in ToSet(ks) THEN 0 ELSE @]]

\* The system call returns, once the slots ks are put.
return(p, ks) == proc' = [proc EXCEPT ![p] = [Idle EXCEPT !.todo = proc[p].todo, !.puts = ks]]

\* The labels whose step starts with ilock(dp), and with ilock(ip).
locks_dp == {"namex", "create_dir", "link_new", "unlink_dir"}
locks_ip == {"open_ino", "create_found", "create_init", "link_old", "link_bad", "unlink_ino", "chdir"}

\* ilock(k) succeeds: the sleep lock is free, and so is not the inode.
ilock(k) == itable[k].lock = None /\ ino(k).type # "FREE"

\* iunlockput(k) with nothing changed, and the call returns.
iunlockput_return(p, k) ==
  /\ itable' = held(itable, k, None, ino(k))
  /\ return(p, <<k>>)
  /\ UNCHANGED <<disk, files, cwd>>

\* dirlookup() in dp of the next name on the path: an inode number or 0.
dirlookup(p) ==
  LET e == ents[itable[proc[p].dp].inum]
      found == positions(e, Head(proc[p].path))
  IN IF found = {} THEN 0 ELSE e[Min(found)].inum

\* ialloc(): the first free inode of the disk, or 0.
ialloc == LET free == {i \in Inum : dinode[i].type = "FREE"} IN IF free = {} THEN 0 ELSE Min(free)

\* The labels after nameiparent(), which stops one name early.
of_parent(l) == l \in {"create_dir", "link_new", "unlink_dir"}
last(p) == of_parent(proc[p].next) /\ Len(proc[p].path) = 1

\* The inode that the step of p at its label gets with iget(), or 0.
igets(p) ==
  CASE at(p, "user") -> IF proc[p].todo # <<>> /\ Head(proc[p].todo).path.abs THEN ROOTINO ELSE 0
    [] at(p, "link_old") -> IF proc[p].call.new.abs THEN ROOTINO ELSE 0
    [] at(p, "namex") /\ ~last(p) -> dirlookup(p)
    [] at(p, "create_dir") -> IF dirlookup(p) # 0 THEN dirlookup(p) ELSE ialloc
    [] at(p, "unlink_dir") -> dirlookup(p)
    [] OTHER -> 0

----------------------------------------------------------------------------
(* iput() *)

\* No links and no other references.
last_ref(k) == itable[k].ref = 1 /\ itable[k].valid /\ itable[k].d.nlink = 0

putting(p, fr) == proc[p].puts # <<>> /\ proc[p].freeing = fr

\* Drop the reference, at once or after the inode was freed.
iput_drop(p) ==
  /\ \/ putting(p, "no") /\ ~last_ref(Head(proc[p].puts))
     \/ putting(p, "released")
  /\ itable' = [itable EXCEPT ![Head(proc[p].puts)].ref = @ - 1]
  /\ proc' = [proc EXCEPT ![p].puts = Tail(@), ![p].freeing = "no"]
  /\ UNCHANGED <<disk, files, cwd>>

\* acquiresleep() under itable.lock, which must not block.
iput_lock(p) ==
  /\ putting(p, "no") /\ last_ref(Head(proc[p].puts)) /\ itable[Head(proc[p].puts)].lock = None
  /\ itable' = [itable EXCEPT ![Head(proc[p].puts)].lock = p]
  /\ proc' = [proc EXCEPT ![p].freeing = "locked"]
  /\ UNCHANGED <<disk, files, cwd>>

\* itrunc(), type 0, iupdate(): from here ialloc() can take the inode.
iput_free(p) ==
  /\ putting(p, "locked")
  /\ LET k == Head(proc[p].puts)
         d == itable[k].d
     IN /\ ~bfree_panic(d, bitmap)
        /\ bitmap' = bitmap \ freed(d)
        /\ itable' = [itable EXCEPT ![k].d = FreeDinode]
        /\ dinode' = iupdate(dinode, itable[k].inum, FreeDinode)
        /\ ents' = [ents EXCEPT ![itable[k].inum] = <<>>]
  /\ proc' = [proc EXCEPT ![p].freeing = "freed"]
  /\ UNCHANGED <<files, cwd>>

\* A release that leaves the freed inode valid in the table.
invalidate_not(k) == [itable EXCEPT ![k].lock = None]

invalidate(k) == [itable EXCEPT ![k].valid = FALSE, ![k].lock = None]

\* ip->valid = 0; releasesleep().
iput_release(p) ==
  /\ putting(p, "freed")
  /\ itable' = invalidate(Head(proc[p].puts))
  /\ proc' = [proc EXCEPT ![p].freeing = "released"]
  /\ UNCHANGED <<disk, files, cwd>>

iput(p) == iput_drop(p) \/ iput_lock(p) \/ iput_free(p) \/ iput_release(p)

----------------------------------------------------------------------------
(* namex(): the walk holds one lock at a time and keeps a reference *)

\* The lookup failed: the call returns, but link() undoes its count.
failed(r, ks) ==
  IF r.next = "link_new" THEN [r EXCEPT !.pc = "link_bad", !.dp = 0, !.puts = ks]
  ELSE [Idle EXCEPT !.todo = r.todo, !.puts = ks]

\* Where the walk starts, and the table with the reference it takes.
start(T, p, path) == IF path.abs THEN slot(T, ROOTINO) ELSE cwd[p]
started(T, p, path) == IF path.abs THEN iget(T, ROOTINO) ELSE idup(T, cwd[p])

\* Process record r at the start k of the walk along path, then on to l.
walk(r, k, path, l) ==
  CASE path.names # <<>> -> [r EXCEPT !.pc = "namex", !.next = l, !.path = path.names, !.dp = k]
    [] path.names = <<>> /\ of_parent(l) -> failed([r EXCEPT !.next = l], <<k>>)
    [] OTHER -> [r EXCEPT !.pc = l, !.ip = k]

\* The names that follow the first.
skipelem(path) == Tail(path)

\* One element: ilock(), look up, iget(), iunlock(); iput() follows.
namex(p) ==
  LET k == proc[p].dp
      n == slot(itable, igets(p))
      rest == skipelem(proc[p].path)
  IN /\ at(p, "namex") /\ ilock(k)
     /\ \/ /\ ino(k).type # "DIR" \/ (~last(p) /\ dirlookup(p) = 0)
           /\ itable' = held(itable, k, None, ino(k))
           /\ proc' = [proc EXCEPT ![p] = failed(@, <<k>>)]
        \/ /\ ino(k).type = "DIR" /\ last(p)
           /\ itable' = held(itable, k, None, ino(k))
           /\ proc' = [proc EXCEPT ![p].pc = proc[p].next]
        \/ /\ ino(k).type = "DIR" /\ igets(p) # 0 /\ n # 0
           /\ itable' = held(iget(itable, igets(p)), k, None, ino(k))
           /\ proc' = [proc EXCEPT ![p] =
                IF rest = <<>> THEN [@ EXCEPT !.pc = proc[p].next, !.path = rest, !.dp = 0, !.ip = n, !.puts = <<k>>]
                ELSE [@ EXCEPT !.path = rest, !.dp = n, !.puts = <<k>>]]
     /\ UNCHANGED <<disk, files, cwd>>

\* begin_op() and the start of the first lookup of call c, which goes on at l.
call(p, c, l) ==
  LET k == start(itable, p, c.path) IN
  /\ k # 0
  /\ itable' = started(itable, p, c.path)
  /\ proc' = [proc EXCEPT ![p] = walk([Idle EXCEPT !.call = c, !.todo = Tail(proc[p].todo)], k, c.path, l)]
  /\ UNCHANGED <<disk, files, cwd>>

\* The label after the lookup.
after_lookup(c) ==
  CASE c.op = "open" -> IF "O_CREATE" \in c.mode THEN "create_dir" ELSE "open_ino"
    [] c.op \in {"mkdir", "mknod"} -> "create_dir"
    [] c.op = "link" -> "link_old"
    [] c.op = "unlink" -> "unlink_dir"
    [] c.op = "chdir" -> "chdir"

sys_path(p) ==
  \E op \in {"open", "mkdir", "mknod", "link", "unlink", "chdir"} :
    calls(p, op) /\ call(p, Head(proc[p].todo), after_lookup(Head(proc[p].todo)))

----------------------------------------------------------------------------
(* open(), create() *)

free_files == {f \in File : ftable[f].ref = 0}
free_fds(p) == {fd \in Fd : ofile[p][fd] = 0}

\* The rest of sys_open() with slot k locked: a file and a descriptor, or
\* neither.
open_file(p, k) ==
  LET d == ino(k)
      mode == proc[p].call.mode
      bad == \/ d.type = "DIR" /\ mode # {}
             \/ d.type = "DEV" /\ d.major \notin 0..(NDEV - 1)
             \/ free_files = {} \/ free_fds(p) = {}
      trunc == "O_TRUNC" \in mode /\ d.type = "FILE"
      d1 == IF trunc THEN truncated(d) ELSE d
      f == Min(free_files)
  IN IF bad THEN iunlockput_return(p, k)
     ELSE /\ trunc => ~bfree_panic(d, bitmap)
          /\ ftable' = [ftable EXCEPT ![f] =
               [ref |-> 1, type |-> IF d.type = "DEV" THEN "DEVICE" ELSE "INODE", ip |-> k, off |-> 0,
                readable |-> "O_WRONLY" \notin mode,
                writable |-> "O_WRONLY" \in mode \/ "O_RDWR" \in mode]]
          /\ ofile' = [ofile EXCEPT ![p][Min(free_fds(p))] = f]
          /\ bitmap' = IF trunc THEN bitmap \ freed(d) ELSE bitmap
          /\ dinode' = IF trunc THEN iupdate(dinode, itable[k].inum, d1) ELSE dinode
          /\ itable' = held(itable, k, None, d1)
          /\ return(p, <<>>)
          /\ UNCHANGED <<ents, cwd>>

\* sys_open() without O_CREATE locks what namei() found.
open_ino(p) == at(p, "open_ino") /\ ilock(proc[p].ip) /\ open_file(p, proc[p].ip)

\* The type with which the call creates an inode.
new_type(p) ==
  CASE proc[p].call.op = "mkdir" -> "DIR" [] proc[p].call.op = "mknod" -> "DEV" [] OTHER -> "FILE"

\* create() locks the parent.  The name is there, or the disk has no inode, or
\* ialloc() takes one while the parent stays locked.
create_dir(p) ==
  LET k == proc[p].dp
      n == slot(itable, igets(p))
  IN /\ at(p, "create_dir") /\ ilock(k) /\ ino(k).type = "DIR"
     /\ \/ igets(p) = 0 /\ iunlockput_return(p, k)
        \/ /\ dirlookup(p) # 0 /\ n # 0
           /\ itable' = held(iget(itable, igets(p)), k, None, ino(k))
           /\ proc' = [proc EXCEPT ![p].pc = "create_found", ![p].dp = 0, ![p].ip = n, ![p].puts = <<k>>]
           /\ UNCHANGED <<disk, files, cwd>>
        \/ /\ dirlookup(p) = 0 /\ ialloc # 0 /\ n # 0
           /\ dinode' = iupdate(dinode, ialloc, [FreeDinode EXCEPT !.type = new_type(p)])
           /\ itable' = held(iget(itable, ialloc), k, p, ino(k))
           /\ proc' = [proc EXCEPT ![p].pc = "create_init", ![p].ip = n]
           /\ UNCHANGED <<ents, bitmap, files, cwd>>

\* The name exists: only open() of a file or device may have it.
create_found(p) ==
  /\ at(p, "create_found") /\ ilock(proc[p].ip)
  /\ IF proc[p].call.op = "open" /\ ino(proc[p].ip).type # "DIR" THEN open_file(p, proc[p].ip)
     ELSE iunlockput_return(p, proc[p].ip)

\* create() locks the new inode, fills a directory and links the name; both
\* inodes are locked.  Whatever could not be written is undone by iput().
create_init(p) ==
  LET k == proc[p].ip
      kp == proc[p].dp
      i == itable[k].inum
      j == itable[kp].inum
      isdir == new_type(p) = "DIR"
      d == [ino(k) EXCEPT !.nlink = 1, !.major = proc[p].call.major]
      dot == IF isdir THEN dirlink(d, <<>>, bitmap, ".", i) ELSE [ok |-> TRUE, d |-> d, e |-> <<>>, m |-> bitmap]
      dots == IF isdir /\ dot.ok THEN dirlink(dot.d, dot.e, dot.m, "..", j) ELSE dot
      name == IF dots.ok THEN dirlink(itable[kp].d, ents[j], dots.m, Head(proc[p].path), i)
              ELSE [ok |-> FALSE, d |-> itable[kp].d, e |-> ents[j], m |-> dots.m]
      di == IF name.ok THEN dots.d ELSE [dots.d EXCEPT !.nlink = 0]
      dj == IF name.ok /\ isdir THEN [name.d EXCEPT !.nlink = @ + 1] ELSE name.d
  IN /\ at(p, "create_init") /\ ilock(k)
     /\ dinode' = iupdate(iupdate(dinode, i, di), j, dj)
     /\ ents' = [ents EXCEPT ![i] = dots.e, ![j] = name.e]
     /\ bitmap' = name.m
     /\ IF name.ok
        THEN itable' = held(held(itable, k, p, di), kp, None, dj) /\ goto(p, "created", <<kp>>)
        ELSE itable' = held(held(itable, k, None, di), kp, p, dj) /\ goto(p, "create_fail", <<k>>)
     /\ UNCHANGED <<files, cwd>>

\* create() returned the inode locked, to open() or to mkdir() and mknod().
created(p) ==
  /\ at(p, "created")
  /\ IF proc[p].call.op = "open" THEN open_file(p, proc[p].ip) ELSE iunlockput_return(p, proc[p].ip)

create_fail(p) == at(p, "create_fail") /\ iunlockput_return(p, proc[p].dp)

create_step(p) ==
  create_dir(p) \/ create_found(p) \/ create_init(p) \/ created(p) \/ create_fail(p)

----------------------------------------------------------------------------
(* link(), unlink(), chdir() *)

\* Count the link before its entry exists, then look up the new name.
link_old(p) ==
  LET k == proc[p].ip
      d == [ino(k) EXCEPT !.nlink = @ + 1]
      T == held(itable, k, None, d)
      new == proc[p].call.new
  IN /\ at(p, "link_old") /\ ilock(k)
     /\ \/ ino(k).type = "DIR" /\ iunlockput_return(p, k)
        \/ /\ ino(k).type # "DIR" /\ start(T, p, new) # 0
           /\ dinode' = iupdate(dinode, itable[k].inum, d)
           /\ itable' = started(T, p, new)
           /\ proc' = [proc EXCEPT ![p] = walk(@, start(T, p, new), new, "link_new")]
           /\ UNCHANGED <<ents, bitmap, files, cwd>>

\* dirlink() the new name.
link_new(p) ==
  LET k == proc[p].dp
      i == itable[k].inum
      l == dirlink(ino(k), ents[i], bitmap, Head(proc[p].path), itable[proc[p].ip].inum)
  IN /\ at(p, "link_new") /\ ilock(k) /\ ino(k).type = "DIR"
     /\ itable' = held(itable, k, None, l.d)
     /\ dinode' = iupdate(dinode, i, l.d)
     /\ ents' = [ents EXCEPT ![i] = l.e]
     /\ bitmap' = l.m
     /\ IF l.ok THEN return(p, <<k, proc[p].ip>>) ELSE goto(p, "link_bad", <<k>>)
     /\ UNCHANGED <<files, cwd>>

\* One link less, iupdate(), iunlockput(): the end of unlink() and of a link()
\* that failed.
drop_link(p, k) ==
  LET d == [ino(k) EXCEPT !.nlink = @ - 1] IN
  /\ itable' = held(itable, k, None, d)
  /\ dinode' = iupdate(dinode, itable[k].inum, d)
  /\ return(p, <<k>>)
  /\ UNCHANGED <<ents, bitmap, files, cwd>>

link_bad(p) == at(p, "link_bad") /\ ilock(proc[p].ip) /\ drop_link(p, proc[p].ip)

\* An unlink() that takes every name.
refused_none(name) == FALSE

refused(name) == name \in {".", ".."}

\* unlink() locks the parent and finds the entry; the parent stays locked.
unlink_dir(p) ==
  LET k == proc[p].dp
      dots == refused(Head(proc[p].path))
      n == slot(itable, igets(p))
  IN /\ at(p, "unlink_dir") /\ ilock(k)
     /\ \/ (dots \/ dirlookup(p) = 0) /\ iunlockput_return(p, k)
        \/ /\ ~dots /\ dirlookup(p) # 0 /\ n # 0
           /\ itable' = held(iget(itable, igets(p)), k, p, ino(k))
           /\ proc' = [proc EXCEPT ![p].pc = "unlink_ino", ![p].ip = n]
           /\ UNCHANGED <<disk, files, cwd>>

removable(d, e) == d.type # "DIR" \/ isdirempty(e)

\* unlink() locks what the entry names, and erases the entry.
unlink_ino(p) ==
  LET k == proc[p].ip
      kp == proc[p].dp
      d == ino(k)
      j == itable[kp].inum
      dj == [itable[kp].d EXCEPT !.nlink = IF d.type = "DIR" THEN @ - 1 ELSE @]
      s == Min(positions(ents[j], Head(proc[p].path)))
  IN /\ at(p, "unlink_ino") /\ ilock(k) /\ d.nlink >= 1
     /\ \/ /\ ~removable(d, ents[itable[k].inum])
           /\ itable' = held(itable, k, None, d)
           /\ goto(p, "unlink_bad", <<k>>)
           /\ UNCHANGED disk
        \/ /\ removable(d, ents[itable[k].inum])
           /\ ents' = [ents EXCEPT ![j][s] = NoEnt]
           /\ dinode' = iupdate(dinode, j, dj)
           /\ itable' = held(held(itable, k, p, d), kp, None, dj)
           /\ goto(p, "unlink_done", <<kp>>)
           /\ UNCHANGED bitmap
     /\ UNCHANGED <<files, cwd>>

unlink_bad(p) == at(p, "unlink_bad") /\ iunlockput_return(p, proc[p].dp)

\* The parent is put; now the count drops.
unlink_done(p) == at(p, "unlink_done") /\ drop_link(p, proc[p].ip)

link_step(p) ==
  link_old(p) \/ link_new(p) \/ link_bad(p)
  \/ unlink_dir(p) \/ unlink_ino(p) \/ unlink_bad(p) \/ unlink_done(p)

chdir(p) ==
  LET k == proc[p].ip IN
  /\ at(p, "chdir") /\ ilock(k)
  /\ \/ ino(k).type # "DIR" /\ iunlockput_return(p, k)
     \/ /\ ino(k).type = "DIR"
        /\ itable' = held(itable, k, None, ino(k))
        /\ cwd' = [cwd EXCEPT ![p] = k]
        /\ return(p, <<cwd[p]>>)
        /\ UNCHANGED <<disk, files>>

----------------------------------------------------------------------------
(* Calls on a descriptor, fork() and exit() *)

\* A call that is one step returns, once the slots ks are put.
returned(p, ks) == proc' = [proc EXCEPT ![p].todo = Tail(@), ![p].puts = ks]

\* p calls op on the open descriptor fd.
fdop(p, op, fd) == calls(p, op) /\ ofile[p][fd] # 0

\* argfd() fails, or fdalloc(), pipealloc() or the file's mode refuses.
sys_fail(p) ==
  /\ \/ \E op \in {"close", "dup", "read", "write", "fstat"} : calls(p, op) /\ \A fd \in Fd : ofile[p][fd] = 0
     \/ calls(p, "dup") /\ free_fds(p) = {}
     \/ calls(p, "pipe") /\ (Cardinality(free_files) < 2 \/ Cardinality(free_fds(p)) < 2)
     \/ \E fd \in Fd : fdop(p, "read", fd) /\ ~ftable[ofile[p][fd]].readable
     \/ \E fd \in Fd : fdop(p, "write", fd) /\ ~ftable[ofile[p][fd]].writable
  /\ returned(p, <<>>)
  /\ UNCHANGED <<disk, itable, files, cwd>>

\* A fileclose() that lets the inode go at every close.
closed_inode_always(f) == IF ftable[f].type = "PIPE" THEN <<>> ELSE <<ftable[f].ip>>

\* fileclose(): the inode to put, with the last reference to the file.
closed_inode(f) == IF ftable[f].ref > 1 \/ ftable[f].type = "PIPE" THEN <<>> ELSE <<ftable[f].ip>>

fileclose(f) == [ftable EXCEPT ![f] = IF @.ref > 1 THEN [@ EXCEPT !.ref = @ - 1] ELSE NoFile]

sys_close(p, fd) ==
  /\ fdop(p, "close", fd)
  /\ LET f == ofile[p][fd] IN ftable' = fileclose(f) /\ returned(p, closed_inode(f))
  /\ ofile' = [ofile EXCEPT ![p][fd] = 0]
  /\ UNCHANGED <<disk, itable, cwd>>

filedup(f) == [ftable EXCEPT ![f].ref = @ + 1]

sys_dup(p, fd) ==
  /\ fdop(p, "dup", fd) /\ free_fds(p) # {}
  /\ ofile' = [ofile EXCEPT ![p][Min(free_fds(p))] = ofile[p][fd]]
  /\ ftable' = filedup(ofile[p][fd])
  /\ returned(p, <<>>)
  /\ UNCHANGED <<disk, itable, cwd>>

\* pipealloc() and fdalloc() of both ends; a failure of any of them, or of the
\* copyout(), undoes the others.
sys_pipe(p) ==
  /\ calls(p, "pipe")
  /\ Cardinality(free_files) > 1 /\ Cardinality(free_fds(p)) > 1
  /\ LET rf == Min(free_files)
         wf == Min(free_files \ {rf})
         fd0 == Min(free_fds(p))
         fd1 == Min(free_fds(p) \ {fd0})
         end == [NoFile EXCEPT !.ref = 1, !.type = "PIPE"]
     IN /\ ftable' = [ftable EXCEPT ![rf] = [end EXCEPT !.readable = TRUE],
                                    ![wf] = [end EXCEPT !.writable = TRUE]]
        /\ ofile' = [ofile EXCEPT ![p][fd0] = rf, ![p][fd1] = wf]
  /\ returned(p, <<>>)
  /\ UNCHANGED <<disk, itable, cwd>>

\* The block at the offset of file f is missing, so that readi() allocates it.
hole(f) == LET d == ino(f.ip) IN d.type = "FILE" /\ f.off < d.size /\ f.off >= Len(d.addrs)

\* readi() of a block at off: how much it returns.  copyout() may fail.
readi(d, off) == IF off < d.size THEN {0, 1} ELSE {0}

\* fileread(): the file with its offset moved on.
fileread(f) == {[f EXCEPT !.off = @ + r] : r \in readi(ino(f.ip), f.off)}

\* read() and fstat() run outside a transaction.
sys_read(p, fd) ==
  /\ fdop(p, "read", fd)
  /\ LET f == ftable[ofile[p][fd]] IN
       /\ f.type = "INODE" /\ f.readable /\ ilock(f.ip) /\ ~hole(f)
       /\ itable' = held(itable, f.ip, None, ino(f.ip))
       /\ \E g \in fileread(f) : ftable' = [ftable EXCEPT ![ofile[p][fd]] = g]
  /\ returned(p, <<>>)
  /\ UNCHANGED <<disk, ofile, cwd>>

\* filestat() locks the inode to copy it; a pipe has none.
filestat(f) ==
  \/ f.type = "PIPE" /\ UNCHANGED itable
  \/ f.type # "PIPE" /\ ilock(f.ip) /\ itable' = held(itable, f.ip, None, ino(f.ip))

sys_fstat(p, fd) ==
  /\ fdop(p, "fstat", fd) /\ filestat(ftable[ofile[p][fd]])
  /\ returned(p, <<>>)
  /\ UNCHANGED <<disk, files, cwd>>

sys_write(p, fd) ==
  /\ fdop(p, "write", fd)
  /\ ftable[ofile[p][fd]].type = "INODE" /\ ftable[ofile[p][fd]].writable
  /\ proc' = [proc EXCEPT ![p] = [@ EXCEPT !.pc = "filewrite", !.f = ofile[p][fd], !.n = Head(proc[p].todo).n, !.todo = Tail(@)]]
  /\ UNCHANGED <<disk, itable, files, cwd>>

\* writei() of n blocks at off, copyin() failing after lim: each block is
\* mapped first, so the block of a failed copy stays in the file.
writei(d, off, n, lim) ==
  LET w[k \in 0..n] ==
        IF k = 0 THEN [ok |-> TRUE, d |-> d, m |-> bitmap, tot |-> 0]
        ELSE LET r == w[k - 1]
                 b == bmap(r.d, r.m, off + k - 1)
             IN IF ~r.ok THEN r
                ELSE [ok |-> b.ok /\ k <= lim, d |-> b.d, m |-> b.m,
                      tot |-> IF b.ok /\ k <= lim THEN k ELSE r.tot]
  IN w[n]

\* filewrite(): one transaction, then the next or the end.
filewrite(p) ==
  LET f == proc[p].f
      k == ftable[f].ip
      off == ftable[f].off
      n1 == Min({proc[p].n, MaxWrite})
  IN /\ at(p, "filewrite") /\ ilock(k)
     /\ \/ /\ off > ino(k).size \/ off + n1 > MAXFILE
           /\ itable' = held(itable, k, None, ino(k))
           /\ return(p, <<>>)
           /\ UNCHANGED <<dinode, bitmap, ftable>>
        \/ /\ off <= ino(k).size /\ off + n1 <= MAXFILE
           /\ \E lim \in 0..n1 :
                LET w == writei(ino(k), off, n1, lim)
                    d == [w.d EXCEPT !.size = Max({@, off + w.tot})]
                IN /\ itable' = held(itable, k, None, d)
                   /\ dinode' = iupdate(dinode, itable[k].inum, d)
                   /\ bitmap' = w.m
                   /\ ftable' = [ftable EXCEPT ![f].off = @ + w.tot]
                   /\ IF w.tot = n1 /\ proc[p].n > n1 THEN proc' = [proc EXCEPT ![p].n = @ - n1]
                      ELSE return(p, <<>>)
     /\ UNCHANGED <<ents, ofile, cwd>>

fd_call(p) ==
  \/ \E fd \in Fd : sys_close(p, fd) \/ sys_dup(p, fd) \/ sys_read(p, fd) \/ sys_write(p, fd) \/ sys_fstat(p, fd)
  \/ sys_pipe(p) \/ sys_fail(p)

\* fork(): the child q shares the open files and the directory.
fork(p, q) ==
  /\ at(p, "user") /\ at(q, "dead")
  /\ proc' = [proc EXCEPT ![q].pc = "user"]
  /\ ofile' = [ofile EXCEPT ![q] = ofile[p]]
  /\ ftable' = [f \in File |-> [ftable[f] EXCEPT !.ref = @ + Cardinality({fd \in Fd : ofile[p][fd] = f})]]
  /\ itable' = idup(itable, cwd[p])
  /\ cwd' = [cwd EXCEPT ![q] = cwd[p]]
  /\ UNCHANGED disk

\* exit(), at the end of the program, closes the descriptors one by one, then
\* lets the directory go.
sys_exit(p) ==
  /\ at(p, "user") /\ proc[p].todo = <<>> /\ goto(p, "exit", <<>>)
  /\ UNCHANGED <<disk, itable, files, cwd>>

exit(p) ==
  /\ at(p, "exit")
  /\ LET open == Fd \ free_fds(p)
         f == ofile[p][Min(open)]
     IN IF open # {}
        THEN /\ ofile' = [ofile EXCEPT ![p][Min(open)] = 0]
             /\ ftable' = fileclose(f)
             /\ goto(p, "exit", closed_inode(f))
             /\ UNCHANGED <<disk, itable, cwd>>
        ELSE /\ cwd' = [cwd EXCEPT ![p] = 0]
             /\ goto(p, "dead", <<cwd[p]>>)
             /\ UNCHANGED <<disk, itable, files>>

----------------------------------------------------------------------------
\* iinit(), fileinit(); the first process starts in the root directory.
Init ==
  /\ dinode = Disk0.dinode /\ ents = Disk0.ents /\ bitmap = Disk0.bitmap
  /\ itable = [k \in Slot |-> [inum |-> IF k = 1 THEN ROOTINO ELSE 0, ref |-> IF k = 1 THEN 1 ELSE 0,
                               valid |-> FALSE, d |-> FreeDinode, lock |-> None]]
  /\ ftable = [f \in File |-> NoFile]
  /\ ofile = [p \in Proc |-> [fd \in Fd |-> 0]]
  /\ cwd = [p \in Proc |-> IF p = First THEN 1 ELSE 0]
  /\ \E prog \in Programs :
       proc = [p \in Proc |-> [Idle EXCEPT !.pc = IF p = First THEN "user" ELSE "dead", !.todo = prog[p]]]

\* What a process inside the kernel does next.
kernel_step(p) ==
  \/ iput(p) \/ namex(p) \/ open_ino(p) \/ create_step(p) \/ link_step(p)
  \/ chdir(p) \/ filewrite(p) \/ exit(p)

user_step(p) ==
  \/ sys_path(p) \/ fd_call(p) \/ sys_exit(p)
  \/ \E q \in Proc : fork(p, q)

Next == \E p \in Proc : kernel_step(p) \/ user_step(p)

Spec == Init /\ [][Next]_vars

----------------------------------------------------------------------------
Labels == {"user", "namex", "open_ino", "create_dir", "create_found", "create_init", "created",
           "create_fail", "link_old", "link_new", "link_bad", "unlink_dir", "unlink_ino",
           "unlink_bad", "unlink_done", "chdir", "filewrite", "exit", "dead"}

\* The types of the variables.
TypeOK ==
  /\ \A i \in Inum : /\ dinode[i].type \in {"FREE", "DIR", "FILE", "DEV"} /\ dinode[i].nlink \in Nat
                     /\ ToSet(blocks(dinode[i])) \subseteq Block /\ Len(dinode[i].addrs) <= MAXFILE
                     /\ \A s \in DOMAIN ents[i] : ents[i][s].inum \in Inum \cup {0}
  /\ bitmap \subseteq Block
  /\ \A k \in Slot : /\ itable[k].inum \in Inum \cup {0} /\ itable[k].ref \in Nat
                     /\ itable[k].valid \in BOOLEAN /\ itable[k].lock \in Proc \cup {None}
  /\ \A f \in File : ftable[f].ref \in Nat /\ ftable[f].ip \in Slot \cup {0} /\ ftable[f].off \in 0..MAXFILE
  /\ ofile \in [Proc -> [Fd -> File \cup {0}]] /\ cwd \in [Proc -> Slot \cup {0}]
  /\ \A p \in Proc : /\ proc[p].pc \in Labels /\ proc[p].puts \in Seq(Slot)
                     /\ proc[p].dp \in Slot \cup {0} /\ proc[p].ip \in Slot \cup {0}

\* The assertions of fs.c, sysfile.c, log.c and proc.c that can fail at the step
\* that process p takes next.
assertions(p) ==
  LET r == proc[p]
      k == IF r.pc \in locks_dp THEN r.dp ELSE r.ip
      top == Head(r.puts)
  IN {msg \in {"ilock: no type", "iget: no inodes", "dirlookup not DIR", "unlink: nlink < 1",
               "sched locks", "freeing free block", "log_write outside of trans"} :
        CASE msg = "ilock: no type" ->
               r.puts = <<>> /\ r.pc \in locks_dp \cup locks_ip /\ itable[k].lock = None /\ ino(k).type = "FREE"
          [] msg = "iget: no inodes" ->
               /\ r.puts = <<>> /\ igets(p) # 0 /\ slot(itable, igets(p)) = 0
               /\ r.pc \in locks_dp \cup locks_ip => ilock(k)
          [] msg = "dirlookup not DIR" ->
               r.puts = <<>> /\ r.pc \in locks_dp \ {"namex"} /\ ilock(k) /\ ino(k).type # "DIR"
          [] msg = "unlink: nlink < 1" -> at(p, "unlink_ino") /\ ilock(k) /\ ino(k).nlink < 1
          [] msg = "sched locks" -> putting(p, "no") /\ last_ref(top) /\ itable[top].lock # None
          [] msg = "freeing free block" ->
               \/ putting(p, "locked") /\ bfree_panic(itable[top].d, bitmap)
               \/ r.puts = <<>> /\ r.pc \in {"open_ino", "create_found"} /\ ilock(k) /\ bfree_panic(ino(k), bitmap)
          [] msg = "log_write outside of trans" ->
               at(p, "user") /\ \E fd \in Fd : ofile[p][fd] # 0 /\ ftable[ofile[p][fd]].type = "INODE"
                                               /\ hole(ftable[ofile[p][fd]])}

\* No assertion of fs.c, sysfile.c or log.c fails: nobody locks an inode that
\* is free on the disk, frees a block twice, unlinks what has no links, sleeps
\* in iput() or allocates a block outside a transaction.
NoPanic == \A p \in Proc : assertions(p) = {}

\* ip->ref is the number of pointers to the slot: open files, directories of
\* processes, and system calls in progress.  One too few and the slot is
\* recycled under its user, one too many and it is never freed.  (The types of
\* the variables are part of it.)
RefExact ==
  /\ TypeOK
  /\ \A k \in Slot :
       itable[k].ref = Cardinality({f \in File : ftable[f].ip = k})
                       + Cardinality({p \in Proc : cwd[p] = k})
                       + Cardinality({p \in Proc : proc[p].dp = k}) + Cardinality({p \in Proc : proc[p].ip = k})
                       + Cardinality({<<p, s>> \in Proc \X (1..2) :
                                        s \in DOMAIN proc[p].puts /\ proc[p].puts[s] = k})

\* The entries that name inode i, "." and ".." apart, and for a directory the
\* directories in it, whose ".." count as links.
names(i) == {<<j, s>> \in Inum \X (1..Max({Len(ents[j]) : j \in Inum})) :
               s \in DOMAIN ents[j] /\ ents[j][s].inum = i /\ ents[j][s].name \notin {".", ".."}}
subdirs(i) == {s \in DOMAIN ents[i] : s > 2 /\ ents[i][s].inum # 0 /\ dinode[ents[i][s].inum].type = "DIR"}
links(i) == Cardinality(names(i)) + Cardinality(subdirs(i)) + (IF i = ROOTINO THEN 1 ELSE 0)

\* No name leads to a free inode, and no inode has more names than its link
\* count, at any point of link(), unlink(), create() and iput(): the last
\* unlink() would free a file that still has a name.
NamesCounted ==
  \A i \in Inum : /\ names(i) # {} => dinode[i].type # "FREE"
                  /\ dinode[i].type # "FREE" => dinode[i].nlink >= links(i)

\* A block is in one place of one inode, and the bit map marks exactly the
\* blocks that are somewhere, whichever writes and links failed half way.
BlocksOwnedOnce ==
  /\ bitmap = UNION {ToSet(blocks(dinode[i])) : i \in Inum}
  /\ \A i, j \in Inum : i # j => ToSet(blocks(dinode[i])) \cap ToSet(blocks(dinode[j])) = {}
  /\ \A i \in Inum : Cardinality(ToSet(blocks(dinode[i]))) = Len(blocks(dinode[i]))

\* What the table says of an inode that nobody has locked is what the disk says,
\* an inode has one slot, and an inode that an open file or the directory of a
\* process refers to is not freed, whatever was unlinked meanwhile.
Coherent ==
  /\ \A k \in Slot : itable[k].ref > 0 /\ itable[k].valid /\ itable[k].lock = None
                     => itable[k].d = dinode[itable[k].inum]
  /\ \A k, l \in Slot : k # l /\ itable[k].ref > 0 /\ itable[l].ref > 0 => itable[k].inum # itable[l].inum
  /\ \A k \in Slot : (\E f \in File : ftable[f].ip = k) \/ (\E p \in Proc : cwd[p] = k)
                     => dinode[itable[k].inum].type # "FREE"

\* The process whose lock p waits for, or None.
waits_for(p) ==
  LET k == CASE proc[p].pc \in locks_dp -> proc[p].dp
             [] proc[p].pc \in locks_ip -> proc[p].ip
             [] proc[p].pc = "filewrite" -> ftable[proc[p].f].ip
             [] OTHER -> 0
  IN IF k = 0 \/ proc[p].puts # <<>> THEN None ELSE itable[k].lock

\* Nobody waits for himself and no two calls wait for each other: a directory
\* is locked before what it names, the walk holds one lock at a time, and
\* unlink() refuses the names that lead back.
NoDeadlock == \A S \in SUBSET Proc : S # {} => \E p \in S : waits_for(p) \notin S
=============================================================================
