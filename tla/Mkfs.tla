-------------------------------- MODULE Mkfs --------------------------------
(***************************************************************************)
(* mkfs/mkfs.c: the disk the kernel boots from.  It allocates inodes and   *)
(* blocks in order, without a free map, and writes the free map at the     *)
(* end.  As in FileSys the data blocks, which come after the boot block,   *)
(* the super block, the log, the inodes and the free map, are numbered     *)
(* from 1, files are measured in blocks and directories in entries.        *)
(***************************************************************************)
EXTENDS Integers, Sequences, SequencesExt

CONSTANTS NINODES, NBLOCK, NDIRECT, NINDIRECT, DPB

\* The disk while it is written, all zeroes at first.
zeroes ==
  [dinode |-> [i \in 1..(NINODES - 1) |->
                 [type |-> "FREE", major |-> 0, nlink |-> 0, addrs |-> <<>>, ind |-> 0, size |-> 0]],
   ents |-> [i \in 1..(NINODES - 1) |-> <<>>],
   freeinode |-> 1, freeblock |-> 1]

ialloc(m, type) ==
  [m EXCEPT !.dinode[m.freeinode].type = type, !.dinode[m.freeinode].nlink = 1, !.freeinode = @ + 1]

\* iappend() makes sure that block fbn of inode i is there.
block(m, i, fbn) ==
  LET d == m.dinode[i]
      new_ind == fbn >= NDIRECT /\ d.ind = 0
      b == m.freeblock + (IF new_ind THEN 1 ELSE 0)
  IN IF fbn < Len(d.addrs) THEN m
     ELSE [m EXCEPT !.dinode[i].ind = IF new_ind THEN m.freeblock ELSE @,
                    !.dinode[i].addrs = Append(@, b),
                    !.freeblock = b + 1]

\* iappend() of a block to the file i, and of an entry to the directory i.
append_block(m, i) == [block(m, i, m.dinode[i].size) EXCEPT !.dinode[i].size = @ + 1]
append_entry(m, i, name, j) ==
  [block(m, i, m.dinode[i].size \div DPB) EXCEPT !.dinode[i].size = @ + 1,
                                                 !.ents[i] = Append(@, [name |-> name, inum |-> j])]

\* A file f of the command line goes to the root directory.
add_file(m, f) ==
  LET i == m.freeinode
      named == append_entry(ialloc(m, "FILE"), 1, f.name, i)
  IN FoldLeft(LAMBDA r, k : append_block(r, i), named, [k \in 1..f.n |-> k])

\* The size of the root directory goes up to the end of a block, or to the end
\* of the next one, with empty entries.
fixed(m) ==
  LET size == (m.dinode[1].size \div DPB + 1) * DPB
  IN [m EXCEPT !.dinode[1].size = size,
               !.ents[1] = @ \o [k \in 1..(size - Len(@)) |-> [name |-> "", inum |-> 0]]]

\* balloc(): the blocks given out are marked in use.
balloc(m) == [dinode |-> m.dinode, ents |-> m.ents, bitmap |-> 1..(m.freeblock - 1)]

main(fs) ==
  LET root == append_entry(append_entry(ialloc(zeroes, "DIR"), 1, ".", 1), 1, "..", 1)
  IN balloc(fixed(FoldLeft(add_file, root, fs)))
=============================================================================
