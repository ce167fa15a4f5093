----------------------------- MODULE BlockSpec -----------------------------
(***************************************************************************)
(* What kernel/bio.c promises the file system: a store of blocks, each of  *)
(* which a process reads and changes only while it owns it (between        *)
(* bread() and brelse()).  A change lasts once it is written (bwrite()) or *)
(* logged (bpin(), until the log has written it): a block that is neither  *)
(* owned nor logged may fall back to what was last written.  For clients   *)
(* that write or log what they change this makes no difference.  No        *)
(* buffers, no reference counts.                                           *)
(***************************************************************************)
EXTENDS Integers

CONSTANTS SProcs, SBlocks, SVals, SNone

VARIABLES store,   \* contents of each block
          disk,    \* what was last written
          pinned,  \* the blocks that are logged
          owner    \* the process that owns each block, or SNone

svars == <<store, disk, pinned, owner>>

SInit ==
  /\ store = [b \in SBlocks |-> 0] /\ disk = store
  /\ pinned = {}
  /\ owner = [b \in SBlocks |-> SNone]

SAcquire(p, b) ==
  /\ owner[b] = SNone /\ owner' = [owner EXCEPT ![b] = p]
  /\ UNCHANGED <<store, disk, pinned>>

SChange(p, b) ==
  /\ owner[b] = p
  /\ \E v \in SVals : store' = [store EXCEPT ![b] = v]
  /\ UNCHANGED <<disk, pinned, owner>>

SWrite(p, b) ==
  /\ owner[b] = p
  /\ disk' = [disk EXCEPT ![b] = store[b]] /\ pinned' \in {pinned, pinned \ {b}}
  /\ UNCHANGED <<store, owner>>

SLog(p, b) ==
  /\ owner[b] = p /\ pinned' = pinned \cup {b}
  /\ UNCHANGED <<store, disk, owner>>

SRelease(p, b) ==
  /\ owner[b] = p /\ owner' = [owner EXCEPT ![b] = SNone]
  /\ UNCHANGED <<store, disk, pinned>>

SForget(b) ==
  /\ owner[b] = SNone /\ b \notin pinned
  /\ store' = [store EXCEPT ![b] = disk[b]]
  /\ UNCHANGED <<disk, pinned, owner>>

SNext ==
  \/ \E p \in SProcs, b \in SBlocks :
       SAcquire(p, b) \/ SChange(p, b) \/ SWrite(p, b) \/ SLog(p, b) \/ SRelease(p, b)
  \/ \E b \in SBlocks : SForget(b)

Spec == SInit /\ [][SNext]_svars
=============================================================================
