------------------------------ MODULE LogSpec ------------------------------
(***************************************************************************)
(* What kernel/log.c promises the file system: operations read and write   *)
(* one disk (logical), and after a crash the disk holds the writes of all  *)
(* operations up to some commit and of none after it (durable).  A commit  *)
(* happens only between operations, so no operation is ever durable in     *)
(* part.  A block changed without being logged may fall back to what is    *)
(* durable at any time, and a commit leaves it out, unless it is logged    *)
(* too.                                                                    *)
(***************************************************************************)
EXTENDS Integers

CONSTANTS LProcs, LBlocks, LVals

VARIABLES logical, durable, active,
          fresh      \* blocks logged since the last commit

lvars == <<logical, durable, active, fresh>>

LInit ==
  /\ logical = [b \in LBlocks |-> 0]
  /\ durable = logical
  /\ active = {} /\ fresh = {}

LBegin(p) ==
  /\ p \notin active /\ active' = active \cup {p}
  /\ UNCHANGED <<logical, durable, fresh>>

LWrite(p, b, v) ==
  /\ p \in active
  /\ logical' = [logical EXCEPT ![b] = v] /\ fresh' = fresh \cup {b}
  /\ UNCHANGED <<durable, active>>

LUnlogged(p, b, v) ==
  /\ p \in active
  /\ logical' = [logical EXCEPT ![b] = v]
  /\ UNCHANGED <<durable, active, fresh>>

LForget(b) ==
  /\ b \notin fresh
  /\ logical' = [logical EXCEPT ![b] = durable[b]]
  /\ UNCHANGED <<durable, active, fresh>>

LEnd(p) ==
  /\ p \in active /\ active' = active \ {p}
  /\ UNCHANGED <<logical, durable, fresh>>

LCommit ==
  /\ active = {}
  /\ durable' = [b \in LBlocks |-> IF b \in fresh THEN logical[b] ELSE durable[b]]
  /\ fresh' = {}
  /\ UNCHANGED <<logical, active>>

LCrash ==
  /\ logical' = durable
  /\ active' = {} /\ fresh' = {}
  /\ UNCHANGED durable

LNext ==
  \/ \E p \in LProcs : LBegin(p) \/ LEnd(p)
  \/ \E p \in LProcs, b \in LBlocks, v \in LVals : LWrite(p, b, v) \/ LUnlogged(p, b, v)
  \/ \E b \in LBlocks : LForget(b)
  \/ LCommit \/ LCrash

Spec == LInit /\ [][LNext]_lvars
=============================================================================
