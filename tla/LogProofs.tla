----------------------------- MODULE LogProofs -----------------------------
(***************************************************************************)
(* Proofs about Log for every set of processes and blocks, every size of   *)
(* the log that LogAssumption allows, and any number of operations and     *)
(* crashes.                                                                *)
(***************************************************************************)
EXTENDS Log, FiniteSetTheorems, SequenceTheorems, TLAPS

USE LogAssumption

----------------------------------------------------------------------------
\* A header that lists no block twice.
Distinct(s) ==
  /\ \A i, j \in 1..Len(s) : s[i] = s[j] => i = j
  /\ Cardinality({s[i] : i \in 1..Len(s)}) = Len(s)

\* Where the process is that end_op() has made the committer.
CommitAt == {"write_log", "install", "committed"}

\* log.outstanding counts the running operations; one process commits while
\* log.committing, and no operation runs meanwhile.
Counting ==
  /\ outstanding = Cardinality(active)
  /\ committing <=> \E p \in Proc : pc[p] \in CommitAt
  /\ \A p, q \in Proc : pc[p] \in CommitAt /\ pc[q] \in CommitAt => p = q
  /\ committing => \A p \in Proc : pc[p] # "active"
  /\ boot # "up" => \A p \in Proc : pc[p] = "idle"

\* What an operation has written is in the header, in its reservation.
Writing ==
  \A p \in Proc :
    /\ IsFiniteSet(wrote[p]) /\ Cardinality(wrote[p]) <= OPBLOCKS
    /\ pc[p] = "active" => wrote[p] \subseteq logged

\* The header is on the disk from write_head() to the end of install_trans(), and
\* while recovery installs.
Header ==
  /\ Distinct(lh) /\ Distinct(dhead)
  /\ boot = "read_head" => lh = <<>>
  /\ boot = "install" => lh = dhead
  /\ \A p \in Proc : pc[p] = "install" => lh = dhead
  /\ boot = "up" /\ (\A p \in Proc : pc[p] # "install") => dhead = <<>>
  /\ \A p \in Proc : pc[p] = "committed" => lh = <<>>

\* The logged blocks that are not yet written home are pinned.
Pins ==
  /\ boot # "up" => pinned = {}
  /\ boot = "up" /\ (\A p \in Proc : pc[p] # "install") => pinned = logged
  /\ \A p \in Proc : pc[p] = "install" => pinned = {lh[i] : i \in tail..n}

\* A pinned block is cached, and recovery caches what it writes to the disk.
Cached ==
  /\ \A b \in pinned : cache[b] # NoVal
  /\ boot # "up" => \A b \in Block : cache[b] \in {NoVal, disk[b]}

\* The log blocks hold what the cache holds, and what is installed is at home.
LogBlocks ==
  /\ \A p \in Proc : pc[p] = "write_log" =>
       \A i \in 1..n : i < tail => dlog[i] = bread(lh[i])
  /\ \A p \in Proc : pc[p] = "install" => \A i \in 1..n : dlog[i] = bread(lh[i])
  /\ (boot = "install" \/ \E p \in Proc : pc[p] = "install") =>
       \A i \in 1..n : i < tail => disk[lh[i]] = dlog[i]

\* Both headers are lists of different blocks that fit.
Lists ==
  /\ lh \in Seq(Block) /\ n <= LOGSIZE /\ Distinct(lh)
  /\ dhead \in Seq(Block) /\ Len(dhead) <= LOGSIZE /\ Distinct(dhead)

IInv ==
  /\ TypeOK /\ NoPanic /\ ReservationHolds
  /\ Counting /\ Writing /\ Header /\ Pins /\ Cached /\ LogBlocks

----------------------------------------------------------------------------
\* An empty header.
LEMMA EmptyHeader ==
  /\ Len(<<>>) = 0 /\ Distinct(<<>>) /\ <<>> \in Seq(Block)
  /\ {<<>>[i] : i \in 1..Len(<<>>)} = {}
<1>1. Len(<<>>) = 0 /\ <<>> \in Seq(Block)
  BY EmptySeq
<1>2. 1..Len(<<>>) = {}
  BY <1>1
<1>3. {<<>>[i] : i \in 1..Len(<<>>)} = {}
  BY <1>2
<1> QED BY <1>1, <1>2, <1>3, FS_EmptySet DEF Distinct

\* A header that is emptied, by a crash or by the end of a commit or a recovery.
LEMMA Emptied ==
  ASSUME lh' = <<>>
  PROVE  n' = 0 /\ logged' = {} /\ Distinct(lh)' /\ lh' \in Seq(Block)
  BY EmptyHeader DEF n, logged

\* The header is a finite list of blocks.
LEMMA HeaderType ==
  ASSUME TypeOK
  PROVE  /\ n \in Nat /\ n <= LOGSIZE
         /\ \A i \in 1..n : lh[i] \in Block
         /\ logged \subseteq Block
<1>1. n \in Nat /\ \A i \in 1..n : lh[i] \in Block
  BY LenProperties, ElementOfSeq DEF TypeOK, n
<1> QED BY <1>1 DEF TypeOK, logged

\* log_write() of a block that is not in the header puts it at the end.
LEMMA AppendHeader ==
  ASSUME TypeOK, Distinct(lh), NEW b \in Block, b \notin logged, lh' = Append(lh, b)
  PROVE  /\ lh' \in Seq(Block) /\ n' = n + 1
         /\ \A i \in 1..n : lh'[i] = lh[i]
         /\ logged' = logged \cup {b}
         /\ Distinct(lh)'
<1>1. /\ lh' \in Seq(Block) /\ n' = n + 1 /\ n \in Nat
      /\ \A i \in 1..n : lh'[i] = lh[i]
      /\ lh'[n + 1] = b
  BY AppendProperties, LenProperties DEF TypeOK, n
<1>2. logged' = logged \cup {b}
  <2>1. \A i \in 1..n' : lh'[i] \in logged \cup {b}
    BY <1>1 DEF logged
  <2>2. \A x \in logged : \E i \in 1..n' : lh'[i] = x
    BY <1>1 DEF logged
  <2>3. \E i \in 1..n' : lh'[i] = b
    BY <1>1
  <2>4. \A x : x \in logged' <=> \E i \in 1..n' : lh'[i] = x
    BY DEF logged
  <2>5. \A x : x \in logged' <=> x \in logged \cup {b}
    BY <2>1, <2>2, <2>3, <2>4
  <2> QED BY <2>5
<1>3. \A i, j \in 1..n' : lh'[i] = lh'[j] => i = j
  <2>1. \A i \in 1..n : lh[i] # b
    BY DEF logged
  <2>2. \A i, j \in 1..n : lh[i] = lh[j] => i = j
    BY DEF Distinct, n
  <2>3. \A i \in 1..n' : i \in 1..n \/ i = n + 1
    BY <1>1
  <2> QED BY <1>1, <2>1, <2>2, <2>3
<1>4. Cardinality(logged') = n'
  <2>1. IsFiniteSet(logged)
    <3>1. IsFiniteSet(1..n)
      <4>1. 1 \in Int /\ n \in Int
        BY <1>1
      <4> QED BY <4>1, FS_Interval
    <3>2. lh \in Surjection(1..n, logged)
      BY LenProperties DEF TypeOK, Surjection, logged, n
    <3> QED BY <3>1, <3>2, FS_Surjection
  <2> QED BY <1>1, <1>2, <2>1, FS_AddElement DEF TypeOK
<1> QED BY <1>1, <1>2, <1>3, <1>4 DEF Distinct, logged, n

\* The running operations and their reservation are finite.
LEMMA ActiveFinite ==
  /\ IsFiniteSet(active) /\ Cardinality(active) \in Nat
  /\ Cardinality(active) <= Cardinality(Proc) /\ Cardinality(Proc) \in Nat
<1>1. active \in SUBSET Proc
  BY DEF active
<1> QED BY <1>1, FS_Subset, FS_CardinalityType

\* begin_op() reserves MAXOPBLOCKS blocks for an operation.
LEMMA ReservedFinite ==
  /\ IsFiniteSet(reserved) /\ Cardinality(reserved) \in Nat
  /\ Cardinality(reserved) <= Cardinality(active) * MAXOPBLOCKS
<1>1. IsFiniteSet(1..MAXOPBLOCKS) /\ Cardinality(1..MAXOPBLOCKS) = MAXOPBLOCKS
  BY FS_Interval
<1>2. /\ IsFiniteSet(active \X (1..MAXOPBLOCKS))
      /\ Cardinality(active \X (1..MAXOPBLOCKS)) = Cardinality(active) * MAXOPBLOCKS
  BY <1>1, ActiveFinite, FS_Product
<1>3. reserved \in SUBSET (active \X (1..MAXOPBLOCKS))
  BY DEF reserved
<1>4. IsFiniteSet(reserved) /\ Cardinality(reserved) <= Cardinality(active \X (1..MAXOPBLOCKS))
  BY <1>2, <1>3, FS_Subset
<1> QED BY <1>2, <1>4, FS_CardinalityType

\* A running operation has so much left of its reservation that the log is not
\* full, neither in memory nor on the disk.
LEMMA RoomLeft ==
  ASSUME TypeOK, Writing, ReservationHolds, NEW p \in Proc, pc[p] = "active"
  PROVE  n < LOGSIZE /\ n < nlog - 1
<1> DEFINE w == Cardinality(wrote[p])
<1> DEFINE left == {p} \X ((w + 1)..MAXOPBLOCKS)
<1>1. w \in Nat /\ w <= OPBLOCKS
  BY FS_CardinalityType DEF Writing
<1>2. IsFiniteSet((w + 1)..MAXOPBLOCKS) /\ Cardinality((w + 1)..MAXOPBLOCKS) = MAXOPBLOCKS - w
  <2> HIDE DEF w
  <2> QED BY <1>1, FS_Interval
<1>3. Cardinality(left) = MAXOPBLOCKS - w
  <2>1. IsFiniteSet({p}) /\ Cardinality({p}) = 1
    BY FS_Singleton
  <2>2. Cardinality(left) = 1 * Cardinality((w + 1)..MAXOPBLOCKS)
    BY <1>2, <2>1, FS_Product
  <2> HIDE DEF w, left
  <2> QED BY <1>1, <1>2, <2>2
<1>4. left \in SUBSET reserved
  <2>1. p \in active
    BY DEF active
  <2> SUFFICES ASSUME NEW r \in left PROVE r \in reserved
    OBVIOUS
  <2>2. r = <<r[1], r[2]>> /\ r[1] = p /\ r[2] \in (w + 1)..MAXOPBLOCKS
    OBVIOUS
  <2>3. r[2] \in 1..MAXOPBLOCKS /\ r[2] > Cardinality(wrote[r[1]])
    BY <1>1, <2>2
  <2> QED BY <2>1, <2>2, <2>3 DEF reserved
<1>5. Cardinality(left) <= Cardinality(reserved)
  BY <1>4, ReservedFinite, FS_Subset
<1> HIDE DEF w, left
<1> QED BY <1>1, <1>3, <1>5, ReservedFinite, HeaderType DEF ReservationHolds

----------------------------------------------------------------------------
\* What begin_op() does.
LEMMA BeginStep ==
  ASSUME NEW p \in Proc, begin_op(p)
  PROVE  /\ boot = "up" /\ pc[p] \in {"idle", "begin"} /\ wrote' = [wrote EXCEPT ![p] = {}]
         /\ \/ may_begin /\ outstanding' = outstanding + 1 /\ pc' = [pc EXCEPT ![p] = "active"]
            \/ outstanding' = outstanding /\ pc' = [pc EXCEPT ![p] = "asleep"]
         /\ UNCHANGED <<disk, dlog, dhead, cache, pinned, lh, committing, tail, boot, panic>>
  BY DEF begin_op, goto, Up, diskVars

\* wakeup(&log) by a process that leaves end_op() sends the sleepers round their loop.
LEMMA Woken ==
  ASSUME TypeOK, NEW p \in Proc, pc' = wakeup([pc EXCEPT ![p] = "idle"])
  PROVE  /\ pc' \in [Proc -> {"idle", "begin", "asleep", "active", "write_log", "install", "committed"}]
         /\ pc'[p] = "idle"
         /\ \A q \in Proc \ {p} : pc'[q] = pc[q] \/ (pc[q] = "asleep" /\ pc'[q] = "begin")
<1> DEFINE f == [pc EXCEPT ![p] = "idle"]
<1>1. f[p] = "idle" /\ \A q \in Proc \ {p} : f[q] = pc[q]
  BY DEF TypeOK
<1>2. pc' = [q \in Proc |-> IF f[q] = "asleep" THEN "begin" ELSE f[q]]
  BY DEF wakeup
<1> HIDE DEF f
<1>3. \A q \in Proc : pc'[q] = IF f[q] = "asleep" THEN "begin" ELSE f[q]
  BY <1>2
<1>4. pc' \in [Proc -> {"idle", "begin", "asleep", "active", "write_log", "install", "committed"}]
  <2> DEFINE g(q) == IF f[q] = "asleep" THEN "begin" ELSE f[q]
  <2>1. \A q \in Proc : g(q) \in {"idle", "begin", "asleep", "active", "write_log", "install", "committed"}
    BY <1>1 DEF TypeOK
  <2> QED BY <1>2, <2>1
<1>5. pc'[p] = "idle"
  BY <1>1, <1>3
<1>6. \A q \in Proc \ {p} : pc'[q] = pc[q] \/ (pc[q] = "asleep" /\ pc'[q] = "begin")
  BY <1>1, <1>3
<1> QED BY <1>4, <1>5, <1>6

\* What end_op() does: p is the last operation and the committer, or not.
LEMMA EndStep ==
  ASSUME TypeOK, NEW p \in Proc, end_op(p)
  PROVE  /\ boot = "up" /\ pc[p] = "active" /\ outstanding' = outstanding - 1
         /\ panic' = committing /\ tail' = 1
         /\ \/ /\ outstanding' = 0 /\ committing' = TRUE
               /\ pc' = [pc EXCEPT ![p] = IF n > 0 THEN "write_log" ELSE "committed"]
            \/ /\ outstanding' # 0 /\ committing' = committing
               /\ pc' \in [Proc -> {"idle", "begin", "asleep", "active", "write_log", "install", "committed"}]
               /\ pc'[p] = "idle"
               /\ \A q \in Proc \ {p} : pc'[q] = pc[q] \/ (pc[q] = "asleep" /\ pc'[q] = "begin")
         /\ UNCHANGED <<disk, dlog, dhead, cache, pinned, lh, wrote, boot>>
  BY Woken DEF end_op, goto, Up, diskVars

\* end_op() moves its process, and the sleepers at most.
LEMMA EndOthers ==
  ASSUME TypeOK, NEW p \in Proc, end_op(p)
  PROVE  /\ pc'[p] \in {"idle", "write_log", "committed"}
         /\ pc'[p] = "committed" => ~(n > 0)
         /\ \A q \in Proc \ {p} : pc'[q] = pc[q] \/ (pc[q] = "asleep" /\ pc'[q] = "begin")
<1>1. CASE pc' = [pc EXCEPT ![p] = IF n > 0 THEN "write_log" ELSE "committed"]
  BY <1>1 DEF TypeOK
<1>2. CASE /\ pc'[p] = "idle"
           /\ \A q \in Proc \ {p} : pc'[q] = pc[q] \/ (pc[q] = "asleep" /\ pc'[q] = "begin")
  BY <1>2
<1> QED BY <1>1, <1>2, EndStep

\* What end_op() does after the commit.
LEMMA DoneStep ==
  ASSUME TypeOK, NEW p \in Proc, commit_done(p)
  PROVE  /\ boot = "up" /\ pc[p] = "committed" /\ committing' = FALSE
         /\ pc' \in [Proc -> {"idle", "begin", "asleep", "active", "write_log", "install", "committed"}]
         /\ pc'[p] = "idle"
         /\ \A q \in Proc \ {p} : pc'[q] = pc[q] \/ (pc[q] = "asleep" /\ pc'[q] = "begin")
         /\ UNCHANGED <<disk, dlog, dhead, cache, pinned, lh, outstanding, wrote, tail, boot, panic>>
  BY Woken DEF commit_done, Up, diskVars

\* What log_write() does: it never panics, and absorbs the block or appends it.
LEMMA WriteStep ==
  ASSUME TypeOK, Counting, Writing, ReservationHolds, Header,
         NEW p \in Proc, NEW b \in Block, NEW v \in Val, log_write(p, b, v)
  PROVE  /\ boot = "up" /\ pc[p] = "active" /\ panic' = FALSE
         /\ Cardinality(wrote[p] \cup {b}) <= OPBLOCKS
         /\ cache' = [cache EXCEPT ![b] = v]
         /\ wrote' = [wrote EXCEPT ![p] = wrote[p] \cup {b}]
         /\ \/ b \in logged /\ lh' = lh /\ pinned' = pinned
            \/ /\ b \notin logged /\ lh' = Append(lh, b) /\ pinned' = pinned \cup {b}
               /\ lh' \in Seq(Block) /\ n' = n + 1 /\ n < LOGSIZE
               /\ \A i \in 1..n : lh'[i] = lh[i]
               /\ logged' = logged \cup {b}
               /\ Distinct(lh)'
         /\ UNCHANGED <<disk, dlog, dhead, outstanding, committing, pc, tail, boot>>
<1>1. pc[p] = "active" /\ boot = "up"
  BY DEF log_write, Up
<1>2. n < LOGSIZE /\ n < nlog - 1 /\ n \in Nat
  BY <1>1, RoomLeft, HeaderType
<1>3. outstanding >= 1
  <2>1. active # {} /\ IsFiniteSet(active) /\ Cardinality(active) \in Nat
    BY <1>1, ActiveFinite DEF active
  <2> QED BY <2>1, FS_EmptySet DEF Counting
<1>4. panic' = FALSE
  <2>1. ~(n >= LOGSIZE \/ n >= nlog - 1 \/ outstanding < 1)
    BY <1>2, <1>3 DEF TypeOK
  <2>2. panic' = (n >= LOGSIZE \/ n >= nlog - 1 \/ outstanding < 1)
    BY DEF log_write
  <2> QED BY <2>1, <2>2, Zenon
<1>5. \/ b \in logged /\ lh' = lh /\ pinned' = pinned
      \/ b \notin logged /\ lh' = Append(lh, b) /\ pinned' = pinned \cup {b}
  BY <1>4 DEF log_write, absorbed
<1>6. CASE b \notin logged /\ lh' = Append(lh, b)
  <2>1. /\ lh' \in Seq(Block) /\ n' = n + 1
        /\ \A i \in 1..n : lh'[i] = lh[i]
        /\ logged' = logged \cup {b}
        /\ Distinct(lh)'
    BY <1>6, AppendHeader DEF Header
  <2> QED BY <1>1, <1>2, <1>4, <1>5, <1>6, <2>1 DEF log_write, diskVars
<1> QED BY <1>1, <1>4, <1>5, <1>6 DEF log_write, diskVars

\* What a writei() that fails does.
LEMMA FailStep ==
  ASSUME NEW p \in Proc, NEW b \in Block, NEW v \in Val, writei_fails(p, b, v)
  PROVE  /\ boot = "up" /\ pc[p] = "active" /\ cache' = [cache EXCEPT ![b] = v]
         /\ UNCHANGED <<disk, dlog, dhead, pinned, lh, outstanding, committing, pc, wrote, tail, boot, panic>>
  BY DEF writei_fails, Up, diskVars

\* Every step keeps the count of the operations and the one committer.
LEMMA CountStep == TypeOK /\ Counting /\ Header /\ [Next]_vars => Counting'
<1> SUFFICES ASSUME TypeOK, Counting, Header, [Next]_vars PROVE Counting'
  OBVIOUS
<1> USE DEF Counting, CommitAt
<1>1. ASSUME read_head PROVE Counting'
  <2>1. pc' = pc /\ boot # "up" /\ UNCHANGED <<outstanding, committing>>
    BY <1>1 DEF read_head
  <2>2. \A q \in Proc : pc[q] = "idle"
    BY <2>1
  <2> QED BY <2>1, <2>2 DEF active
<1>2. ASSUME recover_install PROVE Counting'
  <2>1. pc' = pc /\ boot # "up" /\ UNCHANGED <<outstanding, committing>>
    BY <1>2 DEF recover_install
  <2>2. \A q \in Proc : pc[q] = "idle"
    BY <2>1
  <2> QED BY <2>1, <2>2 DEF active
<1>3. ASSUME recover_erase PROVE Counting'
  <2>1. pc' = pc /\ boot # "up" /\ UNCHANGED <<outstanding, committing>>
    BY <1>3 DEF recover_erase
  <2>2. \A q \in Proc : pc[q] = "idle"
    BY <2>1
  <2> QED BY <2>1, <2>2 DEF active
<1>4. ASSUME crash PROVE Counting'
  <2>1. active' = {} /\ outstanding' = 0 /\ committing' = FALSE /\ pc' = [q \in Proc |-> "idle"]
    BY <1>4 DEF crash, active
  <2>2. Cardinality(active') = 0
    BY <2>1, FS_EmptySet
  <2> QED BY <2>1, <2>2
<1>5. ASSUME NEW b \in Block, evict(b) PROVE Counting'
  <2>1. UNCHANGED <<pc, outstanding, committing, boot>>
    BY <1>5 DEF evict
  <2> QED BY <2>1 DEF active
<1>6. ASSUME NEW p \in Proc, begin_op(p) PROVE Counting'
  <2>1. /\ boot = "up" /\ pc[p] \in {"idle", "begin"} /\ wrote' = [wrote EXCEPT ![p] = {}]
        /\ \/ may_begin /\ outstanding' = outstanding + 1 /\ pc' = [pc EXCEPT ![p] = "active"]
           \/ outstanding' = outstanding /\ pc' = [pc EXCEPT ![p] = "asleep"]
        /\ UNCHANGED <<disk, dlog, dhead, cache, pinned, lh, committing, tail, boot, panic>>
    BY <1>6, BeginStep
  <2>2. CASE may_begin /\ outstanding' = outstanding + 1 /\ pc' = [pc EXCEPT ![p] = "active"]
    <3>1. active' = active \cup {p} /\ p \notin active
      BY <2>1, <2>2 DEF active, TypeOK
    <3>2. Cardinality(active') = Cardinality(active) + 1
      BY <3>1, ActiveFinite, FS_AddElement
    <3>3. ~committing /\ committing' = committing /\ boot' = boot
      BY <2>1, <2>2 DEF may_begin
    <3> QED BY <2>1, <2>2, <3>2, <3>3 DEF TypeOK
  <2>3. CASE outstanding' = outstanding /\ pc' = [pc EXCEPT ![p] = "asleep"]
    <3>1. active' = active
      BY <2>1, <2>3 DEF active, TypeOK
    <3> QED BY <2>1, <2>3, <3>1 DEF TypeOK
  <2> QED BY <2>1, <2>2, <2>3
<1>7. ASSUME NEW p \in Proc, end_op(p) PROVE Counting'
  <2>1. /\ boot = "up" /\ boot' = boot /\ pc[p] = "active" /\ outstanding' = outstanding - 1
        /\ ~committing
    BY <1>7, EndStep
  <2>2. \A q \in Proc : pc[q] \notin CommitAt
    BY <2>1 DEF CommitAt
  <2>3. ASSUME active' = active \ {p} PROVE outstanding' = Cardinality(active')
    <3>1. p \in active
      BY <2>1 DEF active
    <3>2. Cardinality(active \ {p}) = Cardinality(active) - 1
      BY <3>1, ActiveFinite, FS_RemoveElement
    <3> QED BY <2>1, <2>3, <3>2
  <2>4. CASE /\ outstanding' = 0 /\ committing' = TRUE
             /\ pc' = [pc EXCEPT ![p] = IF n > 0 THEN "write_log" ELSE "committed"]
    <3>1. active' = active \ {p}
      BY <2>1, <2>4 DEF active, TypeOK
    <3>2. active' = {}
      BY <2>3, <2>4, <3>1, ActiveFinite, FS_RemoveElement, FS_EmptySet
    <3> QED BY <2>1, <2>2, <2>3, <2>4, <3>1, <3>2 DEF active, TypeOK
  <2>5. CASE /\ outstanding' # 0 /\ committing' = committing
             /\ pc'[p] = "idle"
             /\ \A q \in Proc \ {p} : pc'[q] = pc[q] \/ (pc[q] = "asleep" /\ pc'[q] = "begin")
    <3>1. active' = active \ {p}
      BY <2>1, <2>5 DEF active
    <3> QED BY <2>1, <2>2, <2>3, <2>5, <3>1
  <2> QED BY <1>7, <2>4, <2>5, EndStep
<1>8. ASSUME NEW p \in Proc, write_log(p) PROVE Counting'
  <2>1. UNCHANGED <<pc, outstanding, committing, boot>>
    BY <1>8 DEF write_log
  <2> QED BY <2>1 DEF active
<1>9. ASSUME NEW p \in Proc, write_head(p) PROVE Counting'
  <2>1. /\ pc[p] = "write_log" /\ pc' = [pc EXCEPT ![p] = "install"]
        /\ UNCHANGED <<outstanding, committing, boot>>
    BY <1>9 DEF write_head, goto, Up
  <2>2. active' = active
    BY <2>1 DEF active, TypeOK
  <2> QED BY <2>1, <2>2 DEF TypeOK
<1>10. ASSUME NEW p \in Proc, install_trans(p) PROVE Counting'
  <2>1. UNCHANGED <<pc, outstanding, committing, boot>>
    BY <1>10 DEF install_trans
  <2> QED BY <2>1 DEF active
<1>11. ASSUME NEW p \in Proc, erase_head(p) PROVE Counting'
  <2>1. /\ pc[p] = "install" /\ pc' = [pc EXCEPT ![p] = "committed"]
        /\ UNCHANGED <<outstanding, committing, boot>>
    BY <1>11 DEF erase_head, goto, Up
  <2>2. active' = active
    BY <2>1 DEF active, TypeOK
  <2> QED BY <2>1, <2>2 DEF TypeOK
<1>12. ASSUME NEW p \in Proc, commit_done(p) PROVE Counting'
  <2>1. /\ boot = "up" /\ boot' = boot /\ pc[p] = "committed" /\ committing' = FALSE
        /\ outstanding' = outstanding /\ pc'[p] = "idle"
        /\ \A q \in Proc \ {p} : pc'[q] = pc[q] \/ (pc[q] = "asleep" /\ pc'[q] = "begin")
    BY <1>12, DoneStep
  <2>2. active' = active
    BY <2>1 DEF active
  <2> QED BY <2>1, <2>2
<1>13. ASSUME NEW p \in Proc, NEW b \in Block, NEW v \in Val, log_write(p, b, v) PROVE Counting'
  <2>1. UNCHANGED <<pc, outstanding, committing, boot>>
    BY <1>13 DEF log_write
  <2> QED BY <2>1 DEF active
<1>14. CASE UNCHANGED vars
  BY <1>14 DEF vars, active
<1>15. ASSUME NEW p \in Proc, NEW b \in Block, NEW v \in Val, writei_fails(p, b, v) PROVE Counting'
  BY <1>15, FailStep DEF active
<1> QED
  BY <1>1, <1>2, <1>3, <1>4, <1>5, <1>6, <1>7, <1>8, <1>9, <1>10, <1>11, <1>12, <1>13, <1>14, <1>15
  DEF Next, Recovery, OpStep

\* Every step keeps the headers lists of different blocks that fit.
LEMMA ListStep == TypeOK /\ Counting /\ Writing /\ ReservationHolds /\ Header /\ [Next]_vars => Lists'
<1> SUFFICES ASSUME TypeOK, Counting, Writing, ReservationHolds, Header, [Next]_vars PROVE Lists'
  OBVIOUS
<1>0. Lists
  BY DEF Lists, TypeOK, Header
<1>1. ASSUME read_head PROVE Lists'
  BY <1>1, <1>0 DEF read_head, diskVars, Lists, n
<1>2. ASSUME recover_install PROVE Lists'
  BY <1>2, <1>0 DEF recover_install, diskVars, Lists, n
<1>3. ASSUME recover_erase PROVE Lists'
  BY <1>3, <1>0, EmptyHeader DEF recover_erase, Lists, n
<1>4. ASSUME crash PROVE Lists'
  BY <1>4, <1>0, EmptyHeader DEF crash, diskVars, Lists, n
<1>5. ASSUME NEW b \in Block, evict(b) PROVE Lists'
  BY <1>5, <1>0 DEF evict, Up, diskVars, Lists, n
<1>6. ASSUME NEW p \in Proc, begin_op(p) PROVE Lists'
  BY <1>6, <1>0, BeginStep DEF Lists, n
<1>7. ASSUME NEW p \in Proc, end_op(p) PROVE Lists'
  BY <1>7, <1>0, EndStep DEF Lists, n
<1>8. ASSUME NEW p \in Proc, write_log(p) PROVE Lists'
  BY <1>8, <1>0 DEF write_log, Up, Lists, n
<1>9. ASSUME NEW p \in Proc, write_head(p) PROVE Lists'
  BY <1>9, <1>0 DEF write_head, goto, Up, Lists, n
<1>10. ASSUME NEW p \in Proc, install_trans(p) PROVE Lists'
  BY <1>10, <1>0 DEF install_trans, Up, Lists, n
<1>11. ASSUME NEW p \in Proc, erase_head(p) PROVE Lists'
  BY <1>11, <1>0, EmptyHeader DEF erase_head, Lists, n
<1>12. ASSUME NEW p \in Proc, commit_done(p) PROVE Lists'
  BY <1>12, <1>0, DoneStep DEF Lists, n
<1>13. ASSUME NEW p \in Proc, NEW b \in Block, NEW v \in Val, log_write(p, b, v) PROVE Lists'
  <2>1. /\ boot = "up" /\ pc[p] = "active" /\ panic' = FALSE
        /\ Cardinality(wrote[p] \cup {b}) <= OPBLOCKS
        /\ cache' = [cache EXCEPT ![b] = v]
        /\ wrote' = [wrote EXCEPT ![p] = wrote[p] \cup {b}]
        /\ UNCHANGED <<disk, dlog, dhead, outstanding, committing, pc, tail, boot>>
    BY <1>13, WriteStep
  <2>2. \/ b \in logged /\ lh' = lh /\ pinned' = pinned
        \/ /\ b \notin logged /\ lh' = Append(lh, b) /\ pinned' = pinned \cup {b}
           /\ lh' \in Seq(Block) /\ n' = n + 1 /\ n < LOGSIZE
           /\ \A i \in 1..n : lh'[i] = lh[i]
           /\ logged' = logged \cup {b}
           /\ Distinct(lh)'
    BY <1>13, WriteStep
  <2>3. CASE lh' = lh
    BY <1>0, <2>1, <2>3 DEF Lists, n
  <2>4. CASE lh' \in Seq(Block) /\ n' = n + 1 /\ n < LOGSIZE /\ Distinct(lh)'
    BY <1>0, <2>1, <2>4, HeaderType DEF Lists
  <2> QED BY <2>2, <2>3, <2>4
<1>14. CASE UNCHANGED vars
  BY <1>0, <1>14 DEF vars, Lists, n
<1>15. ASSUME NEW p \in Proc, NEW b \in Block, NEW v \in Val, writei_fails(p, b, v) PROVE Lists'
  BY <1>0, <1>15, FailStep DEF Lists, n
<1> QED
  BY <1>1, <1>2, <1>3, <1>4, <1>5, <1>6, <1>7, <1>8, <1>9, <1>10, <1>11, <1>12, <1>13, <1>14, <1>15
  DEF Next, Recovery, OpStep

\* Every step keeps the types.
LEMMA TypeStep == TypeOK /\ Counting /\ Writing /\ ReservationHolds /\ Header /\ [Next]_vars => TypeOK'
<1> SUFFICES ASSUME TypeOK, Counting, Writing, ReservationHolds, Header, [Next]_vars PROVE TypeOK'
  OBVIOUS
<1>0. /\ lh' \in Seq(Block) /\ n' <= LOGSIZE /\ Cardinality(logged') = n'
      /\ dhead' \in Seq(Block) /\ Len(dhead') <= LOGSIZE
  <2>1. Lists'
    BY ListStep
  <2> QED BY <2>1 DEF Lists, Distinct, n, logged
<1>c. outstanding' \in 0..Cardinality(Proc)
  <2>1. outstanding' = Cardinality(active')
    BY CountStep DEF Counting
  <2>2. active' \in SUBSET Proc
    BY DEF active
  <2>3. /\ IsFiniteSet(active') /\ Cardinality(active') <= Cardinality(Proc)
        /\ Cardinality(Proc) \in Nat
    BY <2>2, FS_Subset, FS_CardinalityType
  <2>4. Cardinality(active') \in Nat
    BY <2>3, FS_CardinalityType
  <2> QED BY <2>1, <2>3, <2>4
<1>h. /\ n \in Nat /\ n <= LOGSIZE
      /\ \A i \in 1..n : lh[i] \in Block
  BY HeaderType
<1>i. ASSUME tail <= n PROVE tail \in 1..LOGSIZE /\ lh[tail] \in Block
  BY <1>h, <1>i DEF TypeOK
<1>1. ASSUME read_head PROVE TypeOK'
  BY <1>1, <1>0, <1>c DEF read_head, diskVars, TypeOK
<1>2. ASSUME recover_install PROVE TypeOK'
  <2>1. tail \in 1..LOGSIZE /\ lh[tail] \in Block
    BY <1>2, <1>i DEF recover_install
  <2> QED BY <1>2, <2>1, <1>0, <1>c DEF recover_install, TypeOK
<1>3. ASSUME recover_erase PROVE TypeOK'
  BY <1>3, <1>0, <1>c DEF recover_erase, diskVars, TypeOK
<1>4. ASSUME crash PROVE TypeOK'
  <2>1. /\ cache' \in [Block -> Val \cup {NoVal}] /\ wrote' \in [Proc -> SUBSET Block]
        /\ pc' \in [Proc -> {"idle", "begin", "asleep", "active", "write_log", "install", "committed"}]
    BY <1>4 DEF crash
  <2>2. /\ pinned' = {} /\ committing' = FALSE /\ tail' = 1 /\ boot' = "read_head"
        /\ panic' = FALSE /\ disk' = disk /\ dlog' = dlog
    BY <1>4 DEF crash, diskVars
  <2>3. 1 \in 1..(LOGSIZE + 1)
    OBVIOUS
  <2> QED BY <2>1, <2>2, <2>3, <1>0, <1>c DEF TypeOK
<1>5. ASSUME NEW b \in Block, evict(b) PROVE TypeOK'
  BY <1>5, <1>0, <1>c DEF evict, Up, diskVars, TypeOK
<1>6. ASSUME NEW p \in Proc, begin_op(p) PROVE TypeOK'
  <2>1. /\ boot = "up" /\ pc[p] \in {"idle", "begin"} /\ wrote' = [wrote EXCEPT ![p] = {}]
        /\ \/ may_begin /\ outstanding' = outstanding + 1 /\ pc' = [pc EXCEPT ![p] = "active"]
           \/ outstanding' = outstanding /\ pc' = [pc EXCEPT ![p] = "asleep"]
        /\ UNCHANGED <<disk, dlog, dhead, cache, pinned, lh, committing, tail, boot, panic>>
    BY <1>6, BeginStep
  <2>2. pc' \in [Proc -> {"idle", "begin", "asleep", "active", "write_log", "install", "committed"}]
    BY <2>1 DEF TypeOK
  <2> QED BY <2>1, <2>2, <1>0, <1>c DEF TypeOK
<1>7. ASSUME NEW p \in Proc, end_op(p) PROVE TypeOK'
  <2>1. /\ tail' = 1 /\ panic' \in BOOLEAN /\ committing' \in BOOLEAN
        /\ UNCHANGED <<disk, dlog, cache, pinned, wrote, boot>>
    BY <1>7, EndStep DEF TypeOK
  <2>2. pc' \in [Proc -> {"idle", "begin", "asleep", "active", "write_log", "install", "committed"}]
    BY <1>7, EndStep DEF TypeOK
  <2> QED BY <2>1, <2>2, <1>0, <1>c DEF TypeOK
<1>8. ASSUME NEW p \in Proc, write_log(p) PROVE TypeOK'
  <2>1. tail \in 1..LOGSIZE /\ bread(lh[tail]) \in Val
    BY <1>8, <1>i DEF write_log, bread, TypeOK
  <2> QED BY <1>8, <2>1, <1>0, <1>c DEF write_log, TypeOK
<1>9. ASSUME NEW p \in Proc, write_head(p) PROVE TypeOK'
  BY <1>9, <1>0, <1>c DEF write_head, goto, Up, TypeOK
<1>10. ASSUME NEW p \in Proc, install_trans(p) PROVE TypeOK'
  <2>1. tail \in 1..LOGSIZE /\ lh[tail] \in Block
    BY <1>10, <1>i DEF install_trans
  <2> QED BY <1>10, <2>1, <1>0, <1>c DEF install_trans, TypeOK
<1>11. ASSUME NEW p \in Proc, erase_head(p) PROVE TypeOK'
  BY <1>11, <1>0, <1>c DEF erase_head, goto, Up, TypeOK
<1>12. ASSUME NEW p \in Proc, commit_done(p) PROVE TypeOK'
  BY <1>12, <1>0, <1>c, DoneStep DEF TypeOK
<1>13. ASSUME NEW p \in Proc, NEW b \in Block, NEW v \in Val, log_write(p, b, v) PROVE TypeOK'
  <2>1. /\ boot = "up" /\ pc[p] = "active" /\ panic' = FALSE
        /\ Cardinality(wrote[p] \cup {b}) <= OPBLOCKS
        /\ cache' = [cache EXCEPT ![b] = v]
        /\ wrote' = [wrote EXCEPT ![p] = wrote[p] \cup {b}]
        /\ UNCHANGED <<disk, dlog, dhead, outstanding, committing, pc, tail, boot>>
    BY <1>13, WriteStep
  <2>2. \/ b \in logged /\ lh' = lh /\ pinned' = pinned
        \/ /\ b \notin logged /\ lh' = Append(lh, b) /\ pinned' = pinned \cup {b}
           /\ lh' \in Seq(Block) /\ n' = n + 1 /\ n < LOGSIZE
           /\ \A i \in 1..n : lh'[i] = lh[i]
           /\ logged' = logged \cup {b}
           /\ Distinct(lh)'
    BY <1>13, WriteStep
  <2>3. pinned' \subseteq Block
    BY <2>2 DEF TypeOK
  <2> QED BY <2>1, <2>3, <1>0, <1>c DEF TypeOK
<1>14. CASE UNCHANGED vars
  BY <1>0, <1>c, <1>14 DEF vars, TypeOK
<1>15. ASSUME NEW p \in Proc, NEW b \in Block, NEW v \in Val, writei_fails(p, b, v) PROVE TypeOK'
  <2>1. cache' \in [Block -> Val \cup {NoVal}]
    BY <1>15, FailStep DEF TypeOK
  <2> QED BY <1>0, <1>c, <1>15, <2>1, FailStep DEF TypeOK
<1> QED
  BY <1>1, <1>2, <1>3, <1>4, <1>5, <1>6, <1>7, <1>8, <1>9, <1>10, <1>11, <1>12, <1>13, <1>14, <1>15
  DEF Next, Recovery, OpStep

\* Every step keeps what the operations have written in the header.
LEMMA WritingStep == TypeOK /\ Counting /\ Writing /\ ReservationHolds /\ Header /\ [Next]_vars => Writing'
<1> SUFFICES ASSUME TypeOK, Counting, Writing, ReservationHolds, Header, [Next]_vars PROVE Writing'
  OBVIOUS
<1>e. IsFiniteSet({}) /\ Cardinality({}) <= OPBLOCKS
  BY FS_EmptySet
<1> USE DEF Writing
<1>1. ASSUME read_head PROVE Writing'
  <2>1. (\A q \in Proc : pc'[q] = "idle") /\ wrote' = wrote
    BY <1>1 DEF read_head, Counting, crash
  <2> QED BY <2>1
<1>2. ASSUME recover_install PROVE Writing'
  <2>1. (\A q \in Proc : pc'[q] = "idle") /\ wrote' = wrote
    BY <1>2 DEF recover_install, Counting, crash
  <2> QED BY <2>1
<1>3. ASSUME recover_erase PROVE Writing'
  <2>1. (\A q \in Proc : pc'[q] = "idle") /\ wrote' = wrote
    BY <1>3 DEF recover_erase, Counting, crash
  <2> QED BY <2>1
<1>4. ASSUME crash PROVE Writing'
  <2>1. (\A q \in Proc : pc'[q] = "idle" /\ wrote'[q] = {})
    BY <1>4 DEF crash
  <2> QED BY <2>1, <1>e
<1>5. ASSUME NEW b \in Block, evict(b) PROVE Writing'
  <2>1. UNCHANGED <<lh, pc, wrote>>
    BY <1>5 DEF evict
  <2> QED BY <2>1 DEF logged, n
<1>6. ASSUME NEW p \in Proc, begin_op(p) PROVE Writing'
  <2>1. /\ boot = "up" /\ pc[p] \in {"idle", "begin"} /\ wrote' = [wrote EXCEPT ![p] = {}]
        /\ \/ may_begin /\ outstanding' = outstanding + 1 /\ pc' = [pc EXCEPT ![p] = "active"]
           \/ outstanding' = outstanding /\ pc' = [pc EXCEPT ![p] = "asleep"]
        /\ UNCHANGED <<disk, dlog, dhead, cache, pinned, lh, committing, tail, boot, panic>>
    BY <1>6, BeginStep
  <2>2. wrote'[p] = {} /\ \A q \in Proc \ {p} : wrote'[q] = wrote[q] /\ pc'[q] = pc[q]
    BY <2>1 DEF TypeOK
  <2>3. logged' = logged
    BY <2>1 DEF logged, n
  <2> QED BY <2>2, <2>3, <1>e
<1>7. ASSUME NEW p \in Proc, end_op(p) PROVE Writing'
  <2>1. /\ UNCHANGED <<wrote, lh>>
        /\ \A q \in Proc : pc'[q] = "active" => pc[q] = "active"
    BY <1>7, EndStep DEF TypeOK
  <2> QED BY <2>1 DEF logged, n
<1>8. ASSUME NEW p \in Proc, write_log(p) PROVE Writing'
  <2>1. UNCHANGED <<lh, pc, wrote>>
    BY <1>8 DEF write_log
  <2> QED BY <2>1 DEF logged, n
<1>9. ASSUME NEW p \in Proc, write_head(p) PROVE Writing'
  <2>1. (\A q \in Proc : pc'[q] # "active") /\ wrote' = wrote
    BY <1>9 DEF write_head, goto, Counting, CommitAt, TypeOK
  <2> QED BY <2>1
<1>10. ASSUME NEW p \in Proc, install_trans(p) PROVE Writing'
  <2>1. UNCHANGED <<lh, pc, wrote>>
    BY <1>10 DEF install_trans
  <2> QED BY <2>1 DEF logged, n
<1>11. ASSUME NEW p \in Proc, erase_head(p) PROVE Writing'
  <2>1. (\A q \in Proc : pc'[q] # "active") /\ wrote' = wrote
    BY <1>11 DEF erase_head, goto, Counting, CommitAt, TypeOK
  <2> QED BY <2>1
<1>12. ASSUME NEW p \in Proc, commit_done(p) PROVE Writing'
  <2>1. /\ UNCHANGED <<wrote, lh>>
        /\ \A q \in Proc : pc'[q] = "active" => pc[q] = "active"
    BY <1>12, DoneStep
  <2> QED BY <2>1 DEF logged, n
<1>13. ASSUME NEW p \in Proc, NEW b \in Block, NEW v \in Val, log_write(p, b, v) PROVE Writing'
  <2>1. /\ boot = "up" /\ pc[p] = "active" /\ panic' = FALSE
        /\ Cardinality(wrote[p] \cup {b}) <= OPBLOCKS
        /\ cache' = [cache EXCEPT ![b] = v]
        /\ wrote' = [wrote EXCEPT ![p] = wrote[p] \cup {b}]
        /\ UNCHANGED <<disk, dlog, dhead, outstanding, committing, pc, tail, boot>>
    BY <1>13, WriteStep
  <2>2. \/ b \in logged /\ lh' = lh /\ pinned' = pinned
        \/ /\ b \notin logged /\ lh' = Append(lh, b) /\ pinned' = pinned \cup {b}
           /\ lh' \in Seq(Block) /\ n' = n + 1 /\ n < LOGSIZE
           /\ \A i \in 1..n : lh'[i] = lh[i]
           /\ logged' = logged \cup {b}
           /\ Distinct(lh)'
    BY <1>13, WriteStep
  <2>3. logged' = logged \cup {b}
    <3>1. CASE b \in logged /\ lh' = lh
      BY <3>1 DEF logged, n
    <3> QED BY <2>2, <3>1
  <2>4. IsFiniteSet(wrote[p] \cup {b})
    BY FS_AddElement
  <2> QED BY <2>1, <2>3, <2>4 DEF TypeOK
<1>14. CASE UNCHANGED vars
  BY <1>14 DEF vars, logged, n
<1>15. ASSUME NEW p \in Proc, NEW b \in Block, NEW v \in Val, writei_fails(p, b, v) PROVE Writing'
  BY <1>15, FailStep DEF logged, n
<1> QED
  BY <1>1, <1>2, <1>3, <1>4, <1>5, <1>6, <1>7, <1>8, <1>9, <1>10, <1>11, <1>12, <1>13, <1>14, <1>15
  DEF Next, Recovery, OpStep

\* Every step keeps the header on the disk where it belongs.
LEMMA HeaderStep == TypeOK /\ Counting /\ Writing /\ ReservationHolds /\ Header /\ [Next]_vars => Header'
<1> SUFFICES ASSUME TypeOK, Counting, Writing, ReservationHolds, Header, [Next]_vars PROVE Header'
  OBVIOUS
<1>0. Distinct(lh)' /\ Distinct(dhead)'
  BY ListStep DEF Lists
<1> USE DEF Header, Counting, CommitAt
<1>1. ASSUME read_head PROVE Header'
  BY <1>1, <1>0 DEF read_head, diskVars, TypeOK
<1>2. ASSUME recover_install PROVE Header'
  BY <1>2, <1>0 DEF recover_install, diskVars, TypeOK
<1>3. ASSUME recover_erase PROVE Header'
  BY <1>3, <1>0 DEF recover_erase, diskVars, TypeOK
<1>4. ASSUME crash PROVE Header'
  BY <1>4, <1>0 DEF crash, diskVars, TypeOK
<1>5. ASSUME NEW b \in Block, evict(b) PROVE Header'
  BY <1>5, <1>0 DEF evict, Up, diskVars, TypeOK
<1>6. ASSUME NEW p \in Proc, begin_op(p) PROVE Header'
  <2>1. /\ boot = "up" /\ pc[p] \in {"idle", "begin"} /\ wrote' = [wrote EXCEPT ![p] = {}]
        /\ \/ may_begin /\ outstanding' = outstanding + 1 /\ pc' = [pc EXCEPT ![p] = "active"]
           \/ outstanding' = outstanding /\ pc' = [pc EXCEPT ![p] = "asleep"]
        /\ UNCHANGED <<disk, dlog, dhead, cache, pinned, lh, committing, tail, boot, panic>>
    BY <1>6, BeginStep
  <2> QED BY <2>1, <1>0 DEF TypeOK
<1>7. ASSUME NEW p \in Proc, end_op(p) PROVE Header'
  <2>1. /\ boot = "up" /\ pc[p] = "active" /\ UNCHANGED <<lh, dhead, boot>>
        /\ \A q \in Proc : pc[q] \notin CommitAt
    BY <1>7, EndStep DEF CommitAt
  <2>2. \A q \in Proc \ {p} : pc'[q] # "install" /\ pc'[q] # "committed"
    <3>1. \A q \in Proc \ {p} : pc'[q] = pc[q] \/ pc'[q] = "begin"
      BY <1>7, EndOthers
    <3> QED BY <2>1, <3>1 DEF CommitAt
  <2>3. pc'[p] # "install" /\ (pc'[p] = "committed" => ~(n > 0))
    BY <1>7, EndOthers
  <2>4. ~(n > 0) => lh = <<>>
    BY EmptySeq DEF TypeOK, n
  <2> QED BY <1>0, <2>1, <2>2, <2>3, <2>4
<1>8. ASSUME NEW p \in Proc, write_log(p) PROVE Header'
  BY <1>8, <1>0 DEF write_log, Up, TypeOK
<1>9. ASSUME NEW p \in Proc, write_head(p) PROVE Header'
  BY <1>9, <1>0 DEF write_head, goto, Up, TypeOK
<1>10. ASSUME NEW p \in Proc, install_trans(p) PROVE Header'
  BY <1>10, <1>0 DEF install_trans, Up, TypeOK
<1>11. ASSUME NEW p \in Proc, erase_head(p) PROVE Header'
  BY <1>11, <1>0 DEF erase_head, goto, Up, TypeOK
<1>12. ASSUME NEW p \in Proc, commit_done(p) PROVE Header'
  <2>1. /\ boot = "up" /\ pc[p] = "committed" /\ pc'[p] = "idle" /\ UNCHANGED <<lh, dhead, boot>>
        /\ \A q \in Proc \ {p} : pc'[q] = pc[q] \/ (pc[q] = "asleep" /\ pc'[q] = "begin")
    BY <1>12, DoneStep
  <2> QED BY <1>0, <2>1
<1>13. ASSUME NEW p \in Proc, NEW b \in Block, NEW v \in Val, log_write(p, b, v) PROVE Header'
  <2>1. boot = "up" /\ pc[p] = "active" /\ UNCHANGED <<dhead, pc, boot>>
    BY <1>13, WriteStep
  <2>2. \A q \in Proc : pc[q] \notin CommitAt
    BY <2>1 DEF CommitAt
  <2> QED BY <1>0, <2>1, <2>2
<1>14. CASE UNCHANGED vars
  BY <1>0, <1>14 DEF vars
<1>15. ASSUME NEW p \in Proc, NEW b \in Block, NEW v \in Val, writei_fails(p, b, v) PROVE Header'
  BY <1>0, <1>15, FailStep
<1> QED
  BY <1>1, <1>2, <1>3, <1>4, <1>5, <1>6, <1>7, <1>8, <1>9, <1>10, <1>11, <1>12, <1>13, <1>14, <1>15
  DEF Next, Recovery, OpStep

\* Every step keeps pinned what is logged and not at home.
LEMMA PinsStep == TypeOK /\ Counting /\ Writing /\ ReservationHolds /\ Header /\ Pins /\ [Next]_vars => Pins'
<1> SUFFICES ASSUME TypeOK, Counting, Writing, ReservationHolds, Header, Pins, [Next]_vars PROVE Pins'
  OBVIOUS
<1>h. /\ n \in Nat /\ n <= LOGSIZE
      /\ \A i \in 1..n : lh[i] \in Block
      /\ logged \subseteq Block
  BY HeaderType
<1>d. \A i, j \in 1..n : lh[i] = lh[j] => i = j
  BY DEF Header, Distinct, n
<1> USE DEF Pins, Counting, CommitAt
<1>1. ASSUME read_head PROVE Pins'
  BY <1>1 DEF read_head, diskVars, TypeOK, logged, n
<1>2. ASSUME recover_install PROVE Pins'
  BY <1>2 DEF recover_install, diskVars, TypeOK, logged, n
<1>3. ASSUME recover_erase PROVE Pins'
  <2>1. boot = "install" /\ boot' = "up" /\ pc' = pc /\ pinned' = pinned /\ lh' = <<>>
    BY <1>3 DEF recover_erase
  <2>2. logged' = {}
    BY <2>1, Emptied
  <2> QED BY <2>1, <2>2
<1>4. ASSUME crash PROVE Pins'
  <2>1. pinned' = {} /\ boot' = "read_head" /\ \A q \in Proc : pc'[q] = "idle"
    BY <1>4 DEF crash
  <2> QED BY <2>1
<1>5. ASSUME NEW b \in Block, evict(b) PROVE Pins'
  <2>1. UNCHANGED <<pinned, lh, pc, tail, boot>>
    BY <1>5 DEF evict
  <2>2. logged' = logged /\ n' = n
    BY <2>1 DEF logged, n
  <2> QED BY <2>1, <2>2
<1>6. ASSUME NEW p \in Proc, begin_op(p) PROVE Pins'
  <2>1. /\ boot = "up" /\ pc[p] \in {"idle", "begin"} /\ wrote' = [wrote EXCEPT ![p] = {}]
        /\ \/ may_begin /\ outstanding' = outstanding + 1 /\ pc' = [pc EXCEPT ![p] = "active"]
           \/ outstanding' = outstanding /\ pc' = [pc EXCEPT ![p] = "asleep"]
        /\ UNCHANGED <<disk, dlog, dhead, cache, pinned, lh, committing, tail, boot, panic>>
    BY <1>6, BeginStep
  <2>2. \A q \in Proc : pc'[q] = "install" <=> pc[q] = "install"
    BY <2>1 DEF TypeOK
  <2> QED BY <2>1, <2>2 DEF logged, n
<1>7. ASSUME NEW p \in Proc, end_op(p) PROVE Pins'
  <2>1. /\ boot = "up" /\ pc[p] = "active" /\ UNCHANGED <<lh, pinned, boot>>
        /\ \A q \in Proc : pc[q] \notin CommitAt
    BY <1>7, EndStep DEF CommitAt
  <2>2. \A q \in Proc : pc'[q] # "install"
    <3>1. \A q \in Proc \ {p} : pc'[q] = pc[q] \/ pc'[q] = "begin"
      BY <1>7, EndOthers
    <3>2. pc'[p] # "install"
      BY <1>7, EndOthers
    <3> QED BY <2>1, <3>1, <3>2 DEF CommitAt
  <2> QED BY <2>1, <2>2 DEF logged, n
<1>8. ASSUME NEW p \in Proc, write_log(p) PROVE Pins'
  <2>1. UNCHANGED <<pinned, lh, pc, boot>> /\ pc[p] = "write_log" /\ boot = "up"
    BY <1>8 DEF write_log, Up
  <2>2. \A q \in Proc : pc[q] # "install"
    BY <2>1
  <2> QED BY <2>1, <2>2 DEF logged, n
<1>9. ASSUME NEW p \in Proc, write_head(p) PROVE Pins'
  <2>1. /\ pc[p] = "write_log" /\ boot = "up" /\ tail' = 1 /\ pinned' = pinned /\ lh' = lh
        /\ boot' = boot /\ pc' = [pc EXCEPT ![p] = "install"]
    BY <1>9 DEF write_head, Up, goto
  <2>2. pinned = logged /\ logged = {lh[i] : i \in 1..n}
    BY <2>1 DEF logged
  <2>3. n' = n /\ pinned' = {lh'[i] : i \in tail'..n'}
    BY <2>1, <2>2 DEF n
  <2> QED BY <2>1, <2>3 DEF TypeOK
<1>10. ASSUME NEW p \in Proc, install_trans(p) PROVE Pins'
  <2>1. /\ pc[p] = "install" /\ boot = "up" /\ tail <= n /\ tail' = tail + 1 /\ tail \in Nat \ {0}
        /\ pinned' = pinned \ {lh[tail]} /\ UNCHANGED <<lh, pc, boot>>
    BY <1>10 DEF install_trans, Up, TypeOK
  <2>2. pinned = {lh[i] : i \in tail..n}
    BY <2>1
  <2>3. n' = n /\ pinned' = {lh[i] : i \in (tail + 1)..n}
    <3>1. \A i \in tail..n : i \in 1..n /\ (i = tail \/ i \in (tail + 1)..n)
      BY <1>h, <2>1
    <3>2. \A i \in (tail + 1)..n : i \in tail..n /\ lh[i] # lh[tail]
      BY <1>h, <1>d, <2>1
    <3>3. \A x : x \in pinned' <=> x \in {lh[i] : i \in (tail + 1)..n}
      BY <2>1, <2>2, <3>1, <3>2
    <3> QED BY <2>1, <3>3 DEF n
  <2> QED BY <2>1, <2>3
<1>11. ASSUME NEW p \in Proc, erase_head(p) PROVE Pins'
  <2>1. /\ pc[p] = "install" /\ boot = "up" /\ boot' = boot /\ tail > n
        /\ pinned' = pinned /\ lh' = <<>> /\ pc' = [pc EXCEPT ![p] = "committed"]
    BY <1>11 DEF erase_head, Up, goto
  <2>2. pinned = {}
    <3>1. pinned = {lh[i] : i \in tail..n}
      BY <2>1
    <3>2. tail..n = {}
      BY <1>h, <2>1 DEF TypeOK
    <3> QED BY <3>1, <3>2
  <2>3. logged' = {}
    BY <2>1, Emptied
  <2> QED BY <2>1, <2>2, <2>3 DEF TypeOK
<1>12. ASSUME NEW p \in Proc, commit_done(p) PROVE Pins'
  <2>1. /\ boot = "up" /\ pc[p] = "committed" /\ pc'[p] = "idle" /\ UNCHANGED <<lh, pinned, boot>>
        /\ \A q \in Proc \ {p} : pc'[q] = pc[q] \/ (pc[q] = "asleep" /\ pc'[q] = "begin")
    BY <1>12, DoneStep
  <2>2. \A q \in Proc : pc'[q] # "install" /\ pc[q] # "install"
    BY <2>1
  <2> QED BY <2>1, <2>2 DEF logged, n
<1>13. ASSUME NEW p \in Proc, NEW b \in Block, NEW v \in Val, log_write(p, b, v) PROVE Pins'
  <2>1. /\ boot = "up" /\ pc[p] = "active" /\ panic' = FALSE
        /\ Cardinality(wrote[p] \cup {b}) <= OPBLOCKS
        /\ cache' = [cache EXCEPT ![b] = v]
        /\ wrote' = [wrote EXCEPT ![p] = wrote[p] \cup {b}]
        /\ UNCHANGED <<disk, dlog, dhead, outstanding, committing, pc, tail, boot>>
    BY <1>13, WriteStep
  <2>2. \/ b \in logged /\ lh' = lh /\ pinned' = pinned
        \/ /\ b \notin logged /\ lh' = Append(lh, b) /\ pinned' = pinned \cup {b}
           /\ lh' \in Seq(Block) /\ n' = n + 1 /\ n < LOGSIZE
           /\ \A i \in 1..n : lh'[i] = lh[i]
           /\ logged' = logged \cup {b}
           /\ Distinct(lh)'
    BY <1>13, WriteStep
  <2>3. \A q \in Proc : pc[q] \notin CommitAt
    BY <2>1 DEF CommitAt
  <2>4. pinned' = logged'
    <3>1. CASE lh' = lh /\ pinned' = pinned
      BY <2>1, <2>3, <3>1 DEF logged, n
    <3>2. CASE pinned' = pinned \cup {b} /\ logged' = logged \cup {b}
      BY <2>1, <2>3, <3>2
    <3> QED BY <2>2, <3>1, <3>2
  <2> QED BY <2>1, <2>3, <2>4
<1>14. CASE UNCHANGED vars
  BY <1>14 DEF vars, logged, n
<1>15. ASSUME NEW p \in Proc, NEW b \in Block, NEW v \in Val, writei_fails(p, b, v) PROVE Pins'
  BY <1>15, FailStep DEF logged, n
<1> QED
  BY <1>1, <1>2, <1>3, <1>4, <1>5, <1>6, <1>7, <1>8, <1>9, <1>10, <1>11, <1>12, <1>13, <1>14, <1>15
  DEF Next, Recovery, OpStep

\* Every step keeps the pinned blocks cached, and the cache of a recovery right.
LEMMA CacheStep == TypeOK /\ Counting /\ Writing /\ ReservationHolds /\ Header /\ Pins /\ Cached /\ [Next]_vars => Cached'
<1> SUFFICES ASSUME TypeOK, Counting, Writing, ReservationHolds, Header, Pins, Cached, [Next]_vars PROVE Cached'
  OBVIOUS
<1>h. /\ n \in Nat /\ n <= LOGSIZE
      /\ \A i \in 1..n : lh[i] \in Block
      /\ logged \subseteq Block
  BY HeaderType
<1>d. \A i, j \in 1..n : lh[i] = lh[j] => i = j
  BY DEF Header, Distinct, n
<1>i. ASSUME tail <= n PROVE lh[tail] \in Block /\ dlog[tail] \in Val
  BY <1>h, <1>i DEF TypeOK
<1> USE DEF Cached
<1>1. ASSUME read_head PROVE Cached'
  BY <1>1 DEF read_head, diskVars
<1>2. ASSUME recover_install PROVE Cached'
  BY <1>2, <1>i DEF recover_install, TypeOK
<1>3. ASSUME recover_erase PROVE Cached'
  BY <1>3 DEF recover_erase, diskVars
<1>4. ASSUME crash PROVE Cached'
  BY <1>4 DEF crash, diskVars
<1>5. ASSUME NEW b \in Block, evict(b) PROVE Cached'
  BY <1>5 DEF evict, diskVars, TypeOK
<1>6. ASSUME NEW p \in Proc, begin_op(p) PROVE Cached'
  BY <1>6, BeginStep
<1>7. ASSUME NEW p \in Proc, end_op(p) PROVE Cached'
  BY <1>7, EndStep
<1>8. ASSUME NEW p \in Proc, write_log(p) PROVE Cached'
  BY <1>8 DEF write_log, Up
<1>9. ASSUME NEW p \in Proc, write_head(p) PROVE Cached'
  BY <1>9 DEF write_head, goto, Up
<1>10. ASSUME NEW p \in Proc, install_trans(p) PROVE Cached'
  BY <1>10, <1>i DEF install_trans, TypeOK
<1>11. ASSUME NEW p \in Proc, erase_head(p) PROVE Cached'
  BY <1>11 DEF erase_head, goto, Up
<1>12. ASSUME NEW p \in Proc, commit_done(p) PROVE Cached'
  BY <1>12, DoneStep
<1>13. ASSUME NEW p \in Proc, NEW b \in Block, NEW v \in Val, log_write(p, b, v) PROVE Cached'
  <2>1. /\ boot = "up" /\ pc[p] = "active" /\ cache' = [cache EXCEPT ![b] = v]
        /\ UNCHANGED <<disk, pc, boot>>
    BY <1>13 DEF log_write, Up, diskVars
  <2>2. \/ b \in logged /\ lh' = lh /\ pinned' = pinned
        \/ /\ b \notin logged /\ lh' = Append(lh, b) /\ pinned' = pinned \cup {b}
           /\ lh' \in Seq(Block) /\ n' = n + 1 /\ n < LOGSIZE
           /\ \A i \in 1..n : lh'[i] = lh[i]
           /\ logged' = logged \cup {b}
           /\ Distinct(lh)'
    BY <1>13, WriteStep
  <2>3. b \in pinned' /\ \A x \in Block : x # b => (x \in pinned' <=> x \in pinned)
    <3>1. CASE b \in logged /\ pinned' = pinned
      BY <2>1, <3>1 DEF Pins, Counting, CommitAt
    <3> QED BY <2>2, <3>1
  <2>4. pinned' \subseteq Block
    BY <2>2 DEF TypeOK
  <2>5. \A x \in Block \ {b} : cache'[x] = cache[x]
    BY <2>1 DEF TypeOK
  <2>6. cache'[b] # NoVal
    BY <2>1 DEF TypeOK
  <2> QED BY <2>1, <2>3, <2>4, <2>5, <2>6
<1>14. CASE UNCHANGED vars
  BY <1>14 DEF vars
<1>15. ASSUME NEW p \in Proc, NEW b \in Block, NEW v \in Val, writei_fails(p, b, v) PROVE Cached'
  BY <1>15, FailStep DEF TypeOK
<1> QED
  BY <1>1, <1>2, <1>3, <1>4, <1>5, <1>6, <1>7, <1>8, <1>9, <1>10, <1>11, <1>12, <1>13, <1>14, <1>15
  DEF Next, Recovery, OpStep

\* Every step keeps the log blocks equal to what they are the log of.
LEMMA LogBlocksStep == TypeOK /\ Counting /\ Writing /\ ReservationHolds /\ Header /\ Pins /\ Cached /\ LogBlocks /\ [Next]_vars => LogBlocks'
<1> SUFFICES ASSUME TypeOK, Counting, Writing, ReservationHolds, Header, Pins, Cached, LogBlocks, [Next]_vars PROVE LogBlocks'
  OBVIOUS
<1>h. /\ n \in Nat /\ n <= LOGSIZE
      /\ \A i \in 1..n : lh[i] \in Block
      /\ logged \subseteq Block
  BY HeaderType
<1>d. \A i, j \in 1..n : lh[i] = lh[j] => i = j
  BY DEF Header, Distinct, n
<1>t. tail \in Nat \ {0}
  BY DEF TypeOK
<1> USE DEF LogBlocks, Counting, CommitAt
<1>1. ASSUME read_head PROVE LogBlocks'
  <2>1. boot = "read_head" /\ boot' = "install" /\ tail' = 1 /\ pc' = pc
    BY <1>1 DEF read_head
  <2>2. \A i \in 1..n' : ~(i < tail')
    BY <2>1
  <2> QED BY <2>1, <2>2
<1>2. ASSUME recover_install PROVE LogBlocks'
  <2>1. /\ boot = "install" /\ tail <= n /\ tail' = tail + 1 /\ UNCHANGED <<lh, dlog, pc, boot>>
        /\ disk' = [disk EXCEPT ![lh[tail]] = dlog[tail]]
    BY <1>2 DEF recover_install
  <2>2. n' = n /\ tail \in 1..n
    BY <1>h, <1>t, <2>1 DEF n
  <2>3. \A i \in 1..n : i < tail + 1 => disk'[lh[i]] = dlog[i]
    BY <1>h, <1>d, <1>t, <2>1, <2>2 DEF TypeOK
  <2> QED BY <2>1, <2>2, <2>3
<1>3. ASSUME recover_erase PROVE LogBlocks'
  <2>1. boot = "install" /\ boot' = "up" /\ pc' = pc
    BY <1>3 DEF recover_erase
  <2> QED BY <2>1
<1>4. ASSUME crash PROVE LogBlocks'
  <2>1. boot' = "read_head" /\ \A q \in Proc : pc'[q] = "idle"
    BY <1>4 DEF crash
  <2> QED BY <2>1
<1>5. ASSUME NEW b \in Block, evict(b) PROVE LogBlocks'
  <2>1. /\ boot = "up" /\ b \notin pinned /\ cache' = [cache EXCEPT ![b] = NoVal]
        /\ UNCHANGED <<disk, dlog, lh, tail, pc, boot>>
    BY <1>5 DEF evict, Up, diskVars
  <2>2. bread(b)' = disk[b] /\ \A x \in Block \ {b} : bread(x)' = bread(x)
    BY <2>1 DEF bread, TypeOK
  <2>3. n' = n
    BY <2>1 DEF n
  <2>4. ASSUME NEW q \in Proc, pc[q] = "write_log" PROVE \A i \in 1..n : lh[i] # b
    <3>1. pinned = logged
      BY <2>1, <2>4 DEF Pins
    <3> QED BY <2>1, <3>1 DEF logged
  <2>5. ASSUME NEW q \in Proc, pc[q] = "install", NEW i \in 1..n, lh[i] = b
        PROVE  dlog[i] = disk[b]
    <3>1. pinned = {lh[j] : j \in tail..n}
      BY <2>5 DEF Pins
    <3>2. i < tail
      BY <1>h, <1>t, <2>1, <2>5, <3>1
    <3> QED BY <2>5, <3>2
  <2>6. ASSUME NEW q \in Proc, pc'[q] = "write_log", NEW i \in 1..n', i < tail' PROVE dlog'[i] = bread(lh[i])'
    BY <1>h, <2>1, <2>2, <2>3, <2>4, <2>6
  <2>7. ASSUME NEW q \in Proc, pc'[q] = "install", NEW i \in 1..n' PROVE dlog'[i] = bread(lh[i])'
    <3>1. CASE lh[i] = b
      BY <2>1, <2>2, <2>3, <2>5, <2>7, <3>1
    <3>2. CASE lh[i] # b
      BY <1>h, <2>1, <2>2, <2>3, <2>7, <3>2
    <3> QED BY <3>1, <3>2
  <2>8. (boot' = "install" \/ \E q \in Proc : pc'[q] = "install") =>
          \A i \in 1..n' : i < tail' => disk'[lh'[i]] = dlog'[i]
    BY <2>1, <2>3
  <2> QED BY <2>6, <2>7, <2>8
<1>6. ASSUME NEW p \in Proc, begin_op(p) PROVE LogBlocks'
  <2>1. /\ boot = "up" /\ pc[p] \in {"idle", "begin"} /\ wrote' = [wrote EXCEPT ![p] = {}]
        /\ \/ may_begin /\ outstanding' = outstanding + 1 /\ pc' = [pc EXCEPT ![p] = "active"]
           \/ outstanding' = outstanding /\ pc' = [pc EXCEPT ![p] = "asleep"]
        /\ UNCHANGED <<disk, dlog, dhead, cache, pinned, lh, committing, tail, boot, panic>>
    BY <1>6, BeginStep
  <2>2. \A q \in Proc : /\ pc'[q] = "install" <=> pc[q] = "install"
                        /\ pc'[q] = "write_log" <=> pc[q] = "write_log"
    BY <2>1 DEF TypeOK
  <2> QED BY <2>1, <2>2 DEF n, bread
<1>7. ASSUME NEW p \in Proc, end_op(p) PROVE LogBlocks'
  <2>1. /\ boot = "up" /\ pc[p] = "active" /\ boot' = boot /\ tail' = 1
        /\ \A q \in Proc : pc[q] \notin CommitAt
    BY <1>7, EndStep DEF CommitAt
  <2>2. \A q \in Proc : pc'[q] # "install"
    BY <1>7, <2>1, EndOthers DEF CommitAt
  <2>3. \A i \in 1..n' : ~(i < tail')
    BY <2>1
  <2> QED BY <2>1, <2>2, <2>3
<1>8. ASSUME NEW p \in Proc, write_log(p) PROVE LogBlocks'
  <2>1. /\ boot = "up" /\ pc[p] = "write_log" /\ tail <= n /\ tail' = tail + 1
        /\ UNCHANGED <<disk, cache, lh, pc, boot>>
        /\ dlog' = [dlog EXCEPT ![tail] = bread(lh[tail])]
    BY <1>8 DEF write_log, Up
  <2>2. n' = n /\ tail \in 1..n /\ n <= LOGSIZE
    BY <1>h, <1>t, <2>1 DEF n
  <2>3. \A i \in 1..n : i < tail + 1 => dlog'[i] = bread(lh[i])
    BY <1>h, <1>t, <2>1, <2>2 DEF TypeOK
  <2>4. \A q \in Proc : pc[q] # "install"
    BY <2>1
  <2>5. \A i \in 1..n : bread(lh[i])' = bread(lh[i])
    BY <2>1 DEF bread
  <2> QED BY <2>1, <2>2, <2>3, <2>4, <2>5
<1>9. ASSUME NEW p \in Proc, write_head(p) PROVE LogBlocks'
  <2>1. /\ boot = "up" /\ pc[p] = "write_log" /\ tail > n /\ tail' = 1
        /\ UNCHANGED <<disk, dlog, cache, lh, boot>> /\ pc' = [pc EXCEPT ![p] = "install"]
    BY <1>9 DEF write_head, Up, goto
  <2>2. n' = n
    BY <2>1 DEF n
  <2>3. \A i \in 1..n : dlog[i] = bread(lh[i])
    BY <1>h, <1>t, <2>1
  <2>4. \A q \in Proc : pc'[q] # "write_log"
    BY <2>1 DEF TypeOK
  <2>5. \A i \in 1..n : bread(lh[i])' = bread(lh[i])
    BY <2>1 DEF bread
  <2>6. \A i \in 1..n : ~(i < tail')
    BY <2>1
  <2> QED BY <2>1, <2>2, <2>3, <2>4, <2>5, <2>6
<1>10. ASSUME NEW p \in Proc, install_trans(p) PROVE LogBlocks'
  <2>1. /\ boot = "up" /\ pc[p] = "install" /\ tail <= n /\ tail' = tail + 1
        /\ UNCHANGED <<lh, dlog, pc, boot>>
        /\ disk' = [disk EXCEPT ![lh[tail]] = dlog[tail]]
        /\ cache' = [cache EXCEPT ![lh[tail]] = dlog[tail]]
    BY <1>10 DEF install_trans, Up
  <2>2. n' = n /\ tail \in 1..n /\ n <= LOGSIZE
    BY <1>h, <1>t, <2>1 DEF n
  <2>3. \A i \in 1..n : i < tail + 1 => disk'[lh[i]] = dlog[i]
    BY <1>h, <1>d, <1>t, <2>1, <2>2 DEF TypeOK
  <2>4. dlog[tail] # NoVal
    <3>1. tail \in 1..LOGSIZE
      BY <1>h, <2>2
    <3> QED BY <3>1 DEF TypeOK
  <2>5. \A i \in 1..n : bread(lh[i])' = dlog[i]
    BY <1>h, <1>d, <2>1, <2>2, <2>4 DEF bread, TypeOK
  <2>6. \A q \in Proc : pc[q] # "write_log"
    BY <2>1
  <2> QED BY <2>1, <2>2, <2>3, <2>5, <2>6
<1>11. ASSUME NEW p \in Proc, erase_head(p) PROVE LogBlocks'
  <2>1. /\ boot = "up" /\ pc[p] = "install" /\ boot' = boot
        /\ pc' = [pc EXCEPT ![p] = "committed"]
    BY <1>11 DEF erase_head, Up, goto
  <2>2. \A q \in Proc : pc'[q] # "write_log" /\ pc'[q] # "install"
    BY <2>1 DEF TypeOK
  <2> QED BY <2>1, <2>2
<1>12. ASSUME NEW p \in Proc, commit_done(p) PROVE LogBlocks'
  <2>1. /\ boot = "up" /\ pc[p] = "committed" /\ pc'[p] = "idle" /\ boot' = boot
        /\ \A q \in Proc \ {p} : pc'[q] = pc[q] \/ (pc[q] = "asleep" /\ pc'[q] = "begin")
    BY <1>12, DoneStep
  <2>2. \A q \in Proc : pc'[q] # "write_log" /\ pc'[q] # "install"
    BY <2>1
  <2> QED BY <2>1, <2>2
<1>13. ASSUME NEW p \in Proc, NEW b \in Block, NEW v \in Val, log_write(p, b, v) PROVE LogBlocks'
  <2>1. boot = "up" /\ pc[p] = "active" /\ UNCHANGED <<pc, boot>>
    BY <1>13, WriteStep
  <2>2. \A q \in Proc : pc'[q] # "write_log" /\ pc'[q] # "install"
    BY <2>1
  <2> QED BY <2>1, <2>2
<1>14. CASE UNCHANGED vars
  BY <1>14 DEF vars, n, bread
<1>15. ASSUME NEW p \in Proc, NEW b \in Block, NEW v \in Val, writei_fails(p, b, v) PROVE LogBlocks'
  <2>1. boot = "up" /\ pc[p] = "active" /\ UNCHANGED <<pc, boot>>
    BY <1>15, FailStep
  <2>2. \A q \in Proc : pc'[q] # "write_log" /\ pc'[q] # "install"
    BY <2>1
  <2> QED BY <2>1, <2>2
<1> QED
  BY <1>1, <1>2, <1>3, <1>4, <1>5, <1>6, <1>7, <1>8, <1>9, <1>10, <1>11, <1>12, <1>13, <1>14, <1>15
  DEF Next, Recovery, OpStep

\* An operation that ends gives its reservation back, and nothing else changes it.
LEMMA Shrinks ==
  ASSUME TypeOK, ReservationHolds, n' \in Nat, n' <= n, wrote' = wrote,
         \A p \in Proc : pc'[p] = "active" => pc[p] = "active"
  PROVE  ReservationHolds'
<1>1. reserved' \in SUBSET reserved
  BY DEF reserved, active
<1>2. Cardinality(reserved') <= Cardinality(reserved) /\ Cardinality(reserved') \in Nat
  BY <1>1, ReservedFinite, FS_Subset, FS_CardinalityType
<1> QED BY <1>2, ReservedFinite, HeaderType DEF ReservationHolds

\* Without operations there is no reservation.
LEMMA NoneReserved ==
  ASSUME NEW m \in Nat, n' = m, m <= LOGSIZE, \A p \in Proc : pc'[p] # "active"
  PROVE  ReservationHolds'
<1>1. reserved' = {}
  BY DEF reserved, active
<1>2. Cardinality(reserved') = 0
  BY <1>1, FS_EmptySet
<1> QED BY <1>2 DEF ReservationHolds

\* Every step keeps the reserved space.
LEMMA ReservationStep == TypeOK /\ Counting /\ Writing /\ ReservationHolds /\ Header /\ [Next]_vars => ReservationHolds'
<1> SUFFICES ASSUME TypeOK, Counting, Writing, ReservationHolds, Header, [Next]_vars PROVE ReservationHolds'
  OBVIOUS
<1>h. /\ n \in Nat /\ n <= LOGSIZE
      /\ \A i \in 1..n : lh[i] \in Block
      /\ logged \subseteq Block
  BY HeaderType
<1>d. \A i, j \in 1..n : lh[i] = lh[j] => i = j
  BY DEF Header, Distinct, n
<1>l. n' \in Nat /\ n' <= LOGSIZE
  <2>1. lh' \in Seq(Block) /\ n' <= LOGSIZE
    BY ListStep DEF Lists
  <2> QED BY <2>1, LenProperties DEF n
<1>1. ASSUME read_head PROVE ReservationHolds'
  <2>1. \A q \in Proc : pc'[q] # "active"
    BY <1>1 DEF read_head, Counting, CommitAt, TypeOK
  <2> QED BY <1>l, <2>1, NoneReserved
<1>2. ASSUME recover_install PROVE ReservationHolds'
  <2>1. \A q \in Proc : pc'[q] # "active"
    BY <1>2 DEF recover_install, Counting, CommitAt, TypeOK
  <2> QED BY <1>l, <2>1, NoneReserved
<1>3. ASSUME recover_erase PROVE ReservationHolds'
  <2>1. \A q \in Proc : pc'[q] # "active"
    BY <1>3 DEF recover_erase, Counting, CommitAt, TypeOK
  <2> QED BY <1>l, <2>1, NoneReserved
<1>4. ASSUME crash PROVE ReservationHolds'
  <2>1. \A q \in Proc : pc'[q] # "active"
    BY <1>4 DEF crash, Counting, CommitAt, TypeOK
  <2> QED BY <1>l, <2>1, NoneReserved
<1>5. ASSUME NEW b \in Block, evict(b) PROVE ReservationHolds'
  <2>1. wrote' = wrote /\ n' = n /\ \A q \in Proc : pc'[q] = "active" => pc[q] = "active"
    BY <1>5 DEF evict, n
  <2> QED BY <1>h, <2>1, Shrinks
<1>6. ASSUME NEW p \in Proc, begin_op(p) PROVE ReservationHolds'
  <2>1. /\ boot = "up" /\ pc[p] \in {"idle", "begin"} /\ wrote' = [wrote EXCEPT ![p] = {}]
        /\ \/ may_begin /\ outstanding' = outstanding + 1 /\ pc' = [pc EXCEPT ![p] = "active"]
           \/ outstanding' = outstanding /\ pc' = [pc EXCEPT ![p] = "asleep"]
        /\ UNCHANGED <<disk, dlog, dhead, cache, pinned, lh, committing, tail, boot, panic>>
    BY <1>6, BeginStep
  <2>2. n' = n
    BY <2>1 DEF n
  <2>3. CASE may_begin /\ outstanding' = outstanding + 1
    <3>1. Cardinality(active') = outstanding + 1 /\ outstanding \in Nat
      BY <2>3, CountStep DEF Counting, TypeOK
    <3>2. IsFiniteSet(1..MAXOPBLOCKS) /\ Cardinality(1..MAXOPBLOCKS) = MAXOPBLOCKS
      BY FS_Interval
    <3>3. IsFiniteSet(active')
      <4>1. active' \in SUBSET Proc
        BY DEF active
      <4> QED BY <4>1, FS_Subset
    <3>4. /\ IsFiniteSet(active' \X (1..MAXOPBLOCKS))
          /\ Cardinality(active' \X (1..MAXOPBLOCKS)) = Cardinality(active') * MAXOPBLOCKS
      BY <3>2, <3>3, FS_Product
    <3>5. reserved' \in SUBSET (active' \X (1..MAXOPBLOCKS))
      BY DEF reserved
    <3>6. Cardinality(reserved') <= Cardinality(active') * MAXOPBLOCKS
      BY <3>4, <3>5, FS_Subset
    <3>7. Cardinality(reserved') \in Nat
      BY <3>4, <3>5, FS_Subset, FS_CardinalityType
    <3>8. n + (outstanding + 1) * MAXOPBLOCKS <= LOGSIZE
      BY <2>3 DEF may_begin, has_space
    <3> QED BY <1>h, <2>2, <3>1, <3>6, <3>7, <3>8 DEF ReservationHolds
  <2>4. CASE pc' = [pc EXCEPT ![p] = "asleep"]
    <3>1. active' = active /\ \A q \in active : wrote'[q] = wrote[q]
      BY <2>1, <2>4 DEF active, TypeOK
    <3>2. reserved' = reserved
      BY <3>1 DEF reserved
    <3> QED BY <2>2, <3>2 DEF ReservationHolds
  <2> QED BY <2>1, <2>3, <2>4
<1>7. ASSUME NEW p \in Proc, end_op(p) PROVE ReservationHolds'
  <2>1. wrote' = wrote /\ n' = n
    BY <1>7, EndStep DEF n
  <2>2. \A q \in Proc : pc'[q] = "active" => pc[q] = "active"
    BY <1>7, EndStep, EndOthers
  <2> QED BY <1>h, <2>1, <2>2, Shrinks
<1>8. ASSUME NEW p \in Proc, write_log(p) PROVE ReservationHolds'
  <2>1. wrote' = wrote /\ n' = n /\ \A q \in Proc : pc'[q] = "active" => pc[q] = "active"
    BY <1>8 DEF write_log, n
  <2> QED BY <1>h, <2>1, Shrinks
<1>9. ASSUME NEW p \in Proc, write_head(p) PROVE ReservationHolds'
  <2>1. \A q \in Proc : pc'[q] # "active"
    BY <1>9 DEF write_head, goto, Counting, CommitAt, TypeOK
  <2> QED BY <1>l, <2>1, NoneReserved
<1>10. ASSUME NEW p \in Proc, install_trans(p) PROVE ReservationHolds'
  <2>1. wrote' = wrote /\ n' = n /\ \A q \in Proc : pc'[q] = "active" => pc[q] = "active"
    BY <1>10 DEF install_trans, n
  <2> QED BY <1>h, <2>1, Shrinks
<1>11. ASSUME NEW p \in Proc, erase_head(p) PROVE ReservationHolds'
  <2>1. \A q \in Proc : pc'[q] # "active"
    BY <1>11 DEF erase_head, goto, Counting, CommitAt, TypeOK
  <2> QED BY <1>l, <2>1, NoneReserved
<1>12. ASSUME NEW p \in Proc, commit_done(p) PROVE ReservationHolds'
  <2>1. /\ wrote' = wrote /\ n' = n
        /\ \A q \in Proc : pc'[q] = "active" => pc[q] = "active"
    BY <1>12, DoneStep DEF n
  <2> QED BY <1>h, <2>1, Shrinks
<1>13. ASSUME NEW p \in Proc, NEW b \in Block, NEW v \in Val, log_write(p, b, v) PROVE ReservationHolds'
  <2>1. /\ boot = "up" /\ pc[p] = "active" /\ panic' = FALSE
        /\ Cardinality(wrote[p] \cup {b}) <= OPBLOCKS
        /\ cache' = [cache EXCEPT ![b] = v]
        /\ wrote' = [wrote EXCEPT ![p] = wrote[p] \cup {b}]
        /\ UNCHANGED <<disk, dlog, dhead, outstanding, committing, pc, tail, boot>>
    BY <1>13, WriteStep
  <2>2. \/ b \in logged /\ lh' = lh /\ pinned' = pinned
        \/ /\ b \notin logged /\ lh' = Append(lh, b) /\ pinned' = pinned \cup {b}
           /\ lh' \in Seq(Block) /\ n' = n + 1 /\ n < LOGSIZE
           /\ \A i \in 1..n : lh'[i] = lh[i]
           /\ logged' = logged \cup {b}
           /\ Distinct(lh)'
    BY <1>13, WriteStep
  <2>3. CASE b \in wrote[p]
    <3>1. wrote' = wrote
      BY <2>1, <2>3 DEF TypeOK
    <3>2. b \in logged
      BY <2>1, <2>3 DEF Writing
    <3>3. n' = n
      BY <2>2, <3>2 DEF n
    <3> QED BY <1>h, <2>1, <3>1, <3>3, Shrinks
  <2>4. CASE b \notin wrote[p]
    <3> DEFINE w == Cardinality(wrote[p])
    <3> DEFINE r == <<p, w + 1>>
    <3>1. w \in Nat /\ Cardinality(wrote[p] \cup {b}) = w + 1 /\ w + 1 <= OPBLOCKS
      <4>1. IsFiniteSet(wrote[p])
        BY DEF Writing
      <4>2. Cardinality(wrote[p] \cup {b}) = w + 1
        BY <2>4, <4>1, FS_AddElement
      <4>3. w \in Nat
        BY <4>1, FS_CardinalityType
      <4> QED BY <2>1, <4>2, <4>3
    <3>2. n' <= n + 1
      BY <1>h, <2>2 DEF n
    <3>3. Cardinality(wrote'[p]) = w + 1 /\ \A q \in Proc \ {p} : wrote'[q] = wrote[q]
      BY <2>1, <3>1 DEF TypeOK
    <3>4. r \in reserved
      <4>1. p \in active /\ w + 1 \in 1..MAXOPBLOCKS
        BY <2>1, <3>1 DEF active
      <4> QED BY <3>1, <4>1 DEF reserved
    <3>5. reserved' \in SUBSET (reserved \ {r})
      <4> SUFFICES ASSUME NEW x \in reserved' PROVE x \in reserved /\ x # r
        OBVIOUS
      <4>1. /\ x \in active \X (1..MAXOPBLOCKS) /\ x[1] \in Proc
            /\ x[2] \in Nat /\ x[2] > Cardinality(wrote'[x[1]])
        BY <2>1 DEF reserved, active
      <4>2. CASE x[1] = p
        BY <3>1, <3>3, <4>1, <4>2 DEF reserved
      <4>3. CASE x[1] # p
        BY <3>3, <4>1, <4>3 DEF reserved
      <4> QED BY <4>2, <4>3
    <3> HIDE DEF w, r
    <3>6. Cardinality(reserved \ {r}) = Cardinality(reserved) - 1 /\ IsFiniteSet(reserved \ {r})
      BY <3>4, ReservedFinite, FS_RemoveElement
    <3>7. Cardinality(reserved') <= Cardinality(reserved) - 1
      BY <3>5, <3>6, FS_Subset
    <3>8. Cardinality(reserved') \in Nat
      BY <3>5, <3>6, FS_Subset, FS_CardinalityType
    <3> QED BY <1>h, <1>l, <3>2, <3>7, <3>8, ReservedFinite DEF ReservationHolds
  <2> QED BY <2>3, <2>4
<1>14. CASE UNCHANGED vars
  BY <1>14 DEF vars, ReservationHolds, reserved, active, n
<1>15. ASSUME NEW p \in Proc, NEW b \in Block, NEW v \in Val, writei_fails(p, b, v) PROVE ReservationHolds'
  <2>1. wrote' = wrote /\ n' = n /\ \A q \in Proc : pc'[q] = "active" => pc[q] = "active"
    BY <1>15, FailStep DEF n
  <2> QED BY <1>h, <2>1, Shrinks
<1> QED
  BY <1>1, <1>2, <1>3, <1>4, <1>5, <1>6, <1>7, <1>8, <1>9, <1>10, <1>11, <1>12, <1>13, <1>14, <1>15
  DEF Next, Recovery, OpStep

\* No step panics.
LEMMA PanicStep == TypeOK /\ Counting /\ Writing /\ ReservationHolds /\ Header /\ NoPanic /\ [Next]_vars => NoPanic'
<1> SUFFICES ASSUME TypeOK, Counting, Writing, ReservationHolds, Header, NoPanic, [Next]_vars PROVE NoPanic'
  OBVIOUS
<1> USE DEF NoPanic
<1>1. ASSUME read_head PROVE NoPanic'
  BY <1>1 DEF read_head, diskVars
<1>2. ASSUME recover_install PROVE NoPanic'
  BY <1>2 DEF recover_install, diskVars
<1>3. ASSUME recover_erase PROVE NoPanic'
  BY <1>3 DEF recover_erase, diskVars
<1>4. ASSUME crash PROVE NoPanic'
  BY <1>4 DEF crash, diskVars
<1>5. ASSUME NEW b \in Block, evict(b) PROVE NoPanic'
  BY <1>5 DEF evict, Up, diskVars
<1>6. ASSUME NEW p \in Proc, begin_op(p) PROVE NoPanic'
  BY <1>6, BeginStep
<1>7. ASSUME NEW p \in Proc, end_op(p) PROVE NoPanic'
  BY <1>7, EndStep DEF Counting
<1>8. ASSUME NEW p \in Proc, write_log(p) PROVE NoPanic'
  BY <1>8 DEF write_log, Up
<1>9. ASSUME NEW p \in Proc, write_head(p) PROVE NoPanic'
  BY <1>9 DEF write_head, goto, Up
<1>10. ASSUME NEW p \in Proc, install_trans(p) PROVE NoPanic'
  BY <1>10 DEF install_trans, Up
<1>11. ASSUME NEW p \in Proc, erase_head(p) PROVE NoPanic'
  BY <1>11 DEF erase_head, goto, Up
<1>12. ASSUME NEW p \in Proc, commit_done(p) PROVE NoPanic'
  BY <1>12, DoneStep
<1>13. ASSUME NEW p \in Proc, NEW b \in Block, NEW v \in Val, log_write(p, b, v) PROVE NoPanic'
  BY <1>13, WriteStep
<1>14. CASE UNCHANGED vars
  BY <1>14 DEF vars
<1>15. ASSUME NEW p \in Proc, NEW b \in Block, NEW v \in Val, writei_fails(p, b, v) PROVE NoPanic'
  BY <1>15, FailStep
<1> QED
  BY <1>1, <1>2, <1>3, <1>4, <1>5, <1>6, <1>7, <1>8, <1>9, <1>10, <1>11, <1>12, <1>13, <1>14, <1>15
  DEF Next, Recovery, OpStep

\* The machine starts in a state that satisfies the inductive invariant.
LEMMA InitInv == Init => IInv
<1> SUFFICES ASSUME Init PROVE IInv
  OBVIOUS
<1>1. n = 0 /\ logged = {} /\ lh = <<>> /\ dhead = <<>>
  BY EmptyHeader DEF Init, n, logged
<1>2. active = {} /\ reserved = {} /\ Cardinality({}) = 0 /\ IsFiniteSet({})
  BY FS_EmptySet DEF Init, active, reserved
<1>3. TypeOK
  <2>1. Cardinality(Proc) \in Nat
    BY FS_CardinalityType
  <2>2. 0 \in 0..Cardinality(Proc) /\ 1 \in 1..(LOGSIZE + 1) /\ 0 <= LOGSIZE
    BY <2>1
  <2>3. <<>> \in Seq(Block) /\ Len(<<>>) = 0
    BY EmptyHeader
  <2> QED BY <1>1, <1>2, <2>2, <2>3 DEF Init, TypeOK
<1>4. NoPanic /\ ReservationHolds /\ Counting /\ Writing
  BY <1>1, <1>2 DEF Init, NoPanic, ReservationHolds, Counting, CommitAt, Writing
<1>5. Header /\ Pins /\ Cached /\ LogBlocks
  BY <1>1, EmptyHeader DEF Init, Header, Pins, Cached, LogBlocks
<1> QED BY <1>3, <1>4, <1>5 DEF IInv

\* The invariant is inductive.
LEMMA Inductive == IInv /\ [Next]_vars => IInv'
  BY TypeStep, PanicStep, ReservationStep, CountStep, WritingStep, HeaderStep, PinsStep,
     CacheStep, LogBlocksStep
  DEF IInv

\* The inductive invariant holds in every reachable state.
LEMMA Invariant == Spec => []IInv
  BY InitInv, Inductive, PTL DEF Spec

\* Every variable of log.c keeps its type; the header lists no block twice and fits.
THEOREM TypeCorrect == Spec => []TypeOK
<1>1. IInv => TypeOK
  BY DEF IInv
<1> QED BY <1>1, Invariant, PTL

\* None of the panics of log.c is reachable, whatever the operations write and
\* absorb, if they keep to OPBLOCKS blocks.
THEOREM PanicsCorrect == Spec => []NoPanic
<1>1. IInv => NoPanic
  BY DEF IInv
<1> QED BY <1>1, Invariant, PTL

\* begin_op() never promises space that the log does not have.
THEOREM ReservationCorrect == Spec => []ReservationHolds
<1>1. IInv => ReservationHolds
  BY DEF IInv
<1> QED BY <1>1, Invariant, PTL

----------------------------------------------------------------------------
\* What recovery would make of the disk, without the CHOOSE of durable.
DurableIs ==
  /\ durable = [b \in Block |-> durable[b]]
  /\ \A i \in 1..Len(dhead) : durable[dhead[i]] = dlog[i]
  /\ \A b \in Block : (\A i \in 1..Len(dhead) : dhead[i] # b) => durable[b] = disk[b]

\* The header on the disk names each block once, so recovery has no choice.
LEMMA DurableFacts == IInv => DurableIs
<1> SUFFICES ASSUME IInv PROVE DurableIs
  OBVIOUS
<1>1. ASSUME NEW i \in 1..Len(dhead) PROVE durable[dhead[i]] = dlog[i]
  <2>1. dhead[i] \in Block
    BY ElementOfSeq DEF IInv, TypeOK
  <2>2. \A j \in 1..Len(dhead) : dhead[j] = dhead[i] => j = i
    BY DEF IInv, Header, Distinct
  <2>3. (CHOOSE j \in 1..Len(dhead) : dhead[j] = dhead[i]) = i
    BY <2>2
  <2> QED BY <2>1, <2>3 DEF durable
<1>2. ASSUME NEW b \in Block, \A i \in 1..Len(dhead) : dhead[i] # b PROVE durable[b] = disk[b]
  BY <1>2 DEF durable
<1>3. durable = [b \in Block |-> durable[b]]
  BY DEF durable
<1> QED BY <1>1, <1>2, <1>3 DEF DurableIs

\* With an empty header, or with every logged block at home, recovery would change
\* nothing.
LEMMA DurableDisk ==
  ASSUME TypeOK, DurableIs, \A i \in 1..Len(dhead) : disk[dhead[i]] = dlog[i]
  PROVE  durable = disk
<1>1. ASSUME NEW b \in Block PROVE durable[b] = disk[b]
  <2>1. CASE \E i \in 1..Len(dhead) : dhead[i] = b
    <3>1. PICK i \in 1..Len(dhead) : dhead[i] = b
      BY <2>1
    <3>2. durable[dhead[i]] = dlog[i] /\ disk[dhead[i]] = dlog[i]
      BY DEF DurableIs
    <3> QED BY <3>1, <3>2
  <2>2. CASE \A i \in 1..Len(dhead) : dhead[i] # b
    BY <2>2 DEF DurableIs
  <2> QED BY <2>1, <2>2
<1>2. disk = [b \in Block |-> disk[b]]
  BY DEF TypeOK
<1> QED BY <1>1, <1>2 DEF DurableIs

\* Writing a block of the header home changes nothing that is durable.
LEMMA InstallDurable ==
  ASSUME TypeOK, DurableIs, DurableIs', UNCHANGED <<dlog, dhead>>, NEW i \in 1..Len(dhead),
         NEW v, disk' = [disk EXCEPT ![dhead[i]] = v]
  PROVE  durable' = durable
<1>1. ASSUME NEW b \in Block PROVE durable'[b] = durable[b]
  <2>1. CASE \E j \in 1..Len(dhead) : dhead[j] = b
    BY <2>1 DEF DurableIs
  <2>2. CASE \A j \in 1..Len(dhead) : dhead[j] # b
    BY <2>2 DEF DurableIs, TypeOK
  <2> QED BY <2>1, <2>2
<1> QED BY <1>1 DEF DurableIs

\* Steps that leave the disk alone leave alone what is durable.
LEMMA SameDurable ==
  ASSUME UNCHANGED <<disk, dlog, dhead>> PROVE durable' = durable
  BY DEF durable

\* Steps that leave every block as it is seen through the cache.
LEMMA SameLogical ==
  ASSUME boot = "up", boot' = "up", \A b \in Block : bread(b)' = bread(b)
  PROVE  logical' = logical
  BY DEF logical

\* A step that changes one block in the cache.
LEMMA ChangeLogical ==
  ASSUME TypeOK, boot = "up", boot' = "up", disk' = disk, NEW b \in Block, NEW v \in Val,
         cache' = [cache EXCEPT ![b] = v]
  PROVE  logical' = [logical EXCEPT ![b] = v]
<1>1. bread(b)' = v /\ \A x \in Block \ {b} : bread(x)' = bread(x)
  BY DEF bread, TypeOK
<1>2. logical = [x \in Block |-> bread(x)] /\ logical' = [x \in Block |-> bread(x)']
  BY DEF logical
<1> QED BY <1>1, <1>2

\* No block is fresh where a header is on the disk or none is in memory.
LEMMA NoneFresh == (dhead = lh \/ lh = <<>> => fresh = {}) /\ (dhead = <<>> => fresh = logged)
  BY EmptyHeader DEF fresh, logged, n

\* Steps that leave both headers alone.
LEMMA SameFresh ==
  ASSUME UNCHANGED <<lh, dhead>> PROVE fresh' = fresh
  BY DEF fresh, logged, n

\* Every step of log.c is a step of the atomic disk or changes nothing there.
LEMMA RefinementStep == IInv /\ IInv' /\ [Next]_vars => [Abs!LNext]_(Abs!lvars)
<1> SUFFICES ASSUME IInv, IInv', [Next]_vars PROVE [Abs!LNext]_(Abs!lvars)
  OBVIOUS
<1>0. DurableIs /\ DurableIs'
  <2>1. DurableIs
    BY DurableFacts
  <2>2. DurableIs'
    BY DurableFacts, PTL
  <2> QED BY <2>1, <2>2
<1>t. /\ TypeOK /\ Counting /\ Writing /\ ReservationHolds /\ Header
      /\ Pins /\ Cached /\ LogBlocks /\ TypeOK'
  BY DEF IInv
<1>h. /\ n \in Nat /\ n <= LOGSIZE
      /\ \A i \in 1..n : lh[i] \in Block
  BY <1>t, HeaderType
<1>d. \A i, j \in 1..n : lh[i] = lh[j] => i = j
  BY <1>t DEF Header, Distinct, n
<1>e. Len(<<>>) = 0
  BY EmptyHeader
<1>f. /\ dhead = lh \/ lh = <<>> => fresh = {}
      /\ dhead' = lh' \/ lh' = <<>> => fresh' = {}
      /\ dhead = <<>> => fresh = logged
  BY EmptyHeader DEF fresh, logged, n
<1>1. ASSUME read_head PROVE UNCHANGED Abs!lvars
  <2>1. boot = "read_head" /\ boot' # "up" /\ lh' = dhead /\ UNCHANGED <<disk, dlog, dhead, pc>>
    BY <1>1 DEF read_head, diskVars
  <2>2. fresh' = fresh
    BY <1>f, <1>t, <2>1 DEF Header
  <2> QED BY <2>1, <2>2, SameDurable DEF logical, active, Abs!lvars
<1>2. ASSUME recover_install PROVE UNCHANGED Abs!lvars
  <2>1. /\ boot = "install" /\ boot' = boot /\ tail <= n /\ UNCHANGED <<dlog, dhead, lh, pc>>
        /\ disk' = [disk EXCEPT ![lh[tail]] = dlog[tail]]
    BY <1>2 DEF recover_install
  <2>2. lh = dhead /\ tail \in 1..Len(dhead)
    BY <1>h, <1>t, <2>1 DEF Header, TypeOK, n
  <2>3. durable' = durable
    BY <1>0, <1>t, <2>1, <2>2, InstallDurable
  <2> QED BY <2>1, <2>3, SameFresh DEF logical, active, Abs!lvars
<1>3. ASSUME recover_erase PROVE UNCHANGED Abs!lvars
  <2>1. /\ boot = "install" /\ boot' = "up" /\ tail > n /\ dhead' = <<>> /\ lh' = <<>>
        /\ UNCHANGED <<disk, dlog, pc, cache, pinned>>
    BY <1>3 DEF recover_erase
  <2>2. durable = disk
    <3>1. \A i \in 1..n : i < tail /\ disk[lh[i]] = dlog[i]
      BY <1>h, <1>t, <2>1 DEF LogBlocks, TypeOK
    <3>2. \A i \in 1..Len(dhead) : disk[dhead[i]] = dlog[i]
      BY <1>t, <2>1, <3>1 DEF Header, n
    <3> QED BY <1>0, <1>t, <3>2, DurableDisk
  <2>3. durable' = disk
    <3>1. \A b \in Block : durable'[b] = disk[b]
      BY <1>0, <1>e, <2>1 DEF DurableIs
    <3>2. disk = [b \in Block |-> disk[b]]
      BY <1>t DEF TypeOK
    <3> QED BY <1>0, <3>1, <3>2 DEF DurableIs
  <2>4. \A b \in Block : bread(b)' = disk[b]
    BY <1>t, <2>1 DEF Pins, Cached, bread
  <2>5. logical' = disk
    <3>1. logical' = [b \in Block |-> disk[b]]
      BY <2>1, <2>4 DEF logical
    <3> QED BY <1>t, <3>1 DEF TypeOK
  <2>6. fresh' = fresh
    BY <1>f, <1>t, <2>1 DEF Header
  <2> QED BY <2>1, <2>2, <2>3, <2>5, <2>6 DEF logical, active, Abs!lvars
<1>4. ASSUME crash PROVE Abs!LCrash
  <2>1. boot' # "up" /\ durable' = durable /\ active' = {} /\ fresh' = {}
    BY <1>4, <1>f, SameDurable DEF crash, diskVars, active
  <2> QED BY <2>1 DEF logical, Abs!LCrash
<1>5. ASSUME NEW b \in Block, evict(b) PROVE Abs!LNext
  <2>1. /\ boot = "up" /\ boot' = boot /\ b \notin pinned /\ cache' = [cache EXCEPT ![b] = NoVal]
        /\ UNCHANGED <<disk, dlog, dhead, lh, pc>>
    BY <1>5 DEF evict, Up, diskVars
  <2>2. durable' = durable /\ active' = active /\ fresh' = fresh
    BY <2>1, SameDurable, SameFresh DEF active
  <2>3. b \notin fresh /\ durable[b] = disk[b]
    <3>1. CASE \E q \in Proc : pc[q] = "install"
      <4>1. PICK q \in Proc : pc[q] = "install"
        BY <3>1
      <4>2. lh = dhead /\ pinned = {lh[i] : i \in tail..n} /\ tail \in Nat \ {0}
        BY <1>t, <4>1 DEF Header, Pins, TypeOK
      <4>3. ASSUME NEW i \in 1..n, lh[i] = b PROVE durable[b] = disk[b]
        <5>1. i < tail
          BY <1>h, <2>1, <4>2, <4>3
        <5>2. disk[lh[i]] = dlog[i]
          BY <1>t, <4>1, <5>1 DEF LogBlocks
        <5>3. durable[dhead[i]] = dlog[i]
          BY <1>0, <4>2 DEF DurableIs, n
        <5> QED BY <4>2, <4>3, <5>2, <5>3
      <4>4. ASSUME \A i \in 1..n : lh[i] # b PROVE durable[b] = disk[b]
        BY <1>0, <4>2, <4>4 DEF DurableIs, n
      <4>5. durable[b] = disk[b]
        BY <4>3, <4>4
      <4>6. fresh = {}
        BY <1>f, <4>2
      <4> QED BY <4>5, <4>6
    <3>2. CASE \A q \in Proc : pc[q] # "install"
      <4>1. dhead = <<>> /\ pinned = logged
        BY <1>t, <2>1, <3>2 DEF Header, Pins
      <4>2. durable[b] = disk[b]
        BY <1>0, <1>e, <4>1 DEF DurableIs
      <4> QED BY <1>f, <2>1, <4>1, <4>2
    <3> QED BY <3>1, <3>2
  <2>4. logical' = [logical EXCEPT ![b] = durable[b]]
    <3>1. bread(b)' = disk[b] /\ \A x \in Block \ {b} : bread(x)' = bread(x)
      BY <1>t, <2>1 DEF bread, TypeOK
    <3>2. logical = [x \in Block |-> bread(x)] /\ logical' = [x \in Block |-> bread(x)']
      BY <2>1 DEF logical
    <3> QED BY <2>3, <3>1, <3>2
  <2> QED BY <2>2, <2>3, <2>4 DEF Abs!LNext, Abs!LForget
<1>6. ASSUME NEW p \in Proc, begin_op(p) PROVE [Abs!LNext]_(Abs!lvars)
  <2>1. /\ boot = "up" /\ pc[p] \in {"idle", "begin"}
        /\ pc' = [pc EXCEPT ![p] = "active"] \/ pc' = [pc EXCEPT ![p] = "asleep"]
        /\ UNCHANGED <<disk, dlog, dhead, lh, cache, boot>>
    BY <1>6, BeginStep
  <2>2. durable' = durable /\ logical' = logical /\ fresh' = fresh
    BY <2>1, SameDurable, SameLogical, SameFresh DEF bread
  <2>3. CASE pc' = [pc EXCEPT ![p] = "active"]
    <3>1. p \notin active /\ active' = active \cup {p}
      BY <1>t, <2>1, <2>3 DEF active, TypeOK
    <3> QED BY <2>2, <3>1 DEF Abs!LNext, Abs!LBegin
  <2>4. CASE pc' = [pc EXCEPT ![p] = "asleep"]
    <3>1. active' = active
      BY <1>t, <2>1, <2>4 DEF active, TypeOK
    <3> QED BY <2>2, <3>1 DEF Abs!lvars
  <2> QED BY <2>1, <2>3, <2>4
<1>7. ASSUME NEW p \in Proc, end_op(p) PROVE Abs!LNext
  <2>1. boot = "up" /\ pc[p] = "active" /\ UNCHANGED <<disk, dlog, dhead, lh, cache, boot>>
    BY <1>7, <1>t, EndStep
  <2>2. durable' = durable /\ logical' = logical /\ fresh' = fresh
    BY <2>1, SameDurable, SameLogical, SameFresh DEF bread
  <2>3. p \in active /\ active' = active \ {p}
    <3>1. /\ pc'[p] \in {"idle", "write_log", "committed"}
          /\ \A q \in Proc \ {p} : pc'[q] = pc[q] \/ (pc[q] = "asleep" /\ pc'[q] = "begin")
      BY <1>7, <1>t, EndOthers
    <3> QED BY <2>1, <3>1 DEF active
  <2> QED BY <2>2, <2>3 DEF Abs!LNext, Abs!LEnd
<1>8. ASSUME NEW p \in Proc, write_log(p) PROVE UNCHANGED Abs!lvars
  <2>1. boot = "up" /\ pc[p] = "write_log" /\ UNCHANGED <<disk, dhead, lh, cache, pc, boot>>
    BY <1>8 DEF write_log, Up
  <2>2. dhead = <<>>
    BY <1>t, <2>1 DEF Header, Counting, CommitAt
  <2>3. durable' = durable
    <3>1. \A b \in Block : durable'[b] = disk[b] /\ durable[b] = disk[b]
      BY <1>0, <1>e, <2>1, <2>2 DEF DurableIs
    <3> QED BY <1>0, <3>1 DEF DurableIs
  <2>4. logical' = logical
    BY <2>1, SameLogical DEF bread
  <2> QED BY <2>1, <2>3, <2>4, SameFresh DEF active, Abs!lvars
<1>9. ASSUME NEW p \in Proc, write_head(p) PROVE Abs!LNext
  <2>1. /\ boot = "up" /\ pc[p] = "write_log" /\ pc' = [pc EXCEPT ![p] = "install"]
        /\ tail > n /\ dhead' = lh /\ UNCHANGED <<disk, dlog, lh, cache, boot>>
    BY <1>9 DEF write_head, Up, goto
  <2>2. active = {} /\ active' = {}
    BY <1>t, <2>1 DEF active, Counting, CommitAt, TypeOK
  <2>3. logical' = logical
    BY <2>1, SameLogical DEF bread
  <2>4. fresh' = {} /\ fresh = logged /\ dhead = <<>>
    BY <1>f, <1>t, <2>1 DEF Header, Counting, CommitAt
  <2>5. durable' = [b \in Block |-> IF b \in fresh THEN logical[b] ELSE durable[b]]
    <3>1. ASSUME NEW b \in Block, b \in fresh PROVE durable'[b] = logical[b]
      <4>1. PICK i \in 1..n : lh[i] = b
        BY <2>4, <3>1 DEF logged
      <4>2. durable'[lh[i]] = dlog[i]
        BY <1>0, <2>1 DEF DurableIs, n
      <4>3. i < tail
        BY <1>h, <1>t, <2>1 DEF TypeOK
      <4>4. dlog[i] = bread(lh[i])
        BY <1>t, <2>1, <4>3 DEF LogBlocks
      <4> QED BY <2>1, <4>1, <4>2, <4>4 DEF logical
    <3>2. ASSUME NEW b \in Block, b \notin fresh PROVE durable'[b] = durable[b]
      <4>1. \A i \in 1..n : lh[i] # b
        BY <2>4, <3>2 DEF logged
      <4>2. durable'[b] = disk[b]
        BY <1>0, <2>1, <4>1 DEF DurableIs, n
      <4>3. durable[b] = disk[b]
        BY <1>0, <1>e, <2>4 DEF DurableIs
      <4> QED BY <4>2, <4>3
    <3> QED BY <1>0, <3>1, <3>2 DEF DurableIs
  <2> QED BY <2>2, <2>3, <2>4, <2>5 DEF Abs!LNext, Abs!LCommit
<1>10. ASSUME NEW p \in Proc, install_trans(p) PROVE UNCHANGED Abs!lvars
  <2>1. /\ boot = "up" /\ pc[p] = "install" /\ tail <= n
        /\ UNCHANGED <<dlog, dhead, lh, pc, boot>>
        /\ disk' = [disk EXCEPT ![lh[tail]] = dlog[tail]]
        /\ cache' = [cache EXCEPT ![lh[tail]] = dlog[tail]]
    BY <1>10 DEF install_trans, Up
  <2>2. lh = dhead /\ tail \in 1..n /\ tail \in 1..Len(dhead)
    BY <1>h, <1>t, <2>1 DEF Header, TypeOK, n
  <2>3. durable' = durable
    BY <1>0, <1>t, <2>1, <2>2, InstallDurable
  <2>4. dlog[tail] = bread(lh[tail]) /\ dlog[tail] # NoVal /\ lh[tail] \in Block
    <3>1. tail \in 1..LOGSIZE
      BY <1>h, <2>2
    <3> QED BY <1>h, <1>t, <2>1, <2>2, <3>1 DEF LogBlocks, TypeOK
  <2>5. \A b \in Block : bread(b)' = bread(b)
    BY <1>t, <2>1, <2>4 DEF bread, TypeOK
  <2> QED BY <2>1, <2>3, <2>5, SameLogical, SameFresh DEF active, Abs!lvars
<1>11. ASSUME NEW p \in Proc, erase_head(p) PROVE UNCHANGED Abs!lvars
  <2>1. /\ boot = "up" /\ pc[p] = "install" /\ tail > n /\ dhead' = <<>> /\ lh' = <<>>
        /\ pc' = [pc EXCEPT ![p] = "committed"] /\ UNCHANGED <<disk, dlog, cache, boot>>
    BY <1>11 DEF erase_head, Up, goto
  <2>2. durable = disk
    <3>1. \A i \in 1..n : i < tail /\ disk[lh[i]] = dlog[i]
      BY <1>h, <1>t, <2>1 DEF LogBlocks, TypeOK
    <3>2. \A i \in 1..Len(dhead) : disk[dhead[i]] = dlog[i]
      BY <1>t, <2>1, <3>1 DEF Header, n
    <3> QED BY <1>0, <1>t, <3>2, DurableDisk
  <2>3. durable' = disk
    <3>1. \A b \in Block : durable'[b] = disk[b]
      BY <1>0, <1>e, <2>1 DEF DurableIs
    <3>2. disk = [b \in Block |-> disk[b]]
      BY <1>t DEF TypeOK
    <3> QED BY <1>0, <3>1, <3>2 DEF DurableIs
  <2>4. active' = active
    BY <1>t, <2>1 DEF active, TypeOK
  <2>5. logical' = logical
    BY <2>1, SameLogical DEF bread
  <2>6. fresh' = fresh
    BY <1>f, <1>t, <2>1 DEF Header
  <2> QED BY <2>2, <2>3, <2>4, <2>5, <2>6 DEF Abs!lvars
<1>12. ASSUME NEW p \in Proc, commit_done(p) PROVE UNCHANGED Abs!lvars
  <2>1. /\ boot = "up" /\ pc[p] = "committed" /\ pc'[p] = "idle"
        /\ \A q \in Proc \ {p} : pc'[q] = pc[q] \/ (pc[q] = "asleep" /\ pc'[q] = "begin")
        /\ UNCHANGED <<disk, dlog, dhead, lh, cache, boot>>
    BY <1>12, <1>t, DoneStep
  <2>2. active' = active
    BY <2>1 DEF active
  <2>3. logical' = logical /\ durable' = durable /\ fresh' = fresh
    BY <2>1, SameLogical, SameDurable, SameFresh DEF bread
  <2> QED BY <2>2, <2>3 DEF Abs!lvars
<1>13. ASSUME NEW p \in Proc, NEW b \in Block, NEW v \in Val, log_write(p, b, v) PROVE Abs!LNext
  <2>1. /\ boot = "up" /\ pc[p] = "active" /\ cache' = [cache EXCEPT ![b] = v]
        /\ UNCHANGED <<disk, dlog, dhead, pc, boot>>
    BY <1>13, <1>t, WriteStep
  <2>2. p \in active /\ active' = active /\ durable' = durable
    BY <2>1, SameDurable DEF active
  <2>3. logical' = [logical EXCEPT ![b] = v]
    BY <1>t, <2>1, ChangeLogical
  <2>4. logged' = logged \cup {b}
    <3>1. \/ b \in logged /\ lh' = lh
          \/ logged' = logged \cup {b}
      BY <1>13, <1>t, WriteStep
    <3> QED BY <3>1 DEF logged, n
  <2>5. dhead = <<>>
    BY <1>t, <2>1 DEF Header, Counting, CommitAt
  <2>6. fresh' = fresh \cup {b}
    BY <2>1, <2>4, <2>5 DEF fresh
  <2> QED BY <2>2, <2>3, <2>6 DEF Abs!LNext, Abs!LWrite
<1>14. CASE UNCHANGED vars
  <2>1. UNCHANGED <<disk, dlog, dhead, lh, cache, boot, pc>>
    BY <1>14 DEF vars
  <2>2. durable' = durable /\ fresh' = fresh
    BY <2>1, SameDurable, SameFresh
  <2> QED BY <2>1, <2>2 DEF logical, bread, active, Abs!lvars
<1>15. ASSUME NEW p \in Proc, NEW b \in Block, NEW v \in Val, writei_fails(p, b, v) PROVE Abs!LNext
  <2>1. /\ boot = "up" /\ pc[p] = "active" /\ cache' = [cache EXCEPT ![b] = v]
        /\ UNCHANGED <<disk, dlog, dhead, lh, pc, boot>>
    BY <1>15, FailStep
  <2>2. p \in active /\ active' = active /\ durable' = durable /\ fresh' = fresh
    BY <2>1, SameDurable DEF active, fresh, logged, n
  <2>3. logical' = [logical EXCEPT ![b] = v]
    BY <1>t, <2>1, ChangeLogical
  <2> QED BY <2>2, <2>3 DEF Abs!LNext, Abs!LUnlogged
<1> QED
  BY <1>1, <1>2, <1>3, <1>4, <1>5, <1>6, <1>7, <1>8, <1>9, <1>10, <1>11, <1>12, <1>13, <1>14, <1>15
  DEF Next, Recovery, OpStep, Abs!LNext

\* Logging makes operations atomic: whenever the machine stops, in a commit or in a
\* recovery too, what recovery finds is the logged changes of whole operations.
THEOREM Refinement == Spec => AtomicDisk
<1>1. Init => Abs!LInit
  <2> SUFFICES ASSUME Init PROVE Abs!LInit
    OBVIOUS
  <2>1. Len(dhead) = 0 /\ boot # "up" /\ disk = [b \in Block |-> 0]
    BY EmptyHeader DEF Init
  <2>2. durable = [b \in Block |-> 0]
    BY <2>1 DEF durable
  <2>3. active = {} /\ fresh = {}
    BY NoneFresh DEF Init, active
  <2> QED BY <2>1, <2>2, <2>3 DEF Abs!LInit, logical
<1> QED BY <1>1, Invariant, RefinementStep, PTL DEF Spec, AtomicDisk, Abs!Spec
=============================================================================
