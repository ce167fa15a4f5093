---------------------------- MODULE BcacheProofs ----------------------------
(***************************************************************************)
(* Proofs about Bcache for every number of processes, blocks and buffers,  *)
(* and every bound on the reads.                                           *)
(***************************************************************************)
EXTENDS Bcache, RingProofs, FiniteSetTheorems, TLAPS

USE BcacheAssumption

----------------------------------------------------------------------------
\* A process has a buffer from bget() to the end of brelse(), and its sleep
\* lock from acquiresleep() to releasesleep(); who has it has read the block.
Control ==
  /\ \A p \in Proc : pc[p] = "idle" <=> cur[p] = None
  /\ \A p \in Proc : cur[p] # None => want[p] # None
  /\ \A p \in Proc, k \in Buf :
       locked[k] = p <=> cur[p] = k /\ pc[p] \in {"read", "have", "dirty"}
  /\ \A p \in Proc : pc[p] = "read" => ~valid[cur[p]]
  /\ \A p \in Proc : pc[p] \in {"have", "dirty"} => valid[cur[p]]

\* The two parts of NotRecycled, a pinned block without its count.
BlockStays == \A p \in Proc : cur[p] # None => blockno[cur[p]] = want[p]
PinsStay == \A b \in pinned : \E k \in Buf : blockno[k] = b

IInv == CacheSound /\ Control

----------------------------------------------------------------------------
\* bget() finds the unused buffer that is last in the list, if there is any.
LEMMA VictimUnused ==
  ASSUME TypeOK, \E k \in Buf : unused(k)
  PROVE  victim \in Buf /\ refcnt[victim] = 0
<1> DEFINE T == {m \in Nat : \E i \in Buf : unused(lru[i]) /\ m = NBUF - i}
<1>1. PICK k \in Buf : unused(k)
  OBVIOUS
<1>2. PICK i0 \in Buf : lru[i0] = k
  BY DEF TypeOK
<1>3. NBUF - i0 \in T
  BY <1>1, <1>2 DEF Buf
<1>4. PICK m \in T : \A y \in T : m <= y
  <2>1. T \in SUBSET Nat /\ T # {}
    BY <1>3
  <2> HIDE DEF T
  <2> QED BY <2>1, LeastNat
<1>5. PICK i \in Buf : unused(lru[i]) /\ m = NBUF - i
  BY <1>4
<1>6. ASSUME NEW j \in (i + 1)..NBUF, unused(lru[j]) PROVE FALSE
  <2>1. NBUF - j \in T /\ NBUF - j < m
    BY <1>5, <1>6 DEF Buf
  <2> QED BY <2>1, <1>4, <1>5 DEF Buf
<1> DEFINE last == CHOOSE h \in Buf : unused(lru[h]) /\ \A j \in (h + 1)..NBUF : ~unused(lru[j])
<1>7. last \in Buf /\ unused(lru[last])
  BY <1>5, <1>6
<1>8. victim = lru[last]
  BY DEF victim
<1> QED BY <1>7, <1>8 DEF TypeOK, unused

\* What bget() does for a block that is cached.
LEMMA CachedStep ==
  ASSUME NEW p \in Proc, NEW b \in Block, bget(p, b), bget_cached(p, b)
  PROVE  /\ \E k \in Buf : /\ blockno[k] = b
                           /\ refcnt' = [refcnt EXCEPT ![k] = refcnt[k] + 1]
                           /\ cur' = [cur EXCEPT ![p] = k]
         /\ pc[p] = "idle" /\ pc' = [pc EXCEPT ![p] = "acquiresleep"]
         /\ want' = [want EXCEPT ![p] = b]
         /\ UNCHANGED <<disk, blockno, valid, data, lru, locked, pinned, panic>>
  BY DEF bget, bget_cached, goto, cached

\* What bget() does for a block that is not: the buffer it takes was unused.
LEMMA RecycledStep ==
  ASSUME TypeOK, NEW p \in Proc, NEW b \in Block, bget(p, b), bget_recycled(p, b)
  PROVE  /\ \A k \in Buf : blockno[k] # b
         /\ \E v \in Buf : /\ refcnt[v] = 0
                           /\ blockno' = [blockno EXCEPT ![v] = b]
                           /\ valid' = [valid EXCEPT ![v] = FALSE]
                           /\ refcnt' = [refcnt EXCEPT ![v] = 1]
                           /\ cur' = [cur EXCEPT ![p] = v]
         /\ pc[p] = "idle" /\ pc' = [pc EXCEPT ![p] = "acquiresleep"]
         /\ want' = [want EXCEPT ![p] = b]
         /\ UNCHANGED <<disk, data, lru, locked, pinned, panic>>
<1>1. victim \in Buf /\ refcnt[victim] = 0
  BY VictimUnused DEF bget_recycled
<1>2. \A k \in Buf : blockno[k] # b
  BY DEF bget_recycled, cached
<1>3. /\ blockno' = [blockno EXCEPT ![victim] = b]
      /\ valid' = [valid EXCEPT ![victim] = FALSE]
      /\ refcnt' = [refcnt EXCEPT ![victim] = 1]
      /\ cur' = [cur EXCEPT ![p] = victim]
  BY DEF bget_recycled, recycle
<1>4. /\ pc[p] = "idle" /\ pc' = [pc EXCEPT ![p] = "acquiresleep"]
      /\ want' = [want EXCEPT ![p] = b]
      /\ UNCHANGED <<disk, data, lru, locked, pinned, panic>>
  BY DEF bget, bget_recycled, goto
<1> QED BY <1>1, <1>2, <1>3, <1>4

\* The list with a buffer moved to its head still holds every buffer once.
LEMMA ToFront ==
  ASSUME TypeOK, NEW k \in Buf
  PROVE  /\ to_front(k) \in [Buf -> Buf]
         /\ \A i, j \in Buf : to_front(k)[i] = to_front(k)[j] => i = j
         /\ \A m \in Buf : \E i \in Buf : to_front(k)[i] = m
<1> DEFINE at == CHOOSE i \in Buf : lru[i] = k
<1> DEFINE f == [i \in Buf |-> CASE i = 1 -> k [] i \in 2..at -> lru[i - 1] [] OTHER -> lru[i]]
<1>1. at \in Buf /\ lru[at] = k
  BY DEF TypeOK
<1>2. to_front(k) = f
  BY DEF to_front
<1> HIDE DEF at
<1>3. /\ 1 \in Buf
      /\ \A i \in Buf : i \in Int /\ 1 <= i /\ i <= NBUF
      /\ \A i \in 2..at : i \in Buf /\ i - 1 \in Buf /\ i # 1
      /\ \A i \in Buf : i # 1 /\ i \notin 2..at => i > at
  BY <1>1 DEF Buf
<1>4. /\ f[1] = k
      /\ \A i \in 2..at : f[i] = lru[i - 1]
      /\ \A i \in Buf : i > at => f[i] = lru[i] \/ i = 1
  BY <1>1, <1>3
<1>5. \A i \in Buf : f[i] \in Buf
  BY <1>3, <1>4 DEF TypeOK
<1>6. \A i, j \in Buf : f[i] = f[j] => i = j
  BY <1>1, <1>3, <1>4 DEF TypeOK
<1>7. ASSUME NEW m \in Buf PROVE \E i \in Buf : f[i] = m
  <2>1. PICK i \in Buf : lru[i] = m
    BY DEF TypeOK
  <2>2. CASE i = at
    BY <1>1, <1>3, <1>4, <2>1, <2>2
  <2>3. CASE i < at
    <3>1. i + 1 \in 2..at /\ (i + 1) - 1 = i
      BY <1>1, <1>3, <2>3
    <3> QED BY <1>3, <1>4, <2>1, <3>1
  <2>4. CASE i > at
    BY <1>1, <1>3, <1>4, <2>1, <2>4
  <2> QED BY <1>1, <1>3, <2>2, <2>3, <2>4
<1> QED BY <1>2, <1>5, <1>6, <1>7

\* A buffer has finitely many users.
LEMMA UsersFinite == \A k : IsFiniteSet(users(k)) /\ Cardinality(users(k)) \in Nat
<1> TAKE k
<1>1. users(k) \in SUBSET Proc
  BY DEF users
<1>2. IsFiniteSet(users(k))
  BY <1>1, FS_Subset
<1> QED BY <1>2, FS_CardinalityType

\* bget() adds one user to one buffer.
LEMMA UsersAdd ==
  ASSUME TypeOK, NEW p \in Proc, NEW k \in Buf, cur[p] = None,
         cur' = [cur EXCEPT ![p] = k]
  PROVE  /\ Cardinality(users(k)') = Cardinality(users(k)) + 1
         /\ \A j \in Buf \ {k} : users(j)' = users(j)
<1>1. users(k)' = users(k) \cup {p} /\ p \notin users(k)
  BY DEF users, TypeOK, Buf
<1>2. \A j \in Buf \ {k}, r \in Proc : cur'[r] = j <=> cur[r] = j
  BY DEF TypeOK, Buf
<1>3. \A j \in Buf \ {k} : users(j)' = users(j)
  BY <1>2 DEF users
<1> QED BY <1>1, <1>3, UsersFinite, FS_AddElement

\* brelse() removes one user from one buffer.
LEMMA UsersRemove ==
  ASSUME TypeOK, NEW p \in Proc, NEW k \in Buf, cur[p] = k,
         cur' = [cur EXCEPT ![p] = None]
  PROVE  /\ Cardinality(users(k)) > 0
         /\ Cardinality(users(k)') = Cardinality(users(k)) - 1
         /\ \A j \in Buf \ {k} : users(j)' = users(j)
<1>1. users(k)' = users(k) \ {p} /\ p \in users(k)
  BY DEF users, TypeOK, Buf
<1>2. \A j \in Buf \ {k} : users(j)' = users(j)
  BY DEF users, TypeOK, Buf
<1>3. Cardinality(users(k)') = Cardinality(users(k)) - 1
  BY <1>1, UsersFinite, FS_RemoveElement
<1>4. Cardinality(users(k)) # 0
  BY <1>1, UsersFinite, FS_EmptySet
<1> QED BY <1>2, <1>3, <1>4, UsersFinite

\* The users of a buffer and its pin are counted.
LEMMA Referenced ==
  ASSUME TypeOK, RefcntExact
  PROVE  /\ \A p \in Proc : cur[p] \in Buf => refcnt[cur[p]] > 0
         /\ \A k \in Buf : blockno[k] \in pinned => refcnt[k] > 0
<1>1. ASSUME NEW p \in Proc, cur[p] \in Buf PROVE refcnt[cur[p]] > 0
  <2>1. p \in users(cur[p])
    BY DEF users
  <2>2. Cardinality(users(cur[p])) # 0
    BY <2>1, UsersFinite, FS_EmptySet
  <2> QED BY <1>1, <2>2, UsersFinite DEF RefcntExact
<1>2. ASSUME NEW k \in Buf, blockno[k] \in pinned PROVE refcnt[k] > 0
  BY <1>2, UsersFinite DEF RefcntExact
<1> QED BY <1>1, <1>2

\* Who is not idle has a buffer, and it stands for the block that was asked for.
LEMMA Holder ==
  ASSUME TypeOK, Control, NotRecycled, NEW p \in Proc, pc[p] # "idle"
  PROVE  cur[p] \in Buf /\ want[p] \in Block /\ blockno[cur[p]] = want[p]
  BY DEF TypeOK, Control, NotRecycled

\* A buffer with no reference has no user and is not pinned.
LEMMA Unreferenced ==
  ASSUME TypeOK, RefcntExact, NEW k \in Buf, refcnt[k] = 0
  PROVE  (\A p \in Proc : cur[p] # k) /\ blockno[k] \notin pinned
<1>1. Cardinality(users(k)) = 0 /\ blockno[k] \notin pinned
  BY UsersFinite DEF RefcntExact
<1>2. users(k) = {}
  BY <1>1, UsersFinite, FS_EmptySet
<1> QED BY <1>1, <1>2 DEF users

\* binit() leaves a state that satisfies the inductive invariant.
LEMMA InitInv == Init => IInv
<1> SUFFICES ASSUME Init PROVE IInv
  OBVIOUS
<1>1. TypeOK
  <2>1. \A k \in Buf : NBUF + 1 - k \in Buf /\ NBUF + 1 - (NBUF + 1 - k) = k
    BY DEF Buf
  <2>2. \A k \in Buf : lru[k] = NBUF + 1 - k /\ k \in Int
    BY DEF Init, Buf
  <2>3. /\ lru \in [Buf -> Buf]
        /\ \A i, j \in Buf : lru[i] = lru[j] => i = j
        /\ \A k \in Buf : \E i \in Buf : lru[i] = k
    BY <2>1, <2>2 DEF Init
  <2> QED BY <2>3 DEF Init, TypeOK, Labels
<1>2. \A k \in Buf : users(k) = {}
  BY DEF Init, users, Buf
<1>3. RefcntExact
  <2>1. \A k \in Buf : Cardinality(users(k)) = 0
    BY <1>2, FS_EmptySet
  <2> QED BY <2>1 DEF Init, RefcntExact
<1>4. OneBuffer /\ NotRecycled /\ SleeperHasOwner /\ Control
  BY DEF Init, OneBuffer, NotRecycled, SleeperHasOwner, Control, Buf
<1> QED BY <1>1, <1>3, <1>4 DEF IInv, CacheSound

\* Every step keeps the types and the list a permutation.
LEMMA TypeStep == TypeOK /\ RefcntExact /\ Control /\ NotRecycled /\ [Next]_vars => TypeOK'
<1> SUFFICES ASSUME TypeOK, RefcntExact, Control, NotRecycled, [Next]_vars PROVE TypeOK'
  OBVIOUS
<1>0. /\ \A p \in Proc : cur[p] \in Buf => refcnt[cur[p]] > 0
      /\ \A k \in Buf : blockno[k] \in pinned => refcnt[k] > 0
  BY Referenced
<1>f. \A k \in Buf : /\ to_front(k) \in [Buf -> Buf]
                     /\ \A i, j \in Buf : to_front(k)[i] = to_front(k)[j] => i = j
                     /\ \A m \in Buf : \E i \in Buf : to_front(k)[i] = m
  BY ToFront
<1> USE DEF TypeOK, Labels, Control, NotRecycled
<1>1. ASSUME NEW p \in Proc, NEW b \in Block, bget(p, b), bget_cached(p, b) PROVE TypeOK'
  <2>1. PICK k \in Buf : /\ blockno[k] = b
                         /\ refcnt' = [refcnt EXCEPT ![k] = refcnt[k] + 1]
                         /\ cur' = [cur EXCEPT ![p] = k]
    BY <1>1, CachedStep
  <2>2. /\ pc[p] = "idle" /\ pc' = [pc EXCEPT ![p] = "acquiresleep"]
        /\ want' = [want EXCEPT ![p] = b]
        /\ UNCHANGED <<disk, blockno, valid, data, lru, locked, pinned, panic>>
    BY <1>1, CachedStep
  <2> QED BY <2>1, <2>2
<1>2. ASSUME NEW p \in Proc, NEW b \in Block, bget(p, b), bget_recycled(p, b) PROVE TypeOK'
  <2>1. PICK v \in Buf : /\ refcnt[v] = 0
                         /\ blockno' = [blockno EXCEPT ![v] = b]
                         /\ valid' = [valid EXCEPT ![v] = FALSE]
                         /\ refcnt' = [refcnt EXCEPT ![v] = 1]
                         /\ cur' = [cur EXCEPT ![p] = v]
    BY <1>2, RecycledStep
  <2>2. /\ \A k \in Buf : blockno[k] # b
        /\ pc[p] = "idle" /\ pc' = [pc EXCEPT ![p] = "acquiresleep"]
        /\ want' = [want EXCEPT ![p] = b]
        /\ UNCHANGED <<disk, data, lru, locked, pinned, panic>>
    BY <1>2, RecycledStep
  <2> QED BY <2>1, <2>2
<1>3. ASSUME NEW p \in Proc, NEW b \in Block, bget(p, b), bget_panics(p, b) PROVE TypeOK'
  BY <1>3 DEF bget, bget_panics
<1>4. ASSUME NEW p \in Proc, acquiresleep(p) PROVE TypeOK'
  <2>1. CASE goto(p, "asleep") /\ UNCHANGED locked /\ locked[cur[p]] # None
    BY <1>4, <2>1 DEF acquiresleep, goto, bufVars
  <2>2. CASE /\ locked[cur[p]] = None /\ locked' = [locked EXCEPT ![cur[p]] = p]
             /\ goto(p, IF valid[cur[p]] THEN "have" ELSE "read")
    BY <1>4, <2>2 DEF acquiresleep, goto, bufVars
  <2> QED BY <1>4, <2>1, <2>2 DEF acquiresleep
<1>5. ASSUME NEW p \in Proc, bread(p) PROVE TypeOK'
  BY <1>5 DEF bread, goto
<1>6. ASSUME NEW p \in Proc, NEW v \in Val, modify(p, v) PROVE TypeOK'
  BY <1>6 DEF modify, goto
<1>7. ASSUME NEW p \in Proc, bwrite(p) PROVE TypeOK'
  BY <1>7 DEF bwrite, goto, bufVars
<1>8. ASSUME NEW p \in Proc, bpin(p) PROVE TypeOK'
  BY <1>8 DEF bpin, goto
<1>9. ASSUME NEW p \in Proc, bunpin(p) PROVE TypeOK'
  BY <1>9, <1>0 DEF bunpin
<1>10. ASSUME NEW p \in Proc, releasesleep(p) PROVE TypeOK'
  BY <1>10 DEF releasesleep, woken, bufVars
<1>11. ASSUME NEW p \in Proc, brelse(p) PROVE TypeOK'
  <2>1. cur[p] \in Buf
    BY <1>11 DEF brelse, Control
  <2>2. lru' = lru \/ lru' = to_front(cur[p])
    BY <1>11 DEF brelse
  <2>3. /\ lru' \in [Buf -> Buf]
        /\ \A i, j \in Buf : lru'[i] = lru'[j] => i = j
        /\ \A k \in Buf : \E i \in Buf : lru'[i] = k
    <3>1. CASE lru' = lru
      BY <3>1
    <3>2. CASE lru' = to_front(cur[p])
      <4> DEFINE f == to_front(cur[p])
      <4>1. /\ f \in [Buf -> Buf]
            /\ \A i, j \in Buf : f[i] = f[j] => i = j
            /\ \A m \in Buf : \E i \in Buf : f[i] = m
        BY <1>f, <2>1
      <4>2. lru' = f
        BY <3>2
      <4> HIDE DEF f
      <4> QED BY <4>1, <4>2
    <3> QED BY <2>2, <3>1, <3>2
  <2>4. refcnt' \in [Buf -> Nat]
    BY <1>11, <1>0, <2>1 DEF brelse, dropped
  <2> QED BY <1>11, <2>1, <2>3, <2>4 DEF brelse, goto
<1>12. CASE UNCHANGED vars
  BY <1>12 DEF vars, bufVars
<1> QED
  BY <1>1, <1>2, <1>3, <1>4, <1>5, <1>6, <1>7, <1>8, <1>9, <1>10, <1>11, <1>12
  DEF Next, bget

\* Every step keeps one buffer for a block.
LEMMA OneBufferStep == TypeOK /\ OneBuffer /\ [Next]_vars => OneBuffer'
<1> SUFFICES ASSUME TypeOK, OneBuffer, [Next]_vars PROVE OneBuffer'
  OBVIOUS
<1> USE DEF TypeOK, OneBuffer
<1>1. ASSUME NEW p \in Proc, NEW b \in Block, bget(p, b), bget_cached(p, b) PROVE OneBuffer'
  <2>1. PICK k \in Buf : /\ blockno[k] = b
                         /\ refcnt' = [refcnt EXCEPT ![k] = refcnt[k] + 1]
                         /\ cur' = [cur EXCEPT ![p] = k]
    BY <1>1, CachedStep
  <2>2. /\ pc[p] = "idle" /\ pc' = [pc EXCEPT ![p] = "acquiresleep"]
        /\ want' = [want EXCEPT ![p] = b]
        /\ UNCHANGED <<disk, blockno, valid, data, lru, locked, pinned, panic>>
    BY <1>1, CachedStep
  <2> QED BY <2>1, <2>2
<1>2. ASSUME NEW p \in Proc, NEW b \in Block, bget(p, b), bget_recycled(p, b) PROVE OneBuffer'
  <2>1. PICK v \in Buf : /\ refcnt[v] = 0
                         /\ blockno' = [blockno EXCEPT ![v] = b]
                         /\ valid' = [valid EXCEPT ![v] = FALSE]
                         /\ refcnt' = [refcnt EXCEPT ![v] = 1]
                         /\ cur' = [cur EXCEPT ![p] = v]
    BY <1>2, RecycledStep
  <2>2. /\ \A k \in Buf : blockno[k] # b
        /\ pc[p] = "idle" /\ pc' = [pc EXCEPT ![p] = "acquiresleep"]
        /\ want' = [want EXCEPT ![p] = b]
        /\ UNCHANGED <<disk, data, lru, locked, pinned, panic>>
    BY <1>2, RecycledStep
  <2> QED BY <2>1, <2>2
<1>3. ASSUME NEW p \in Proc, NEW b \in Block, bget(p, b), bget_panics(p, b) PROVE OneBuffer'
  BY <1>3 DEF bget, bget_panics
<1>4. ASSUME NEW p \in Proc, acquiresleep(p) PROVE OneBuffer'
  <2>1. CASE goto(p, "asleep") /\ UNCHANGED locked /\ locked[cur[p]] # None
    BY <1>4, <2>1 DEF acquiresleep, goto, bufVars
  <2>2. CASE /\ locked[cur[p]] = None /\ locked' = [locked EXCEPT ![cur[p]] = p]
             /\ goto(p, IF valid[cur[p]] THEN "have" ELSE "read")
    BY <1>4, <2>2 DEF acquiresleep, goto, bufVars
  <2> QED BY <1>4, <2>1, <2>2 DEF acquiresleep
<1>5. ASSUME NEW p \in Proc, bread(p) PROVE OneBuffer'
  BY <1>5 DEF bread, goto
<1>6. ASSUME NEW p \in Proc, NEW v \in Val, modify(p, v) PROVE OneBuffer'
  BY <1>6 DEF modify, goto
<1>7. ASSUME NEW p \in Proc, bwrite(p) PROVE OneBuffer'
  BY <1>7 DEF bwrite, goto, bufVars
<1>8. ASSUME NEW p \in Proc, bpin(p) PROVE OneBuffer'
  BY <1>8 DEF bpin, goto
<1>9. ASSUME NEW p \in Proc, bunpin(p) PROVE OneBuffer'
  BY <1>9 DEF bunpin
<1>10. ASSUME NEW p \in Proc, releasesleep(p) PROVE OneBuffer'
  BY <1>10 DEF releasesleep, woken, bufVars
<1>11. ASSUME NEW p \in Proc, brelse(p) PROVE OneBuffer'
  BY <1>11 DEF brelse, goto, dropped
<1>12. CASE UNCHANGED vars
  BY <1>12 DEF vars, bufVars
<1> QED
  BY <1>1, <1>2, <1>3, <1>4, <1>5, <1>6, <1>7, <1>8, <1>9, <1>10, <1>11, <1>12
  DEF Next, bget

\* Every step keeps an owner for every sleeper.
LEMMA SleeperStep == TypeOK /\ Control /\ SleeperHasOwner /\ [Next]_vars => SleeperHasOwner'
<1> SUFFICES ASSUME TypeOK, Control, SleeperHasOwner, [Next]_vars PROVE SleeperHasOwner'
  OBVIOUS
<1> USE DEF TypeOK, Control, SleeperHasOwner
<1>1. ASSUME NEW p \in Proc, NEW b \in Block, bget(p, b), bget_cached(p, b) PROVE SleeperHasOwner'
  <2>1. PICK k \in Buf : /\ blockno[k] = b
                         /\ refcnt' = [refcnt EXCEPT ![k] = refcnt[k] + 1]
                         /\ cur' = [cur EXCEPT ![p] = k]
    BY <1>1, CachedStep
  <2>2. /\ pc[p] = "idle" /\ pc' = [pc EXCEPT ![p] = "acquiresleep"]
        /\ want' = [want EXCEPT ![p] = b]
        /\ UNCHANGED <<disk, blockno, valid, data, lru, locked, pinned, panic>>
    BY <1>1, CachedStep
  <2> QED BY <2>1, <2>2
<1>2. ASSUME NEW p \in Proc, NEW b \in Block, bget(p, b), bget_recycled(p, b) PROVE SleeperHasOwner'
  <2>1. PICK v \in Buf : /\ refcnt[v] = 0
                         /\ blockno' = [blockno EXCEPT ![v] = b]
                         /\ valid' = [valid EXCEPT ![v] = FALSE]
                         /\ refcnt' = [refcnt EXCEPT ![v] = 1]
                         /\ cur' = [cur EXCEPT ![p] = v]
    BY <1>2, RecycledStep
  <2>2. /\ \A k \in Buf : blockno[k] # b
        /\ pc[p] = "idle" /\ pc' = [pc EXCEPT ![p] = "acquiresleep"]
        /\ want' = [want EXCEPT ![p] = b]
        /\ UNCHANGED <<disk, data, lru, locked, pinned, panic>>
    BY <1>2, RecycledStep
  <2> QED BY <2>1, <2>2
<1>3. ASSUME NEW p \in Proc, NEW b \in Block, bget(p, b), bget_panics(p, b) PROVE SleeperHasOwner'
  BY <1>3 DEF bget, bget_panics
<1>4. ASSUME NEW p \in Proc, acquiresleep(p) PROVE SleeperHasOwner'
  <2>1. CASE goto(p, "asleep") /\ UNCHANGED locked /\ locked[cur[p]] # None
    <3>1. pc[p] = "acquiresleep" /\ cur' = cur /\ cur[p] \in Buf
      BY <1>4 DEF acquiresleep, bufVars
    <3>2. locked[cur[p]] \in Proc \ {p}
      BY <3>1, <2>1
    <3>3. pc' = [pc EXCEPT ![p] = "asleep"] /\ locked' = locked
      BY <2>1 DEF goto
    <3>4. SUFFICES ASSUME NEW q \in Proc, pc'[q] = "asleep"
                   PROVE  locked[cur[q]] \in Proc \ {q}
      BY <3>1, <3>3
    <3>5. q = p \/ pc[q] = "asleep"
      BY <3>3, <3>4
    <3> QED BY <3>2, <3>5
  <2>2. CASE /\ locked[cur[p]] = None /\ locked' = [locked EXCEPT ![cur[p]] = p]
             /\ goto(p, IF valid[cur[p]] THEN "have" ELSE "read")
    <3>1. PICK l \in {"have", "read"} : pc' = [pc EXCEPT ![p] = l]
      BY <2>2 DEF goto
    <3>2. cur' = cur /\ cur[p] \in Buf
      BY <1>4 DEF acquiresleep, bufVars
    <3>3. SUFFICES ASSUME NEW q \in Proc, pc'[q] = "asleep"
                   PROVE  locked'[cur[q]] \in Proc \ {q}
      BY <3>2
    <3>4. q # p /\ pc[q] = "asleep"
      BY <3>1, <3>3
    <3>5. locked[cur[q]] \in Proc \ {q} /\ cur[q] # cur[p]
      BY <3>4, <2>2, BcacheAssumption
    <3> QED BY <3>5, <3>2, <2>2
  <2> QED BY <1>4, <2>1, <2>2 DEF acquiresleep
<1>5. ASSUME NEW p \in Proc, bread(p) PROVE SleeperHasOwner'
  BY <1>5 DEF bread, goto
<1>6. ASSUME NEW p \in Proc, NEW v \in Val, modify(p, v) PROVE SleeperHasOwner'
  BY <1>6 DEF modify, goto
<1>7. ASSUME NEW p \in Proc, bwrite(p) PROVE SleeperHasOwner'
  BY <1>7 DEF bwrite, goto, bufVars
<1>8. ASSUME NEW p \in Proc, bpin(p) PROVE SleeperHasOwner'
  BY <1>8 DEF bpin, goto
<1>9. ASSUME NEW p \in Proc, bunpin(p) PROVE SleeperHasOwner'
  BY <1>9 DEF bunpin
<1>10. ASSUME NEW p \in Proc, releasesleep(p) PROVE SleeperHasOwner'
  BY <1>10 DEF releasesleep, woken, bufVars
<1>11. ASSUME NEW p \in Proc, brelse(p) PROVE SleeperHasOwner'
  BY <1>11 DEF brelse, goto, dropped
<1>12. CASE UNCHANGED vars
  BY <1>12 DEF vars, bufVars
<1> QED
  BY <1>1, <1>2, <1>3, <1>4, <1>5, <1>6, <1>7, <1>8, <1>9, <1>10, <1>11, <1>12
  DEF Next, bget

\* Every step keeps the sleep locks.
LEMMA ControlStep == TypeOK /\ RefcntExact /\ Control /\ NotRecycled /\ [Next]_vars => Control'
<1> SUFFICES ASSUME TypeOK, RefcntExact, Control, NotRecycled, [Next]_vars PROVE Control'
  OBVIOUS
<1>0. \A k \in Buf : refcnt[k] = 0 => (\A p \in Proc : cur[p] # k) /\ blockno[k] \notin pinned
  BY Unreferenced
<1> USE DEF TypeOK, Control, NotRecycled
<1>1. ASSUME NEW p \in Proc, NEW b \in Block, bget(p, b), bget_cached(p, b) PROVE Control'
  <2>1. PICK k \in Buf : /\ blockno[k] = b
                         /\ refcnt' = [refcnt EXCEPT ![k] = refcnt[k] + 1]
                         /\ cur' = [cur EXCEPT ![p] = k]
    BY <1>1, CachedStep
  <2>2. /\ pc[p] = "idle" /\ pc' = [pc EXCEPT ![p] = "acquiresleep"]
        /\ want' = [want EXCEPT ![p] = b]
        /\ UNCHANGED <<disk, blockno, valid, data, lru, locked, pinned, panic>>
    BY <1>1, CachedStep
  <2>3. cur[p] = None /\ (\A j \in Buf : locked[j] # p) /\ cur'[p] = k /\ pc'[p] = "acquiresleep"
    BY <2>1, <2>2 DEF Buf
  <2>4. \A q \in Proc : q # p => cur'[q] = cur[q] /\ pc'[q] = pc[q] /\ want'[q] = want[q]
    BY <2>1, <2>2
  <2>5. \A q \in Proc : want'[p] = b /\ (pc'[q] = "idle" <=> cur'[q] = None)
    BY <2>1, <2>2, <2>3, <2>4 DEF Buf
  <2>6. \A q \in Proc, j \in Buf :
          locked'[j] = q <=> cur'[q] = j /\ pc'[q] \in {"read", "have", "dirty"}
    BY <2>2, <2>3, <2>4
  <2> QED BY <2>2, <2>3, <2>4, <2>5, <2>6
<1>2. ASSUME NEW p \in Proc, NEW b \in Block, bget(p, b), bget_recycled(p, b) PROVE Control'
  <2>1. PICK v \in Buf : /\ refcnt[v] = 0
                         /\ blockno' = [blockno EXCEPT ![v] = b]
                         /\ valid' = [valid EXCEPT ![v] = FALSE]
                         /\ refcnt' = [refcnt EXCEPT ![v] = 1]
                         /\ cur' = [cur EXCEPT ![p] = v]
    BY <1>2, RecycledStep
  <2>2. /\ \A k \in Buf : blockno[k] # b
        /\ pc[p] = "idle" /\ pc' = [pc EXCEPT ![p] = "acquiresleep"]
        /\ want' = [want EXCEPT ![p] = b]
        /\ UNCHANGED <<disk, data, lru, locked, pinned, panic>>
    BY <1>2, RecycledStep
  <2> QED BY <2>1, <2>2, <1>0
<1>3. ASSUME NEW p \in Proc, NEW b \in Block, bget(p, b), bget_panics(p, b) PROVE Control'
  BY <1>3 DEF bget, bget_panics
<1>4. ASSUME NEW p \in Proc, acquiresleep(p) PROVE Control'
  <2>1. CASE goto(p, "asleep") /\ UNCHANGED locked /\ locked[cur[p]] # None
    BY <1>4, <2>1 DEF acquiresleep, goto, bufVars
  <2>2. CASE /\ locked[cur[p]] = None /\ locked' = [locked EXCEPT ![cur[p]] = p]
             /\ goto(p, IF valid[cur[p]] THEN "have" ELSE "read")
    BY <1>4, <2>2 DEF acquiresleep, goto, bufVars
  <2> QED BY <1>4, <2>1, <2>2 DEF acquiresleep
<1>5. ASSUME NEW p \in Proc, bread(p) PROVE Control'
  BY <1>5 DEF bread, goto
<1>6. ASSUME NEW p \in Proc, NEW v \in Val, modify(p, v) PROVE Control'
  BY <1>6 DEF modify, goto
<1>7. ASSUME NEW p \in Proc, bwrite(p) PROVE Control'
  BY <1>7 DEF bwrite, goto, bufVars
<1>8. ASSUME NEW p \in Proc, bpin(p) PROVE Control'
  BY <1>8 DEF bpin, goto
<1>9. ASSUME NEW p \in Proc, bunpin(p) PROVE Control'
  BY <1>9 DEF bunpin
<1>10. ASSUME NEW p \in Proc, releasesleep(p) PROVE Control'
  BY <1>10 DEF releasesleep, woken, bufVars
<1>11. ASSUME NEW p \in Proc, brelse(p) PROVE Control'
  BY <1>11 DEF brelse, goto, dropped
<1>12. CASE UNCHANGED vars
  BY <1>12 DEF vars, bufVars
<1> QED
  BY <1>1, <1>2, <1>3, <1>4, <1>5, <1>6, <1>7, <1>8, <1>9, <1>10, <1>11, <1>12
  DEF Next, bget

\* A step that leaves the users, the counts and the pins alone keeps the books.
LEMMA SameCounts ==
  ASSUME RefcntExact, UNCHANGED <<cur, refcnt, blockno, pinned>>
  PROVE  RefcntExact'
<1>1. \A k \in Buf : users(k)' = users(k)
  BY DEF users
<1> QED BY <1>1 DEF RefcntExact

\* Every step keeps b->refcnt exact.
LEMMA RefcntStep ==
  TypeOK /\ OneBuffer /\ RefcntExact /\ Control /\ NotRecycled /\ [Next]_vars => RefcntExact'
<1> SUFFICES ASSUME TypeOK, OneBuffer, RefcntExact, Control, NotRecycled, [Next]_vars
             PROVE  RefcntExact'
  OBVIOUS
<1>0. ASSUME NEW p \in Proc, pc[p] # "idle"
      PROVE  cur[p] \in Buf /\ want[p] \in Block /\ blockno[cur[p]] = want[p]
  BY <1>0, Holder
<1>1. ASSUME NEW p \in Proc, NEW b \in Block, bget(p, b), bget_cached(p, b) PROVE RefcntExact'
  <2>1. PICK k \in Buf : /\ blockno[k] = b
                         /\ refcnt' = [refcnt EXCEPT ![k] = refcnt[k] + 1]
                         /\ cur' = [cur EXCEPT ![p] = k]
    BY <1>1, CachedStep
  <2>2. pc[p] = "idle" /\ blockno' = blockno /\ pinned' = pinned
    BY <1>1, CachedStep
  <2>3. cur[p] = None
    BY <2>2 DEF Control
  <2>4. /\ Cardinality(users(k)') = Cardinality(users(k)) + 1
        /\ \A j \in Buf \ {k} : users(j)' = users(j)
    BY <2>1, <2>3, UsersAdd
  <2> QED BY <2>1, <2>2, <2>4, UsersFinite DEF RefcntExact, TypeOK
<1>2. ASSUME NEW p \in Proc, NEW b \in Block, bget(p, b), bget_recycled(p, b) PROVE RefcntExact'
  <2>1. PICK v \in Buf : /\ refcnt[v] = 0
                         /\ blockno' = [blockno EXCEPT ![v] = b]
                         /\ refcnt' = [refcnt EXCEPT ![v] = 1]
                         /\ cur' = [cur EXCEPT ![p] = v]
    BY <1>2, RecycledStep
  <2>2. pc[p] = "idle" /\ pinned' = pinned /\ \A k \in Buf : blockno[k] # b
    BY <1>2, RecycledStep
  <2>3. cur[p] = None
    BY <2>2 DEF Control
  <2>4. /\ Cardinality(users(v)') = Cardinality(users(v)) + 1
        /\ \A j \in Buf \ {v} : users(j)' = users(j)
    BY <2>1, <2>3, UsersAdd
  <2>5. b \notin pinned
    BY <2>2 DEF NotRecycled
  <2>6. Cardinality(users(v)) = 0
    BY <2>1, UsersFinite DEF RefcntExact
  <2> QED BY <2>1, <2>2, <2>4, <2>5, <2>6 DEF RefcntExact, TypeOK
<1>3. ASSUME NEW p \in Proc, NEW b \in Block, bget(p, b), bget_panics(p, b) PROVE RefcntExact'
  BY <1>3, SameCounts DEF bget, bget_panics
<1>4. ASSUME NEW p \in Proc, acquiresleep(p) PROVE RefcntExact'
  BY <1>4, SameCounts DEF acquiresleep, bufVars
<1>5. ASSUME NEW p \in Proc, bread(p) PROVE RefcntExact'
  BY <1>5, SameCounts DEF bread
<1>6. ASSUME NEW p \in Proc, NEW v \in Val, modify(p, v) PROVE RefcntExact'
  BY <1>6, SameCounts DEF modify
<1>7. ASSUME NEW p \in Proc, bwrite(p) PROVE RefcntExact'
  BY <1>7, SameCounts DEF bwrite, bufVars
<1>8. ASSUME NEW p \in Proc, bpin(p) PROVE RefcntExact'
  <2>1. cur[p] \in Buf /\ want[p] \in Block /\ blockno[cur[p]] = want[p]
    BY <1>0, <1>8 DEF bpin
  <2>2. \A k \in Buf : users(k)' = users(k)
    BY <1>8 DEF bpin, users
  <2>3. \A k \in Buf : k # cur[p] => blockno[k] # want[p]
    BY <2>1 DEF OneBuffer
  <2> QED BY <1>8, <2>1, <2>2, <2>3, UsersFinite DEF bpin, RefcntExact, TypeOK
<1>9. ASSUME NEW p \in Proc, bunpin(p) PROVE RefcntExact'
  <2>1. cur[p] \in Buf /\ want[p] \in Block /\ blockno[cur[p]] = want[p]
    BY <1>0, <1>9 DEF bunpin
  <2>2. \A k \in Buf : users(k)' = users(k)
    BY <1>9 DEF bunpin, users
  <2>3. \A k \in Buf : k # cur[p] => blockno[k] # want[p]
    BY <2>1 DEF OneBuffer
  <2> QED BY <1>9, <2>1, <2>2, <2>3, UsersFinite DEF bunpin, RefcntExact, TypeOK
<1>10. ASSUME NEW p \in Proc, releasesleep(p) PROVE RefcntExact'
  BY <1>10, SameCounts DEF releasesleep, bufVars
<1>11. ASSUME NEW p \in Proc, brelse(p) PROVE RefcntExact'
  <2>1. cur[p] \in Buf
    BY <1>0, <1>11 DEF brelse
  <2>2. PICK k \in Buf : cur[p] = k
    BY <2>1
  <2>3. /\ Cardinality(users(k)) > 0
        /\ Cardinality(users(k)') = Cardinality(users(k)) - 1
        /\ \A j \in Buf \ {k} : users(j)' = users(j)
    BY <1>11, <2>2, UsersRemove DEF brelse
  <2> QED BY <1>11, <2>2, <2>3, UsersFinite DEF brelse, dropped, RefcntExact, TypeOK
<1>12. CASE UNCHANGED vars
  BY <1>12, SameCounts DEF vars, bufVars
<1> QED
  BY <1>1, <1>2, <1>3, <1>4, <1>5, <1>6, <1>7, <1>8, <1>9, <1>10, <1>11, <1>12
  DEF Next, bget

\* Every step leaves the buffer that a process uses to its block.
LEMMA BlockStaysStep == TypeOK /\ RefcntExact /\ Control /\ NotRecycled /\ [Next]_vars => BlockStays'
<1> SUFFICES ASSUME TypeOK, RefcntExact, Control, NotRecycled, [Next]_vars PROVE BlockStays'
  OBVIOUS
<1>0. ASSUME NEW k \in Buf, refcnt[k] = 0
      PROVE  (\A p \in Proc : cur[p] # k) /\ blockno[k] \notin pinned
  BY <1>0, Unreferenced
<1>h. ASSUME NEW p \in Proc, pc[p] # "idle"
      PROVE  cur[p] \in Buf /\ want[p] \in Block /\ blockno[cur[p]] = want[p]
  BY <1>h, Holder
<1> USE DEF TypeOK, Control, NotRecycled, BlockStays
<1>1. ASSUME NEW p \in Proc, NEW b \in Block, bget(p, b), bget_cached(p, b) PROVE BlockStays'
  <2>1. PICK k \in Buf : /\ blockno[k] = b
                         /\ refcnt' = [refcnt EXCEPT ![k] = refcnt[k] + 1]
                         /\ cur' = [cur EXCEPT ![p] = k]
    BY <1>1, CachedStep
  <2>2. /\ pc[p] = "idle" /\ pc' = [pc EXCEPT ![p] = "acquiresleep"]
        /\ want' = [want EXCEPT ![p] = b]
        /\ UNCHANGED <<disk, blockno, valid, data, lru, locked, pinned, panic>>
    BY <1>1, CachedStep
  <2> QED BY <2>1, <2>2
<1>2. ASSUME NEW p \in Proc, NEW b \in Block, bget(p, b), bget_recycled(p, b) PROVE BlockStays'
  <2>1. PICK v \in Buf : /\ refcnt[v] = 0
                         /\ blockno' = [blockno EXCEPT ![v] = b]
                         /\ valid' = [valid EXCEPT ![v] = FALSE]
                         /\ refcnt' = [refcnt EXCEPT ![v] = 1]
                         /\ cur' = [cur EXCEPT ![p] = v]
    BY <1>2, RecycledStep
  <2>2. /\ \A k \in Buf : blockno[k] # b
        /\ pc[p] = "idle" /\ pc' = [pc EXCEPT ![p] = "acquiresleep"]
        /\ want' = [want EXCEPT ![p] = b]
        /\ UNCHANGED <<disk, data, lru, locked, pinned, panic>>
    BY <1>2, RecycledStep
  <2>3. (\A q \in Proc : cur[q] # v) /\ blockno[v] \notin pinned
    BY <2>1, <1>0
  <2> QED BY <2>1, <2>2, <2>3
<1>3. ASSUME NEW p \in Proc, NEW b \in Block, bget(p, b), bget_panics(p, b) PROVE BlockStays'
  BY <1>3 DEF bget, bget_panics
<1>4. ASSUME NEW p \in Proc, acquiresleep(p) PROVE BlockStays'
  BY <1>4 DEF acquiresleep, goto, bufVars
<1>5. ASSUME NEW p \in Proc, bread(p) PROVE BlockStays'
  BY <1>5 DEF bread, goto
<1>6. ASSUME NEW p \in Proc, NEW v \in Val, modify(p, v) PROVE BlockStays'
  BY <1>6 DEF modify, goto
<1>7. ASSUME NEW p \in Proc, bwrite(p) PROVE BlockStays'
  BY <1>7 DEF bwrite, goto, bufVars
<1>8. ASSUME NEW p \in Proc, bpin(p) PROVE BlockStays'
  BY <1>8 DEF bpin, goto
<1>9. ASSUME NEW p \in Proc, bunpin(p) PROVE BlockStays'
  BY <1>9 DEF bunpin
<1>10. ASSUME NEW p \in Proc, releasesleep(p) PROVE BlockStays'
  BY <1>10 DEF releasesleep, woken, bufVars
<1>11. ASSUME NEW p \in Proc, brelse(p) PROVE BlockStays'
  BY <1>11 DEF brelse, goto, dropped
<1>12. CASE UNCHANGED vars
  BY <1>12 DEF vars, bufVars
<1> QED
  BY <1>1, <1>2, <1>3, <1>4, <1>5, <1>6, <1>7, <1>8, <1>9, <1>10, <1>11, <1>12
  DEF Next, bget

\* Every step leaves a pinned block in its buffer.
LEMMA PinsStayStep == TypeOK /\ RefcntExact /\ Control /\ NotRecycled /\ [Next]_vars => PinsStay'
<1> SUFFICES ASSUME TypeOK, RefcntExact, Control, NotRecycled, [Next]_vars PROVE PinsStay'
  OBVIOUS
<1>0. ASSUME NEW k \in Buf, refcnt[k] = 0
      PROVE  (\A p \in Proc : cur[p] # k) /\ blockno[k] \notin pinned
  BY <1>0, Unreferenced
<1>h. ASSUME NEW p \in Proc, pc[p] # "idle"
      PROVE  cur[p] \in Buf /\ want[p] \in Block /\ blockno[cur[p]] = want[p]
  BY <1>h, Holder
<1> USE DEF TypeOK, Control, NotRecycled, PinsStay
<1>1. ASSUME NEW p \in Proc, NEW b \in Block, bget(p, b), bget_cached(p, b) PROVE PinsStay'
  <2>1. PICK k \in Buf : /\ blockno[k] = b
                         /\ refcnt' = [refcnt EXCEPT ![k] = refcnt[k] + 1]
                         /\ cur' = [cur EXCEPT ![p] = k]
    BY <1>1, CachedStep
  <2>2. /\ pc[p] = "idle" /\ pc' = [pc EXCEPT ![p] = "acquiresleep"]
        /\ want' = [want EXCEPT ![p] = b]
        /\ UNCHANGED <<disk, blockno, valid, data, lru, locked, pinned, panic>>
    BY <1>1, CachedStep
  <2> QED BY <2>1, <2>2
<1>2. ASSUME NEW p \in Proc, NEW b \in Block, bget(p, b), bget_recycled(p, b) PROVE PinsStay'
  <2>1. PICK v \in Buf : /\ refcnt[v] = 0
                         /\ blockno' = [blockno EXCEPT ![v] = b]
                         /\ valid' = [valid EXCEPT ![v] = FALSE]
                         /\ refcnt' = [refcnt EXCEPT ![v] = 1]
                         /\ cur' = [cur EXCEPT ![p] = v]
    BY <1>2, RecycledStep
  <2>2. /\ \A k \in Buf : blockno[k] # b
        /\ pc[p] = "idle" /\ pc' = [pc EXCEPT ![p] = "acquiresleep"]
        /\ want' = [want EXCEPT ![p] = b]
        /\ UNCHANGED <<disk, data, lru, locked, pinned, panic>>
    BY <1>2, RecycledStep
  <2>3. (\A q \in Proc : cur[q] # v) /\ blockno[v] \notin pinned
    BY <2>1, <1>0
  <2> QED BY <2>1, <2>2, <2>3
<1>3. ASSUME NEW p \in Proc, NEW b \in Block, bget(p, b), bget_panics(p, b) PROVE PinsStay'
  BY <1>3 DEF bget, bget_panics
<1>4. ASSUME NEW p \in Proc, acquiresleep(p) PROVE PinsStay'
  BY <1>4 DEF acquiresleep, goto, bufVars
<1>5. ASSUME NEW p \in Proc, bread(p) PROVE PinsStay'
  BY <1>5 DEF bread, goto
<1>6. ASSUME NEW p \in Proc, NEW v \in Val, modify(p, v) PROVE PinsStay'
  BY <1>6 DEF modify, goto
<1>7. ASSUME NEW p \in Proc, bwrite(p) PROVE PinsStay'
  BY <1>7 DEF bwrite, goto, bufVars
<1>8. ASSUME NEW p \in Proc, bpin(p) PROVE PinsStay'
  BY <1>8, <1>h DEF bpin, goto
<1>9. ASSUME NEW p \in Proc, bunpin(p) PROVE PinsStay'
  BY <1>9, <1>h DEF bunpin
<1>10. ASSUME NEW p \in Proc, releasesleep(p) PROVE PinsStay'
  BY <1>10 DEF releasesleep, woken, bufVars
<1>11. ASSUME NEW p \in Proc, brelse(p) PROVE PinsStay'
  BY <1>11 DEF brelse, goto, dropped
<1>12. CASE UNCHANGED vars
  BY <1>12 DEF vars, bufVars
<1> QED
  BY <1>1, <1>2, <1>3, <1>4, <1>5, <1>6, <1>7, <1>8, <1>9, <1>10, <1>11, <1>12
  DEF Next, bget

\* No step recycles a buffer under its users or under the log.
LEMMA NotRecycledStep ==
  TypeOK /\ OneBuffer /\ RefcntExact /\ Control /\ NotRecycled /\ [Next]_vars => NotRecycled'
<1> SUFFICES ASSUME TypeOK, OneBuffer, RefcntExact, Control, NotRecycled, [Next]_vars
             PROVE  NotRecycled'
  OBVIOUS
<1>1. BlockStays' /\ PinsStay' /\ RefcntExact' /\ TypeOK'
  BY BlockStaysStep, PinsStayStep, RefcntStep, TypeStep
<1>2. \A k \in Buf : Cardinality(users(k)') \in Nat
  <2> TAKE k \in Buf
  <2>1. users(k)' \in SUBSET Proc
    BY DEF users
  <2> QED BY <2>1, FS_Subset, FS_CardinalityType
<1>3. \A k \in Buf : blockno'[k] \in pinned' => refcnt'[k] > 0
  BY <1>1, <1>2 DEF RefcntExact
<1> QED BY <1>1, <1>3 DEF NotRecycled, BlockStays, PinsStay

\* The invariant is inductive.
LEMMA Inductive == IInv /\ [Next]_vars => IInv'
  BY TypeStep, OneBufferStep, RefcntStep, NotRecycledStep, SleeperStep, ControlStep
  DEF IInv, CacheSound

\* The inductive invariant holds in every reachable state.
LEMMA Invariant == Spec => []IInv
  BY InitInv, Inductive, PTL DEF Spec

\* bio.c keeps one buffer for a block, a count of exactly its users and pins, no
\* buffer recycled under a user and an owner for every sleeper, for any number of
\* processes, blocks and buffers.
THEOREM CacheCorrect == Spec => []CacheSound
<1>1. IInv => CacheSound
  BY DEF IInv
<1> QED BY <1>1, Invariant, PTL

----------------------------------------------------------------------------
\* The refinement mapping without its CHOOSE: a block that a buffer has read is
\* what the buffer holds, any other is what the disk holds.
StoreIs ==
  /\ store = [b \in Block |-> store[b]]
  /\ \A k \in Buf : valid[k] /\ blockno[k] \in Block => store[blockno[k]] = data[k]
  /\ \A b \in Block : (\A k \in Buf : valid[k] => blockno[k] # b) => store[b] = disk[b]

\* p is between bread() and brelse().
owns(p) == pc[p] \in {"have", "dirty"}

\* The owner of a block is the process that is between its bread() and brelse().
OwnerIs ==
  /\ owner = [b \in Block |-> owner[b]]
  /\ \A p \in Proc : owns(p) => owner[want[p]] = p
  /\ \A b \in Block : (\A p \in Proc : owns(p) => want[p] # b) => owner[b] = None

\* No two processes are between bread() and brelse() for one block.
LEMMA OneOwner ==
  ASSUME IInv, NEW p \in Proc, NEW q \in Proc,
         pc[p] \in {"read", "have", "dirty"}, pc[q] \in {"read", "have", "dirty"},
         want[p] = want[q]
  PROVE  p = q
<1>1. /\ cur[p] \in Buf /\ want[p] \in Block /\ blockno[cur[p]] = want[p]
      /\ cur[q] \in Buf /\ blockno[cur[q]] = want[q]
  BY Holder DEF IInv, CacheSound
<1>2. cur[p] = cur[q]
  BY <1>1 DEF IInv, CacheSound, OneBuffer
<1>3. locked[cur[p]] = p /\ locked[cur[q]] = q
  BY <1>1 DEF IInv, Control
<1> QED BY <1>2, <1>3

\* The two descriptions follow from the invariant.
LEMMA Mapping == IInv => StoreIs /\ OwnerIs
<1> SUFFICES ASSUME IInv PROVE StoreIs /\ OwnerIs
  OBVIOUS
<1>1. StoreIs
  <2>1. ASSUME NEW k \in Buf, valid[k], blockno[k] \in Block PROVE store[blockno[k]] = data[k]
    <3>1. \A j \in Buf : blockno[j] = blockno[k] /\ valid[j] => j = k
      BY <2>1 DEF IInv, CacheSound, OneBuffer
    <3>2. (CHOOSE j \in Buf : blockno[j] = blockno[k] /\ valid[j]) = k
      BY <2>1, <3>1
    <3> QED BY <2>1, <3>2 DEF store
  <2>2. ASSUME NEW b \in Block, \A k \in Buf : valid[k] => blockno[k] # b PROVE store[b] = disk[b]
    BY <2>2 DEF store
  <2>3. store = [b \in Block |-> store[b]]
    BY DEF store
  <2> QED BY <2>1, <2>2, <2>3 DEF StoreIs
<1>2. OwnerIs
  <2>1. ASSUME NEW p \in Proc, owns(p) PROVE owner[want[p]] = p
    <3>1. want[p] \in Block
      BY <2>1, Holder DEF IInv, CacheSound, owns
    <3>2. \A q \in Proc : owns(q) /\ want[q] = want[p] => q = p
      BY <2>1, OneOwner DEF owns
    <3>3. (CHOOSE q \in Proc : pc[q] \in {"have", "dirty"} /\ want[q] = want[p]) = p
      BY <2>1, <3>2 DEF owns
    <3> QED BY <2>1, <3>1, <3>3 DEF owner, owns
  <2>2. ASSUME NEW b \in Block, \A p \in Proc : owns(p) => want[p] # b PROVE owner[b] = None
    BY <2>2 DEF owner, owns
  <2>3. owner = [b \in Block |-> owner[b]]
    BY DEF owner
  <2> QED BY <2>1, <2>2, <2>3 DEF OwnerIs
<1> QED BY <1>1, <1>2

\* A step that leaves the owners in their place changes no owner.
LEMMA SameOwner ==
  ASSUME OwnerIs, OwnerIs', \A p \in Proc : owns(p)' <=> owns(p),
         \A p \in Proc : owns(p) => want'[p] = want[p]
  PROVE  owner' = owner
<1>1. ASSUME NEW b \in Block PROVE owner'[b] = owner[b]
  <2>1. CASE \E p \in Proc : owns(p) /\ want[p] = b
    BY <2>1 DEF OwnerIs
  <2>2. CASE \A p \in Proc : owns(p) => want[p] # b
    BY <2>2 DEF OwnerIs
  <2> QED BY <2>1, <2>2
<1> QED BY <1>1 DEF OwnerIs

\* bread() makes the process the owner of its block and leaves the others alone.
LEMMA NewOwner ==
  ASSUME IInv, IInv', OwnerIs, OwnerIs', NEW p \in Proc, want[p] \in Block, want' = want,
         \A q \in Proc \ {p} : owns(q)' <=> owns(q), ~owns(p), owns(p)',
         \A q \in Proc : owns(q) => want[q] # want[p]
  PROVE  owner[want[p]] = None /\ owner' = [owner EXCEPT ![want[p]] = p]
<1>1. owner[want[p]] = None
  BY DEF OwnerIs
<1>2. owner'[want[p]] = p
  BY DEF OwnerIs
<1>3. ASSUME NEW b \in Block \ {want[p]} PROVE owner'[b] = owner[b]
  <2>1. CASE \E q \in Proc : owns(q) /\ want[q] = b
    BY <2>1 DEF OwnerIs
  <2>2. CASE \A q \in Proc : owns(q) => want[q] # b
    BY <1>3, <2>2 DEF OwnerIs
  <2> QED BY <2>1, <2>2
<1> QED BY <1>1, <1>2, <1>3 DEF OwnerIs

\* releasesleep() ends the ownership of its block and leaves the others alone.
LEMMA NoOwner ==
  ASSUME IInv, IInv', OwnerIs, OwnerIs', NEW p \in Proc, want[p] \in Block, want' = want,
         \A q \in Proc \ {p} : owns(q)' <=> owns(q), owns(p), ~owns(p)'
  PROVE  owner[want[p]] = p /\ owner' = [owner EXCEPT ![want[p]] = None]
<1>1. owner[want[p]] = p
  BY DEF OwnerIs
<1>2. \A q \in Proc \ {p} : owns(q) => want[q] # want[p]
  BY OneOwner DEF owns
<1>3. owner'[want[p]] = None
  BY <1>2 DEF OwnerIs
<1>4. ASSUME NEW b \in Block \ {want[p]} PROVE owner'[b] = owner[b]
  <2>1. CASE \E q \in Proc : owns(q) /\ want[q] = b
    BY <1>4, <2>1 DEF OwnerIs
  <2>2. CASE \A q \in Proc : owns(q) => want[q] # b
    BY <2>2 DEF OwnerIs
  <2> QED BY <2>1, <2>2
<1> QED BY <1>1, <1>3, <1>4 DEF OwnerIs

\* A step that leaves the disk and the buffers' contents alone changes no block.
LEMMA SameStore ==
  ASSUME UNCHANGED <<disk, blockno, valid, data>> PROVE store' = store
  BY DEF store

\* Writing a buffer to the disk changes no block.
LEMMA WriteThrough ==
  ASSUME IInv, StoreIs, StoreIs', NEW p \in Proc, owns(p),
         disk' = [disk EXCEPT ![blockno[cur[p]]] = data[cur[p]]],
         UNCHANGED <<blockno, valid, data>>
  PROVE  store' = store
<1>1. cur[p] \in Buf /\ want[p] \in Block /\ blockno[cur[p]] = want[p] /\ valid[cur[p]]
  BY Holder DEF IInv, CacheSound, Control, owns
<1>2. ASSUME NEW b \in Block PROVE store'[b] = store[b]
  <2>1. CASE \E k \in Buf : valid[k] /\ blockno[k] = b
    BY <2>1 DEF StoreIs
  <2>2. CASE \A k \in Buf : valid[k] => blockno[k] # b
    BY <1>1, <2>2 DEF StoreIs, IInv, CacheSound, TypeOK
  <2> QED BY <2>1, <2>2
<1> QED BY <1>2 DEF StoreIs

\* Every step of the cache is a step of the store of blocks or changes nothing there.
LEMMA RefinementStep == IInv /\ IInv' /\ [Next]_vars => [Abs!SNext]_(Abs!svars)
<1> SUFFICES ASSUME IInv, IInv', [Next]_vars PROVE [Abs!SNext]_(Abs!svars)
  OBVIOUS
<1>0. StoreIs /\ OwnerIs /\ StoreIs' /\ OwnerIs'
  <2>1. StoreIs /\ OwnerIs
    BY Mapping
  <2>2. (StoreIs /\ OwnerIs)'
    BY Mapping, PTL
  <2> QED BY <2>1, <2>2
<1>t. TypeOK /\ OneBuffer /\ RefcntExact /\ NotRecycled /\ Control
  BY DEF IInv, CacheSound
<1>h. ASSUME NEW p \in Proc, pc[p] # "idle"
      PROVE  cur[p] \in Buf /\ want[p] \in Block /\ blockno[cur[p]] = want[p]
  BY <1>h, <1>t, Holder
<1>1. ASSUME NEW p \in Proc, NEW b \in Block, bget(p, b), bget_cached(p, b)
      PROVE  UNCHANGED Abs!svars
  <2>1. /\ pc[p] = "idle" /\ pc' = [pc EXCEPT ![p] = "acquiresleep"]
        /\ want' = [want EXCEPT ![p] = b]
        /\ UNCHANGED <<disk, blockno, valid, data, pinned>>
    BY <1>1, CachedStep
  <2>2. owner' = owner
    <3>1. /\ \A q \in Proc : owns(q)' <=> owns(q)
          /\ \A q \in Proc : owns(q) => want'[q] = want[q]
      BY <1>t, <2>1 DEF owns, TypeOK
    <3> QED BY <1>0, <3>1, SameOwner
  <2> QED BY <2>1, <2>2, SameStore DEF Abs!svars
<1>2. ASSUME NEW p \in Proc, NEW b \in Block, bget(p, b), bget_recycled(p, b)
      PROVE  [Abs!SNext]_(Abs!svars)
  <2>1. PICK v \in Buf : /\ refcnt[v] = 0
                         /\ blockno' = [blockno EXCEPT ![v] = b]
                         /\ valid' = [valid EXCEPT ![v] = FALSE]
    BY <1>2, <1>t, RecycledStep
  <2>2. /\ \A k \in Buf : blockno[k] # b
        /\ pc[p] = "idle" /\ pc' = [pc EXCEPT ![p] = "acquiresleep"]
        /\ want' = [want EXCEPT ![p] = b]
        /\ UNCHANGED <<disk, data, pinned>>
    BY <1>2, <1>t, RecycledStep
  <2>3. (\A q \in Proc : cur[q] # v) /\ blockno[v] \notin pinned
    BY <1>t, <2>1, Unreferenced
  <2>4. owner' = owner
    <3>1. /\ \A q \in Proc : owns(q)' <=> owns(q)
          /\ \A q \in Proc : owns(q) => want'[q] = want[q]
      BY <1>t, <2>2 DEF owns, TypeOK
    <3> QED BY <1>0, <3>1, SameOwner
  <2>5. ASSUME NEW c \in Block, \E k \in Buf \ {v} : valid[k] /\ blockno[k] = c
        PROVE  store'[c] = store[c]
    BY <1>0, <1>t, <2>1, <2>2, <2>5 DEF StoreIs, TypeOK
  <2>6. ASSUME NEW c \in Block, \A k \in Buf \ {v} : valid[k] => blockno[k] # c
        PROVE  store'[c] = disk[c]
    BY <1>0, <1>t, <2>1, <2>2, <2>6 DEF StoreIs, TypeOK
  <2>7. ASSUME NEW c \in Block, ~(valid[v] /\ blockno[v] = c) PROVE store'[c] = store[c]
    <3>1. CASE \E k \in Buf \ {v} : valid[k] /\ blockno[k] = c
      BY <2>5, <3>1
    <3>2. CASE \A k \in Buf \ {v} : valid[k] => blockno[k] # c
      <4>1. store[c] = disk[c]
        BY <1>0, <2>7, <3>2 DEF StoreIs
      <4> QED BY <2>6, <3>2, <4>1
    <3> QED BY <3>1, <3>2
  <2>8. CASE valid[v] /\ blockno[v] \in Block
    <3>1. PICK c \in Block : blockno[v] = c
      BY <2>8
    <3>2. ASSUME NEW q \in Proc, owns(q), want[q] = c PROVE FALSE
      <4>1. cur[q] \in Buf /\ blockno[cur[q]] = c
        BY <1>h, <3>2 DEF owns
      <4>2. cur[q] = v
        BY <1>t, <3>1, <4>1 DEF OneBuffer
      <4> QED BY <2>3, <4>2
    <3>3. owner[c] = None
      BY <1>0, <3>2 DEF OwnerIs
    <3>4. store'[c] = disk[c]
      <4>1. \A k \in Buf \ {v} : blockno[k] # c
        BY <1>t, <3>1 DEF OneBuffer
      <4> QED BY <2>6, <4>1
    <3>5. store' = [store EXCEPT ![c] = disk[c]]
      BY <1>0, <2>7, <3>1, <3>4 DEF StoreIs
    <3> QED BY <2>2, <2>3, <2>4, <3>1, <3>3, <3>5 DEF Abs!SNext, Abs!SForget
  <2>9. CASE ~(valid[v] /\ blockno[v] \in Block)
    <3>1. store' = store
      BY <1>0, <2>7, <2>9 DEF StoreIs
    <3> QED BY <2>2, <2>4, <3>1 DEF Abs!svars
  <2> QED BY <2>8, <2>9
<1>3. ASSUME NEW p \in Proc, NEW b \in Block, bget(p, b), bget_panics(p, b)
      PROVE  UNCHANGED Abs!svars
  <2>1. owner' = owner
    <3>1. /\ \A q \in Proc : owns(q)' <=> owns(q)
          /\ \A q \in Proc : owns(q) => want'[q] = want[q]
      BY <1>3, <1>t DEF owns, TypeOK, bget, bget_panics
    <3> QED BY <1>0, <3>1, SameOwner
  <2> QED BY <1>3, <2>1, SameStore DEF Abs!svars, bget, bget_panics
<1>4. ASSUME NEW p \in Proc, acquiresleep(p) PROVE [Abs!SNext]_(Abs!svars)
  <2>1. store' = store /\ want' = want /\ pc[p] = "acquiresleep" /\ UNCHANGED <<disk, pinned>>
    BY <1>4, SameStore DEF acquiresleep, bufVars
  <2>2. CASE pc'[p] \notin {"have", "dirty"}
    <3>1. /\ \A q \in Proc : owns(q)' <=> owns(q)
          /\ \A q \in Proc : owns(q) => want'[q] = want[q]
      BY <1>4, <1>t, <2>1, <2>2 DEF owns, TypeOK, acquiresleep, goto
    <3> QED BY <1>0, <2>1, <3>1, SameOwner DEF Abs!svars
  <2>3. CASE pc'[p] \in {"have", "dirty"}
    <3>1. cur[p] \in Buf /\ want[p] \in Block /\ blockno[cur[p]] = want[p]
      BY <1>h, <2>1
    <3>2. locked[cur[p]] = None
      BY <1>4, <1>t, <2>3 DEF acquiresleep, goto, TypeOK
    <3>3. ASSUME NEW q \in Proc, owns(q), want[q] = want[p] PROVE FALSE
      <4>1. cur[q] \in Buf /\ blockno[cur[q]] = want[q]
        BY <1>h, <3>3 DEF owns
      <4>2. cur[q] = cur[p]
        BY <1>t, <3>1, <3>3, <4>1 DEF OneBuffer
      <4> QED BY <1>t, <3>2, <3>3, <4>1, <4>2 DEF Control, owns
    <3>4. /\ \A q \in Proc \ {p} : owns(q)' <=> owns(q)
          /\ ~owns(p) /\ owns(p)'
      BY <1>4, <1>t, <2>1, <2>3 DEF owns, TypeOK, acquiresleep, goto
    <3>5. owner[want[p]] = None /\ owner' = [owner EXCEPT ![want[p]] = p]
      BY <1>0, <2>1, <3>1, <3>3, <3>4, NewOwner
    <3> QED BY <2>1, <3>1, <3>5 DEF Abs!SNext, Abs!SAcquire
  <2> QED BY <2>2, <2>3
<1>5. ASSUME NEW p \in Proc, bread(p) PROVE Abs!SNext
  <2>1. cur[p] \in Buf /\ want[p] \in Block /\ blockno[cur[p]] = want[p] /\ want' = want
    BY <1>h, <1>5 DEF bread
  <2>2. \A q \in Proc : owns(q) => want[q] # want[p]
    <3>1. ASSUME NEW q \in Proc, owns(q), want[q] = want[p] PROVE FALSE
      <4>1. p = q
        BY <1>5, <3>1, OneOwner DEF owns, bread
      <4> QED BY <1>5, <3>1, <4>1 DEF owns, bread
    <3> QED BY <3>1
  <2>3. /\ \A q \in Proc \ {p} : owns(q)' <=> owns(q)
        /\ ~owns(p) /\ owns(p)'
    BY <1>5, <1>t DEF owns, TypeOK, bread, goto
  <2>4. owner[want[p]] = None /\ owner' = [owner EXCEPT ![want[p]] = p]
    BY <1>0, <2>1, <2>2, <2>3, NewOwner
  <2>5. ~valid[cur[p]] /\ \A k \in Buf : k # cur[p] => blockno[k] # want[p]
    BY <1>5, <1>t, <2>1 DEF bread, Control, OneBuffer
  <2>6. ASSUME NEW c \in Block PROVE store'[c] = store[c]
    <3>1. CASE c = want[p]
      <4>1. store[c] = disk[c]
        BY <1>0, <2>5, <3>1 DEF StoreIs
      <4>2. store'[c] = disk[c]
        BY <1>0, <1>5, <1>t, <2>1, <3>1 DEF StoreIs, bread, TypeOK
      <4> QED BY <4>1, <4>2
    <3>2. CASE c # want[p] /\ \E k \in Buf : valid[k] /\ blockno[k] = c
      BY <1>0, <1>5, <1>t, <2>1, <3>2 DEF StoreIs, bread, TypeOK
    <3>3. CASE c # want[p] /\ \A k \in Buf : valid[k] => blockno[k] # c
      BY <1>0, <1>5, <1>t, <2>1, <3>3 DEF StoreIs, bread, TypeOK
    <3> QED BY <3>1, <3>2, <3>3
  <2>7. store' = store
    BY <1>0, <2>6 DEF StoreIs
  <2> QED BY <1>5, <2>1, <2>4, <2>7 DEF bread, Abs!SNext, Abs!SAcquire
<1>6. ASSUME NEW p \in Proc, NEW v \in Val, modify(p, v) PROVE Abs!SNext
  <2>1. cur[p] \in Buf /\ want[p] \in Block /\ blockno[cur[p]] = want[p] /\ owns(p)
    BY <1>h, <1>6 DEF modify, owns
  <2>2. owner' = owner
    <3>1. /\ \A q \in Proc : owns(q)' <=> owns(q)
          /\ \A q \in Proc : owns(q) => want'[q] = want[q]
      BY <1>6, <1>t DEF owns, TypeOK, modify, goto
    <3> QED BY <1>0, <3>1, SameOwner
  <2>3. valid[cur[p]] /\ \A k \in Buf : k # cur[p] => blockno[k] # want[p]
    BY <1>t, <2>1 DEF Control, OneBuffer, owns
  <2>4. store'[want[p]] = v
    BY <1>0, <1>6, <1>t, <2>1, <2>3 DEF StoreIs, modify, TypeOK
  <2>5. ASSUME NEW c \in Block \ {want[p]} PROVE store'[c] = store[c]
    <3>1. CASE \E k \in Buf : valid[k] /\ blockno[k] = c
      BY <1>0, <1>6, <1>t, <2>1, <2>5, <3>1 DEF StoreIs, modify, TypeOK
    <3>2. CASE \A k \in Buf : valid[k] => blockno[k] # c
      BY <1>0, <1>6, <1>t, <2>1, <2>5, <3>2 DEF StoreIs, modify, TypeOK
    <3> QED BY <3>1, <3>2
  <2>6. store' = [store EXCEPT ![want[p]] = v]
    BY <1>0, <2>4, <2>5 DEF StoreIs
  <2>7. owner[want[p]] = p
    BY <1>0, <2>1 DEF OwnerIs
  <2> QED BY <1>6, <2>1, <2>2, <2>6, <2>7 DEF modify, Abs!SNext, Abs!SChange
<1>7. ASSUME NEW p \in Proc, bwrite(p) PROVE Abs!SNext
  <2>1. store' = store
    BY <1>0, <1>7, WriteThrough DEF bwrite, owns, bufVars
  <2>2. /\ \A q \in Proc : owns(q)' <=> owns(q)
        /\ \A q \in Proc : owns(q) => want'[q] = want[q]
    BY <1>7, <1>t DEF owns, TypeOK, bwrite, goto
  <2>3. owner' = owner
    BY <1>0, <2>2, SameOwner
  <2>4. cur[p] \in Buf /\ want[p] \in Block /\ blockno[cur[p]] = want[p] /\ owns(p)
    BY <1>h, <1>7 DEF bwrite, owns
  <2>5. owner[want[p]] = p /\ store[want[p]] = data[cur[p]]
    <3>1. owner[want[p]] = p
      BY <1>0, <2>4 DEF OwnerIs
    <3>2. valid[cur[p]]
      BY <1>t, <2>4 DEF Control, owns
    <3>3. store[blockno[cur[p]]] = data[cur[p]]
      BY <1>0, <2>4, <3>2 DEF StoreIs
    <3> QED BY <2>4, <3>1, <3>3
  <2> QED BY <1>7, <2>1, <2>3, <2>4, <2>5 DEF bwrite, Abs!SNext, Abs!SWrite
<1>8. ASSUME NEW p \in Proc, bpin(p) PROVE Abs!SNext
  <2>1. store' = store
    BY <1>8, SameStore DEF bpin
  <2>2. /\ \A q \in Proc : owns(q)' <=> owns(q)
        /\ \A q \in Proc : owns(q) => want'[q] = want[q]
    BY <1>8, <1>t DEF owns, TypeOK, bpin, goto
  <2>3. owner' = owner
    BY <1>0, <2>2, SameOwner
  <2>4. cur[p] \in Buf /\ want[p] \in Block /\ blockno[cur[p]] = want[p] /\ owns(p)
    BY <1>h, <1>8 DEF bpin, owns
  <2>5. owner[want[p]] = p
    BY <1>0, <2>4 DEF OwnerIs
  <2> QED BY <1>8, <2>1, <2>3, <2>4, <2>5 DEF bpin, Abs!SNext, Abs!SLog
<1>9. ASSUME NEW p \in Proc, bunpin(p) PROVE Abs!SNext
  <2>1. store' = store
    BY <1>0, <1>9, WriteThrough DEF bunpin, owns
  <2>2. /\ \A q \in Proc : owns(q)' <=> owns(q)
        /\ \A q \in Proc : owns(q) => want'[q] = want[q]
    BY <1>9, <1>t DEF owns, bunpin
  <2>3. owner' = owner
    BY <1>0, <2>2, SameOwner
  <2>4. cur[p] \in Buf /\ want[p] \in Block /\ blockno[cur[p]] = want[p] /\ owns(p)
    BY <1>h, <1>9 DEF bunpin, owns
  <2>5. owner[want[p]] = p /\ store[want[p]] = data[cur[p]]
    <3>1. owner[want[p]] = p
      BY <1>0, <2>4 DEF OwnerIs
    <3>2. valid[cur[p]]
      BY <1>t, <2>4 DEF Control, owns
    <3>3. store[blockno[cur[p]]] = data[cur[p]]
      BY <1>0, <2>4, <3>2 DEF StoreIs
    <3> QED BY <2>4, <3>1, <3>3
  <2> QED BY <1>9, <2>1, <2>3, <2>4, <2>5 DEF bunpin, Abs!SNext, Abs!SWrite
<1>10. ASSUME NEW p \in Proc, releasesleep(p) PROVE Abs!SNext
  <2>1. store' = store /\ want' = want /\ want[p] \in Block
    BY <1>h, <1>10, SameStore DEF releasesleep, bufVars
  <2>2. /\ \A q \in Proc \ {p} : owns(q)' <=> owns(q)
        /\ owns(p) /\ ~owns(p)'
    BY <1>10 DEF owns, releasesleep, woken
  <2>3. owner[want[p]] = p /\ owner' = [owner EXCEPT ![want[p]] = None]
    BY <1>0, <2>1, <2>2, NoOwner
  <2> QED BY <1>10, <2>1, <2>3 DEF releasesleep, Abs!SNext, Abs!SRelease
<1>11. ASSUME NEW p \in Proc, brelse(p) PROVE UNCHANGED Abs!svars
  <2>1. store' = store
    BY <1>11, SameStore DEF brelse
  <2>2. /\ \A q \in Proc : owns(q)' <=> owns(q)
        /\ \A q \in Proc : owns(q) => want'[q] = want[q]
    BY <1>11, <1>t DEF owns, TypeOK, brelse, goto
  <2> QED BY <1>0, <1>11, <2>1, <2>2, SameOwner DEF brelse, Abs!svars
<1>12. CASE UNCHANGED vars
  <2>1. store' = store
    BY <1>12, SameStore DEF vars, bufVars
  <2>2. owner' = owner
    BY <1>12 DEF vars, owner
  <2> QED BY <1>12, <2>1, <2>2 DEF vars, Abs!svars
<1> QED
  BY <1>1, <1>2, <1>3, <1>4, <1>5, <1>6, <1>7, <1>8, <1>9, <1>10, <1>11, <1>12
  DEF Next, bget

\* Recycling, sharing and delayed writing are invisible: bio.c implements a store
\* of blocks with one owner each, in which what was written or logged stays, and
\* only a change let go without bwrite() or log_write() may be lost.
THEOREM Refinement == Spec => Transparent
<1>1. Init => Abs!SInit
  BY DEF Init, Abs!SInit, store, owner, Buf
<1> QED BY <1>1, Invariant, RefinementStep, PTL DEF Spec, Transparent, Abs!Spec
=============================================================================
