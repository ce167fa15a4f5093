----------------------------- MODULE RingProofs -----------------------------
(***************************************************************************)
(* What the operations on a ring do to its contents, for every size of the *)
(* array and every width of the indices: the facts that the proofs about   *)
(* pipes, the console, the uart and the disk have in common, with those    *)
(* about numbers that they rest on.                                        *)
(***************************************************************************)
EXTENDS Rings, SequenceTheorems, WellFoundedInduction, TLAPS

----------------------------------------------------------------------------
\* Every set of natural numbers but the empty one has a least element.
LEMMA LeastNat == \A T \in SUBSET Nat : T # {} => \E x \in T : \A y \in T : x <= y
<1> DEFINE R == {ss \in Nat \X Nat : ss[1] < ss[2]}
<1>1. IsWellFoundedOn(R, Nat)
  BY NatLessThanWellFounded DEF OpToRel
<1> HIDE DEF R
<1> SUFFICES ASSUME NEW T \in SUBSET Nat, T # {} PROVE \E x \in T : \A y \in T : x <= y
  OBVIOUS
<1>2. PICK x \in T : \A y \in T : ~(<<y, x>> \in R)
  BY <1>1, WFMin
<1>3. ASSUME NEW y \in T, ~(x <= y) PROVE FALSE
  <2> DEFINE ss == <<y, x>>
  <2>1. y < x /\ y \in Nat /\ x \in Nat
    BY <1>3
  <2>2. ss \in Nat \X Nat /\ ss[1] = y /\ ss[2] = x
    BY <2>1
  <2>3. ss \in R
    BY <2>1, <2>2 DEF R
  <2> QED BY <1>2, <2>3
<1> QED BY <1>3

\* A remainder is below its divisor.
LEMMA ModType == \A a \in Int, b \in Nat \ {0} : a % b \in 0..(b - 1) /\ a % b \in Index(b)
  BY DEF Index

\* A multiple of b that is less than b away from 0 is 0.
LEMMA SmallMultiple ==
  ASSUME NEW b \in Nat \ {0}, NEW x \in Int, -b < b * x, b * x < b
  PROVE  x = 0
<1>1. x >= 1 => b * x >= b
  OBVIOUS
<1>2. x <= -1 => b * x <= -b
  OBVIOUS
<1> QED BY <1>1, <1>2

\* Quotient and remainder are unique.
LEMMA ModUnique ==
  ASSUME NEW b \in Nat \ {0}, NEW k \in Int, NEW r \in 0..(b - 1)
  PROVE  ((b * k) + r) % b = r
<1> DEFINE a == (b * k) + r
<1>1. a \in Int /\ a = (b * (a \div b)) + (a % b) /\ a % b \in 0..(b - 1)
  BY ModType
<1>2. b * (k - (a \div b)) = (a % b) - r
  BY <1>1
<1>3. k - (a \div b) = 0
  BY <1>1, <1>2, SmallMultiple
<1> QED BY <1>1, <1>2, <1>3

\* Adding a multiple of the divisor leaves the remainder alone.
LEMMA ModShift ==
  ASSUME NEW b \in Nat \ {0}, NEW a \in Int, NEW k \in Int
  PROVE  (a + (b * k)) % b = a % b
<1>1. a % b \in 0..(b - 1) /\ a = (b * (a \div b)) + (a % b) /\ a \div b \in Int
  BY ModType
<1>2. a + (b * k) = (b * ((a \div b) + k)) + (a % b)
  BY <1>1
<1>3. ((b * ((a \div b) + k)) + (a % b)) % b = a % b
  <2>1. (a \div b) + k \in Int
    BY <1>1
  <2> QED BY <1>1, <2>1, ModUnique
<1> QED BY <1>2, <1>3

\* Indices that agree modulo W name the same place, because N divides W.
LEMMA SameSlot ==
  ASSUME NEW N, NEW W, RingSizes(N, W), NEW a \in Int, NEW b \in Int, a % W = b % W
  PROVE  a % N = b % N
<1> N \in Nat \ {0} /\ W \in Nat \ {0}
  BY DEF RingSizes
<1>1. PICK m \in Int : W = N * m
  <2>1. W = N * (W \div N) /\ W \div N \in Int
    BY DEF RingSizes
  <2> QED BY <2>1
<1>2. PICK x \in Int : a = b + (W * x)
  <2>1. /\ a \div W \in Int /\ b \div W \in Int
        /\ a = (W * (a \div W)) + (a % W) /\ b = (W * (b \div W)) + (b % W)
    OBVIOUS
  <2>2. a = b + (W * ((a \div W) - (b \div W)))
    BY <2>1
  <2>3. (a \div W) - (b \div W) \in Int
    BY <2>1
  <2> QED BY <2>2, <2>3
<1>3. \A u, v, w \in Int : (u * v) * w = u * (v * w)
  OBVIOUS
<1>4. a = b + (N * (m * x)) /\ m * x \in Int
  BY <1>1, <1>2, <1>3
<1> QED BY <1>4, ModShift

\* Fewer than N apart, two indices name different places.
LEMMA OtherSlot ==
  ASSUME NEW N \in Nat \ {0}, NEW a \in Int, NEW b \in Int, a < b, b - a < N
  PROVE  a % N # b % N
<1> SUFFICES ASSUME a % N = b % N PROVE FALSE
  OBVIOUS
<1>1. /\ a \div N \in Int /\ b \div N \in Int
      /\ a = (N * (a \div N)) + (a % N)
      /\ b = (N * (b \div N)) + (b % N)
      /\ a % N \in Int
  OBVIOUS
<1>2. b - a = N * ((b \div N) - (a \div N))
  BY <1>1
<1>3. (b \div N) - (a \div N) = 0
  BY <1>1, <1>2, SmallMultiple
<1> QED BY <1>2, <1>3

----------------------------------------------------------------------------
\* A span is below W, and leads from one index to the other.
LEMMA SpanType ==
  ASSUME NEW W \in Nat \ {0}, NEW a \in Index(W), NEW b \in Index(W)
  PROVE  /\ span(a, b, W) \in 0..(W - 1)
         /\ span(a, b, W) = 0 <=> a = b
         /\ b = a + span(a, b, W) \/ b = a + span(a, b, W) - W
  BY DEF span, Index

\* How a span changes when its ends move by one.
LEMMA SpanStep ==
  ASSUME NEW W \in Nat \ {0}, NEW a \in Index(W), NEW b \in Index(W)
  PROVE  /\ (b + 1) % W \in Index(W) /\ (b - 1) % W \in Index(W)
         /\ span(a, b, W) < W - 1 => span(a, (b + 1) % W, W) = span(a, b, W) + 1
         /\ a # b => /\ span((a + 1) % W, b, W) = span(a, b, W) - 1
                     /\ span(a, (b - 1) % W, W) = span(a, b, W) - 1
<1> a \in 0..(W - 1) /\ b \in 0..(W - 1) /\ b + 1 \in Int /\ b - 1 \in Int
  BY DEF Index
<1>1. (b + 1) % W \in Index(W) /\ (b - 1) % W \in Index(W)
  BY ModType, Zenon
<1>2. (b - a) % W < W - 1 => (((b + 1) % W) - a) % W = ((b - a) % W) + 1
  OBVIOUS
<1>3. a # b => (b - ((a + 1) % W)) % W = ((b - a) % W) - 1
  OBVIOUS
<1>4. a # b => (((b - 1) % W) - a) % W = ((b - a) % W) - 1
  OBVIOUS
<1> QED BY <1>1, <1>2, <1>3, <1>4 DEF span

\* A ring is full when its indices are N apart.
LEMMA SpanFull ==
  ASSUME NEW W \in Nat \ {0}, NEW N \in Index(W), NEW a \in Index(W), NEW b \in Index(W)
  PROVE  b = (a + N) % W <=> span(a, b, W) = N
  BY DEF span, Index

\* Spans that follow one another add up.
LEMMA SpanJoin ==
  ASSUME NEW W \in Nat \ {0}, NEW a \in Index(W), NEW b \in Index(W), NEW c \in Index(W),
         span(a, b, W) + span(b, c, W) < W
  PROVE  span(a, c, W) = span(a, b, W) + span(b, c, W)
<1> a \in 0..(W - 1) /\ b \in 0..(W - 1) /\ c \in 0..(W - 1)
  BY DEF Index
<1>1. ((b - a) % W) + ((c - b) % W) < W => (c - a) % W = ((b - a) % W) + ((c - b) % W)
  OBVIOUS
<1> QED BY <1>1 DEF span

----------------------------------------------------------------------------
\* A sequence is the function of its entries.
LEMMA SeqIsFcn ==
  ASSUME NEW S, NEW s \in Seq(S)
  PROVE  Len(s) \in Nat /\ s = [k \in 1..Len(s) |-> s[k]]
<1>1. s \in [1..Len(s) -> S] /\ Len(s) \in Nat
  BY LenProperties
<1> QED BY <1>1

\* The place of the k-th entry after index b is that of the entry so many further
\* after index a.
LEMMA SlotAfter ==
  ASSUME NEW N, NEW W, RingSizes(N, W), NEW a \in Index(W), NEW b \in Index(W), NEW k \in Nat
  PROVE  (b + k) % N = (a + span(a, b, W) + k) % N
<1>0. W \in Nat \ {0}
  BY DEF RingSizes
<1> a \in Nat /\ b \in Nat
  BY <1>0 DEF Index
<1> DEFINE d == span(a, b, W)
<1>1. d \in Nat /\ (b = a + d \/ a + d = b + W)
  BY <1>0, SpanType
<1> HIDE DEF d
<1>2. (b + k) % W = (a + d + k) % W
  <2>1. CASE a + d = b + W
    <3>1. b + k \in Int /\ 1 \in Int /\ a + d + k = (b + k) + (W * 1)
      BY <1>0, <1>1, <2>1
    <3> QED BY <1>0, <3>1, ModShift
  <2> QED BY <1>1, <2>1
<1>3. b + k \in Int /\ a + d + k \in Int
  BY <1>0, <1>1
<1> QED BY <1>2, <1>3, SameSlot DEF d

\* A ring as a sequence.
LEMMA RingSeq ==
  ASSUME NEW N, NEW W, RingSizes(N, W), NEW S, NEW buf \in Buffer(N, S),
         NEW a \in Index(W), NEW b \in Index(W)
  PROVE  /\ ring(buf, N, W, a, b) \in Seq(S)
         /\ Len(ring(buf, N, W, a, b)) = span(a, b, W)
         /\ \A k \in 1..span(a, b, W) : ring(buf, N, W, a, b)[k] = buf[(a + k - 1) % N]
<1> buf \in [Index(N) -> S]
  BY DEF Buffer
<1>0. N \in Nat \ {0} /\ W \in Nat \ {0}
  BY DEF RingSizes
<1> a \in Nat /\ b \in Nat
  BY <1>0 DEF Index
<1> DEFINE d == span(a, b, W)
<1>1. d \in Nat
  BY <1>0, SpanType
<1> HIDE DEF d
<1>2. \A k \in 1..d : (a + k - 1) % N \in Index(N)
  <2>1. \A k \in 1..d : a + k - 1 \in Int
    BY <1>1
  <2> QED BY <1>0, <2>1, ModType, Zenon
<1>3. ring(buf, N, W, a, b) = [k \in 1..d |-> buf[(a + k - 1) % N]]
  BY DEF ring, d
<1>4. \A k \in 1..d : buf[(a + k - 1) % N] \in S
  BY <1>2
<1> QED BY <1>1, <1>3, <1>4 DEF d

\* Its length alone.
LEMMA RingLen ==
  ASSUME NEW N, NEW W, RingSizes(N, W), NEW S, NEW buf \in Buffer(N, S),
         NEW a \in Index(W), NEW b \in Index(W)
  PROVE  Len(ring(buf, N, W, a, b)) = span(a, b, W)
  BY RingSeq, Zenon

\* A write to a place behind the ring leaves the ring alone.
LEMMA RingSame ==
  ASSUME NEW N, NEW W, RingSizes(N, W), NEW S, NEW buf \in Buffer(N, S), NEW x,
         NEW a \in Index(W), NEW b \in Index(W), NEW c \in Index(W),
         span(a, b, W) <= span(a, c, W), span(a, c, W) < N
  PROVE  ring(stored(buf, N, c, x), N, W, a, b) = ring(buf, N, W, a, b)
<1> buf \in [Index(N) -> S]
  BY DEF Buffer
<1>0. N \in Nat \ {0} /\ W \in Nat \ {0} /\ 0 \in Nat
  BY DEF RingSizes
<1> a \in Nat /\ b \in Nat /\ c \in Nat
  BY <1>0 DEF Index
<1> DEFINE d == span(a, b, W)
           e == span(a, c, W)
           new == stored(buf, N, c, x)
<1> new = [buf EXCEPT ![c % N] = x]
  BY DEF stored
<1> HIDE DEF new
<1>1. d \in Nat /\ e \in Nat /\ d <= e /\ e < N
  BY <1>0, SpanType
<1>2. c % N = (a + e) % N
  <2>1. (c + 0) % N = (a + e + 0) % N
    BY <1>0, SlotAfter
  <2> QED BY <1>0, <1>1, <2>1
<1> HIDE DEF d, e
<1>3. ASSUME NEW k \in 1..d PROVE (a + k - 1) % N # c % N /\ (a + k - 1) % N \in Index(N)
  <2>1. a + k - 1 \in Int /\ a + e \in Int /\ a + k - 1 < a + e /\ (a + e) - (a + k - 1) < N
    BY <1>0, <1>1
  <2>2. (a + k - 1) % N # (a + e) % N
    BY <1>0, <2>1, OtherSlot
  <2> QED BY <1>0, <1>2, <2>1, <2>2, ModType
<1>4. \A k \in 1..d : new[(a + k - 1) % N] = buf[(a + k - 1) % N]
  BY <1>3
<1> QED BY <1>4 DEF ring, d, new

\* An entry written at the end of a ring that is not full is its last entry.
LEMMA RingPut ==
  ASSUME NEW N, NEW W, RingSizes(N, W), NEW S, NEW buf \in Buffer(N, S), NEW x \in S,
         NEW a \in Index(W), NEW b \in Index(W), span(a, b, W) < N, span(a, b, W) < W - 1
  PROVE  /\ ring(stored(buf, N, b, x), N, W, a, (b + 1) % W) = Append(ring(buf, N, W, a, b), x)
         /\ stored(buf, N, b, x) \in Buffer(N, S)
<1> buf \in [Index(N) -> S]
  BY DEF Buffer
<1>0. N \in Nat \ {0} /\ W \in Nat \ {0} /\ 0 \in Nat
  BY DEF RingSizes
<1> a \in Nat /\ b \in Nat
  BY <1>0 DEF Index
<1> DEFINE d == span(a, b, W)
           q == ring(buf, N, W, a, b)
           s == Append(q, x)
           new == stored(buf, N, b, x)
<1> new = [buf EXCEPT ![b % N] = x]
  BY DEF stored
<1> HIDE DEF new
<1>1. d \in Nat /\ d < N /\ span(a, (b + 1) % W, W) = d + 1
  BY <1>0, SpanType, SpanStep
<1>2. q \in Seq(S) /\ Len(q) = d /\ \A k \in 1..d : q[k] = buf[(a + k - 1) % N]
  <2>1. q \in Seq(S) /\ Len(q) = d
    BY RingSeq, Zenon
  <2>2. \A k \in 1..d : q[k] = buf[(a + k - 1) % N]
    BY DEF ring
  <2> QED BY <2>1, <2>2
<1>3. b % N = (a + d) % N /\ b % N \in Index(N)
  <2>1. (b + 0) % N = (a + d + 0) % N
    BY <1>0, SlotAfter
  <2>2. b \in Int
    OBVIOUS
  <2>3. b % N \in Index(N)
    BY <1>0, <2>2, ModType, Zenon
  <2> QED BY <1>1, <2>1, <2>3
<1>4. \A k \in 1..d : new[(a + k - 1) % N] = buf[(a + k - 1) % N]
  <2> TAKE k \in 1..d
  <2>1. a + k - 1 \in Int /\ a + d \in Int /\ a + k - 1 < a + d /\ (a + d) - (a + k - 1) < N
    BY <1>0, <1>1
  <2> HIDE DEF d
  <2>2. (a + k - 1) % N # (a + d) % N
    BY <1>0, <2>1, OtherSlot
  <2>3. (a + k - 1) % N \in Index(N)
    BY <1>0, <2>1, ModType
  <2> QED BY <1>3, <2>2, <2>3
<1>5. new[(a + (d + 1) - 1) % N] = x
  <2>1. a + (d + 1) - 1 = a + d
    BY <1>1
  <2> QED BY <1>3, <2>1
<1>6. s \in Seq(S) /\ Len(s) = d + 1 /\ s[d + 1] = x /\ \A k \in 1..d : s[k] = q[k]
  BY <1>1, <1>2
<1>7. s = [k \in 1..(d + 1) |-> s[k]]
  BY <1>6, SeqIsFcn
<1>8. ring(new, N, W, a, (b + 1) % W) = [k \in 1..(d + 1) |-> new[(a + k - 1) % N]]
  BY <1>1 DEF ring
<1> HIDE DEF d, s, q
<1>9. ASSUME NEW k \in 1..(d + 1) PROVE s[k] = new[(a + k - 1) % N]
  <2>1. k \in 1..d \/ k = d + 1
    BY <1>1
  <2> QED BY <1>2, <1>4, <1>5, <1>6, <2>1
<1>10. ring(new, N, W, a, (b + 1) % W) = s
  BY <1>7, <1>8, <1>9
<1> QED BY <1>10 DEF s, q, new, Buffer

\* The ring without its first entry.
LEMMA RingGet ==
  ASSUME NEW N, NEW W, RingSizes(N, W), NEW S, NEW buf \in Buffer(N, S),
         NEW a \in Index(W), NEW b \in Index(W), a # b
  PROVE  /\ ring(buf, N, W, a, b) # <<>>
         /\ Head(ring(buf, N, W, a, b)) = buf[a % N] /\ buf[a % N] \in S
         /\ ring(buf, N, W, (a + 1) % W, b) = Tail(ring(buf, N, W, a, b))
<1> buf \in [Index(N) -> S]
  BY DEF Buffer
<1>0. N \in Nat \ {0} /\ W \in Nat \ {0}
  BY DEF RingSizes
<1> a \in Nat /\ b \in Nat
  BY <1>0 DEF Index
<1> DEFINE d == span(a, b, W)
           c == (a + 1) % W
           q == ring(buf, N, W, a, b)
           s == Tail(q)
<1>1. d \in Nat /\ d # 0 /\ span(c, b, W) = d - 1 /\ c \in Index(W)
  BY <1>0, SpanType, SpanStep
<1>2. q \in Seq(S) /\ Len(q) = d /\ \A k \in 1..d : q[k] = buf[(a + k - 1) % N]
  <2>1. q \in Seq(S) /\ Len(q) = d
    BY RingSeq, Zenon
  <2>2. \A k \in 1..d : q[k] = buf[(a + k - 1) % N]
    BY DEF ring
  <2> QED BY <2>1, <2>2
<1>3. span(a, c, W) = 1
  <2>1. span(a, a, W) = 0 /\ 0 < W - 1
    BY <1>0, SpanType
  <2>2. span(a, (a + 1) % W, W) = span(a, a, W) + 1
    BY <1>0, <2>1, SpanStep
  <2> QED BY <2>1, <2>2
<1>4. \A k \in 1..(d - 1) : (c + k - 1) % N = (a + (k + 1) - 1) % N
  <2> TAKE k \in 1..(d - 1)
  <2>0. k - 1 \in Nat
    BY <1>1
  <2>1. (c + (k - 1)) % N = (a + span(a, c, W) + (k - 1)) % N
    BY <1>1, <2>0, SlotAfter
  <2>2. c + (k - 1) = c + k - 1 /\ a + span(a, c, W) + (k - 1) = a + (k + 1) - 1
    BY <1>0, <1>1, <1>3
  <2> QED BY <2>1, <2>2
<1>5. q # <<>> /\ s \in Seq(S) /\ Len(s) = d - 1 /\ Head(q) = q[1]
      /\ \A k \in 1..(d - 1) : s[k] = q[k + 1]
  BY <1>1, <1>2
<1>6. s = [k \in 1..(d - 1) |-> s[k]]
  BY <1>5, SeqIsFcn
<1>7. ring(buf, N, W, c, b) = [k \in 1..(d - 1) |-> buf[(c + k - 1) % N]]
  BY <1>1 DEF ring
<1>8. q[1] = buf[a % N] /\ buf[a % N] \in S
  <2>1. a + 1 - 1 = a /\ a % N \in Index(N)
    BY <1>0, ModType
  <2>2. 1 \in 1..d
    BY <1>1
  <2> QED BY <1>2, <2>1, <2>2
<1> HIDE DEF d, s, q, c
<1>9. \A k \in 1..(d - 1) : s[k] = buf[(c + k - 1) % N]
  BY <1>1, <1>2, <1>4, <1>5
<1>10. ring(buf, N, W, c, b) = s
  BY <1>6, <1>7, <1>9
<1> QED BY <1>5, <1>8, <1>10 DEF s, q, c

\* The ring without its last entry.
LEMMA RingUnput ==
  ASSUME NEW N, NEW W, RingSizes(N, W), NEW S, NEW buf \in Buffer(N, S),
         NEW a \in Index(W), NEW b \in Index(W), a # b
  PROVE  /\ ring(buf, N, W, a, b) # <<>>
         /\ ring(buf, N, W, a, (b - 1) % W)
              = SubSeq(ring(buf, N, W, a, b), 1, Len(ring(buf, N, W, a, b)) - 1)
<1> buf \in [Index(N) -> S]
  BY DEF Buffer
<1>0. N \in Nat \ {0} /\ W \in Nat \ {0}
  BY DEF RingSizes
<1> a \in Nat /\ b \in Nat
  BY <1>0 DEF Index
<1> DEFINE d == span(a, b, W)
           q == ring(buf, N, W, a, b)
           s == SubSeq(q, 1, d - 1)
<1>1. d \in Nat /\ d # 0 /\ span(a, (b - 1) % W, W) = d - 1
  BY <1>0, SpanType, SpanStep
<1>2. q \in Seq(S) /\ Len(q) = d /\ \A k \in 1..d : q[k] = buf[(a + k - 1) % N]
  <2>1. q \in Seq(S) /\ Len(q) = d
    BY RingSeq, Zenon
  <2>2. \A k \in 1..d : q[k] = buf[(a + k - 1) % N]
    BY DEF ring
  <2> QED BY <2>1, <2>2
<1>3. s \in Seq(S) /\ Len(s) = d - 1 /\ \A k \in 1..(d - 1) : s[k] = q[k]
  <2>1. s = [k \in 1..(d - 1) |-> q[k]]
    BY <1>1, <1>2
  <2>2. \A k \in 1..(d - 1) : q[k] \in S
    BY <1>1, <1>2, ElementOfSeq
  <2> QED BY <1>1, <2>1, <2>2
<1>4. s = [k \in 1..(d - 1) |-> s[k]]
  BY <1>3, SeqIsFcn
<1>5. ring(buf, N, W, a, (b - 1) % W) = [k \in 1..(d - 1) |-> buf[(a + k - 1) % N]]
  BY <1>1 DEF ring
<1>6. q # <<>>
  BY <1>1, <1>2
<1> HIDE DEF d, s, q
<1>7. \A k \in 1..(d - 1) : s[k] = buf[(a + k - 1) % N]
  BY <1>1, <1>2, <1>3
<1>8. ring(buf, N, W, a, (b - 1) % W) = s
  BY <1>4, <1>5, <1>7
<1> QED BY <1>2, <1>6, <1>8 DEF s, q

\* Two rings that follow one another are one ring.
LEMMA RingJoin ==
  ASSUME NEW N, NEW W, RingSizes(N, W), NEW S, NEW buf \in Buffer(N, S),
         NEW a \in Index(W), NEW b \in Index(W), NEW c \in Index(W),
         span(a, b, W) + span(b, c, W) < W
  PROVE  ring(buf, N, W, a, c) = ring(buf, N, W, a, b) \o ring(buf, N, W, b, c)
<1> buf \in [Index(N) -> S]
  BY DEF Buffer
<1>0. N \in Nat \ {0} /\ W \in Nat \ {0}
  BY DEF RingSizes
<1> a \in Nat /\ b \in Nat /\ c \in Nat
  BY <1>0 DEF Index
<1> DEFINE d == span(a, b, W)
           e == span(b, c, W)
           q == ring(buf, N, W, a, b)
           r == ring(buf, N, W, b, c)
           s == q \o r
<1>1. d \in Nat /\ e \in Nat /\ span(a, c, W) = d + e
  BY <1>0, SpanType, SpanJoin
<1>2. q \in Seq(S) /\ Len(q) = d /\ \A k \in 1..d : q[k] = buf[(a + k - 1) % N]
  <2>1. q \in Seq(S)
    BY RingSeq
  <2>3. Len(q) = d
    BY <1>1 DEF ring
  <2>2. \A k \in 1..d : q[k] = buf[(a + k - 1) % N]
    BY DEF ring
  <2> QED BY <2>1, <2>2, <2>3
<1>3. r \in Seq(S) /\ Len(r) = e /\ \A k \in 1..e : r[k] = buf[(b + k - 1) % N]
  <2>1. r \in Seq(S) /\ Len(r) = e
    BY RingSeq
  <2>2. \A k \in 1..e : r[k] = buf[(b + k - 1) % N]
    BY DEF ring
  <2> QED BY <2>1, <2>2
<1>4. \A k \in 1..e : (b + k - 1) % N = (a + (d + k) - 1) % N
  <2> TAKE k \in 1..e
  <2>0. k - 1 \in Nat
    BY <1>1
  <2>1. (b + (k - 1)) % N = (a + d + (k - 1)) % N
    BY <2>0, SlotAfter
  <2>2. b + (k - 1) = b + k - 1 /\ a + d + (k - 1) = a + (d + k) - 1
    BY <1>0, <1>1
  <2> QED BY <2>1, <2>2
<1>5. ring(buf, N, W, a, c) = [k \in 1..(d + e) |-> buf[(a + k - 1) % N]]
  BY <1>1 DEF ring
<1> HIDE DEF d, e, q, r
<1>6. s \in Seq(S) /\ Len(s) = d + e
      /\ \A k \in 1..(d + e) : s[k] = IF k <= d THEN q[k] ELSE r[k - d]
  BY <1>1, <1>2, <1>3, ConcatProperties
<1>7. s = [k \in 1..(d + e) |-> s[k]]
  BY <1>6, SeqIsFcn
<1> HIDE DEF s
<1>8. ASSUME NEW k \in 1..(d + e) PROVE s[k] = buf[(a + k - 1) % N]
  <2>1. CASE k <= d
    BY <1>1, <1>2, <1>6, <2>1
  <2>2. CASE k > d
    <3>1. k - d \in 1..e /\ d + (k - d) = k /\ ~(k <= d)
      BY <1>1, <2>2
    <3> QED BY <1>3, <1>4, <1>6, <3>1
  <2> QED BY <1>1, <2>1, <2>2
<1>9. ring(buf, N, W, a, c) = s
  BY <1>5, <1>7, <1>8
<1> QED BY <1>9 DEF s, q, r
=============================================================================
