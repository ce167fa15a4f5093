------------------------------- MODULE Rings -------------------------------
(***************************************************************************)
(* Ring buffers as the labo2 kernel has them (kernel/pipe.c, uart.c,       *)
(* console.c): an array of N entries, and indices that only grow and wrap  *)
(* at W, of which the remainder by N is the place in the array.            *)
(***************************************************************************)
EXTENDS Integers, Sequences

\* N divides W, or the ring would break when an index wraps.
RingSizes(N, W) == N \in Nat \ {0} /\ W \in Nat \ {0} /\ W % N = 0

\* The values of an index that wraps at W.
Index(W) == 0..(W - 1)

\* The arrays of N entries in S.
Buffer(N, S) == [Index(N) -> S]

\* The array with x stored at index i.
stored(buf, N, i, x) == [buf EXCEPT ![i % N] = x]

\* The number of entries from index a up to index b.
span(a, b, W) == (b - a) % W

\* The entries from index a up to index b, oldest first.
ring(buf, N, W, a, b) == [k \in 1..span(a, b, W) |-> buf[(a + k - 1) % N]]
=============================================================================
