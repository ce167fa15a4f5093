------------------------------ MODULE PipeSpec ------------------------------
(***************************************************************************)
(* What kernel/pipe.c promises its users: a bounded first-in first-out     *)
(* queue of bytes with two ends that can be closed.  Nothing is put once   *)
(* an end is closed; what is left can still be got.                        *)
(***************************************************************************)
EXTENDS Integers, Sequences

CONSTANTS Byte, Size

VARIABLES q, rend, wend   \* the bytes, and whether the two ends are open

pvars == <<q, rend, wend>>

PInit == q = <<>> /\ rend = TRUE /\ wend = TRUE

Put ==
  /\ rend /\ wend /\ Len(q) < Size
  /\ \E ch \in Byte : q' = Append(q, ch)
  /\ UNCHANGED <<rend, wend>>

Get == q # <<>> /\ rend /\ q' = Tail(q) /\ UNCHANGED <<rend, wend>>

CloseRead == rend /\ rend' = FALSE /\ UNCHANGED <<q, wend>>

CloseWrite == wend /\ wend' = FALSE /\ UNCHANGED <<q, rend>>

PNext == Put \/ Get \/ CloseRead \/ CloseWrite

Spec == PInit /\ [][PNext]_pvars
=============================================================================
