---------------------------- MODULE MCSemaphore ----------------------------
(***************************************************************************)
(* TLC instances of Semaphore.                                             *)
(***************************************************************************)
EXTENDS Semaphore

\* Values programs open with: blocked, one unit, and a negative one.
MCOpenValues == {-2, 0, 1}
=============================================================================
