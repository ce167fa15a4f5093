-------------------------- MODULE MCSemaphoreLife --------------------------
(***************************************************************************)
(* TLC instance of SemaphoreLife.                                          *)
(***************************************************************************)
EXTENDS SemaphoreLife

\* The values pingpong opens its semaphores with.
MCLifeValues == {0, 1}
=============================================================================
