------------------------------ MODULE MCBcache ------------------------------
(***************************************************************************)
(* TLC instance of Bcache.                                                 *)
(***************************************************************************)
EXTENDS Bcache, TLC

\* Processes and blocks are interchangeable, and the run checks safety only.
Symmetry == Permutations(Proc) \cup Permutations(Block)
=============================================================================
