----------------------------- MODULE MCProcKill -----------------------------
(***************************************************************************)
(* TLC instance of ProcKill.                                               *)
(***************************************************************************)
EXTENDS ProcKill

\* kill() of the first child, and of pid 0.
MCKillPids == {0, 2}
=============================================================================
