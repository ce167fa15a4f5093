---------------------------- MODULE MCProcTable ----------------------------
(***************************************************************************)
(* TLC instances of ProcTable.                                             *)
(***************************************************************************)
EXTENDS ProcTable

\* kill() of the first child, and of pid 0.
MCKillPids == {0, 2}
=============================================================================
