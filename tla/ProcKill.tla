------------------------------ MODULE ProcKill ------------------------------
(***************************************************************************)
(* Who gets killed: ProcTable with a history variable, the pids programs   *)
(* have passed to kill().                                                  *)
(***************************************************************************)
EXTENDS ProcTable

VARIABLE asked   \* pids kill() was called with

killVars == <<vars, asked>>

KillInit == Init /\ asked = {}

KillNext ==
  \/ \E p \in Procs, x \in KillPids : kill(p, x) /\ asked' = asked \cup {x}
  \/ \E p \in Procs : /\ \/ KernelStep(p) \/ sched(p) \/ scheduler(p) \/ yield(p)
                         \/ fork_alloc(p) \/ exit_reparent(p) \/ wait_call(p)
                      /\ UNCHANGED asked

KillSpec == KillInit /\ [][KillNext]_killVars

\* proc.c, kill(): "Kill the process with the given pid."  A process that is
\* marked killed is one that somebody named.
OnlyNamedVictims ==
  \A p \in Procs :
    killed[p] /\ state[p] \in {"RUNNABLE", "RUNNING", "SLEEPING"} => pid[p] \in asked
=============================================================================
