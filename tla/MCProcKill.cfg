\* Init and two slots on two processors.
CONSTANTS
  NPROC = 3
  NCPU = 2
  MaxPid = 4
  MaxCalls = 1
  KillPids <- MCKillPids
SPECIFICATION KillSpec
INVARIANT OnlyNamedVictims
