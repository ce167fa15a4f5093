CONSTANTS
  Proc = {p1, p2}
  First = p1
  Programs <- MCPrograms
  NINODES = 5
  NINODE = 5
  NFILE = 2
  NOFILE = 2
  NBLOCK = 6
  NDIRECT = 1
  NINDIRECT = 1
  DPB = 4
  MaxWrite = 1
  NDEV = 2
  Disk0 <- MCDisk
  None = None
SPECIFICATION Spec
INVARIANTS
  NoPanic
  RefExact
  NamesCounted
  BlocksOwnedOnce
  Coherent
  NoDeadlock
CHECK_DEADLOCK FALSE
