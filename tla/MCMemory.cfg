CONSTANTS
  Proc = {p1, p2}
  InitProc = p1
  NPAGE = 18
  R = 3
  PGSIZE = 2
  W = 64
  Image <- MCImage
  NArgs = {0, 2}
  Delta <- MCDelta
  Addr = {0, 1, 4}
  MaxCalls = 8
SPECIFICATION Spec
INVARIANTS
  NoPanic
  PagesOwnedOnce
  SizeMapped
PROPERTY
  FailureUndone
CHECK_DEADLOCK FALSE
