\* The kernel as it boots.
CONSTANTS
  NPROC = 2
  NoChan = NoChan
  MAX_SEMAPHORES = 1
  INT_MAX = 3
  OpenValues <- MCLifeValues
  MaxCalls = 3
  SemInitCalled = FALSE
SPECIFICATION LifeSpec
PROPERTY ClosedCanBeOpened
CHECK_DEADLOCK FALSE
