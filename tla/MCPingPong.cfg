CONSTANTS
  NPROC = 2
  NoChan = NoChan
  MAX_SEMAPHORES = 2
  INT_MAX = 3
  OpenValues <- MCValues
  MaxCalls = 9
  SemInitCalled = FALSE
  Rounds = 2
SPECIFICATION PPSpec
PROPERTY Terminates
CHECK_DEADLOCK FALSE
