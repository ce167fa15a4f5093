\* Three processes, one semaphore; ints of two bits so that value wraps.
CONSTANTS
  NPROC = 3
  NoChan = NoChan
  MAX_SEMAPHORES = 1
  INT_MAX = 1
  OpenValues <- MCOpenValues
  MaxCalls = 2
  SemInitCalled = FALSE
SPECIFICATION Spec
INVARIANTS
  TypeOK
  LockDiscipline
  NoLostWakeup
\* Every process may end up blocked on a semaphore nobody ups again.
CHECK_DEADLOCK FALSE
PROPERTY AtomicSemaphore
