\* Two processes, two blocks, operations of up to two blocks, two crashes; as in
\* the kernel, the disk log has LOGSIZE blocks with its header.
CONSTANTS
  Proc = {p1, p2}
  Block = {b1, b2}
  Val = {0, 1}
  MAXOPBLOCKS = 4
  OPBLOCKS = 2
  LOGSIZE = 8
  nlog = 8
  MaxCrashes = 2
  NoVal = NoVal
SPECIFICATION Spec
INVARIANTS
  TypeOK
  NoPanic
  ReservationHolds
PROPERTIES
  AtomicDisk
  BeginReturns
\* The system may stop: nobody has to begin another operation.
CHECK_DEADLOCK FALSE
