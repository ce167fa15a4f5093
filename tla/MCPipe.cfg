\* Two writers, a reader, a ring of two bytes, counters that wrap at four.
CONSTANTS
  Writers = {w1, w2}
  Readers = {r1}
  Byte = {0, 1}
  PIPESIZE = 2
  W = 4
  MaxLen = 3
  MaxCalls = 1
  NoProc = NoProc
SPECIFICATION Spec
INVARIANTS
  TypeOK
  NotStranded
  NoUseAfterFree
PROPERTIES
  FIFO
  CloseUnblocks
\* A reader may wait for ever for a writer that does not write.
CHECK_DEADLOCK FALSE
