\* Three processes and three blocks over two buffers.
CONSTANTS
  Proc = {p1, p2, p3}
  Block = {b1, b2, b3}
  Val = {0, 1}
  NBUF = 2
  MaxReads = 2
  None = None
SPECIFICATION Spec
SYMMETRY Symmetry
INVARIANTS
  CacheSound
PROPERTY Transparent
\* The bound on the reads, and a panic, let the system stop.
CHECK_DEADLOCK FALSE
