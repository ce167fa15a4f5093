\* Two requests fit in the descriptors, with one descriptor left over.
CONSTANTS
  p1 = p1
  p2 = p2
  p3 = p3
  Proc = {p1, p2, p3}
  Block = {1, 2, 3}
  NUM = 7
  IDX = 7
  INPUT_BUF_SIZE = 3
  UART_TX_BUF_SIZE = 2
  U = 6
  Scenarios <- MCScenarios
  None = None
SPECIFICATION Spec
INVARIANTS
  DiskCorrect
  OutputInOrder
PROPERTIES
  LineDiscipline
  AllServed
CHECK_DEADLOCK FALSE
