CONSTANTS
  Inputs <- MCInputs
  Filter = {"cat"}
  MaxChild = 5
  MaxFails = 1
  MAXARGS = 4
  NOFILE = 6
  MaxProc = 8
SPECIFICATION MCSpec
INVARIANTS
  PromptClean
  ParseCorrect
  NothingLeft
  ParseDecides
PROPERTY
  BothEnd
CHECK_DEADLOCK FALSE
