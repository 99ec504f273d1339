CONSTANTS
  Threads = {t1, t2}
  PageBound = 2
  Capacity = 2
  LogBound = 6
  RestartBound = 1
  NestedModes = {}
  RedoEvicts = FALSE
SPECIFICATION Spec
SYMMETRY Symmetry
CHECK_DEADLOCK FALSE
INVARIANTS
  NoDeadlock
  FreePagesComplete
  ScanMissesNothing
  PagesMatchLog
