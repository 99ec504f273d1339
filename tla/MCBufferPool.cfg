CONSTANTS
  Threads = {t1, t2}
  Pools = {a, b}
  LatePools = {b}
  MAX_PAGE_NUM = 2
  FRAME_NUM = 3
  LsnBound = 4
  LateLsnBound = 4
  RestartBound = 1
SPECIFICATION Spec
SYMMETRY Symmetry
CHECK_DEADLOCK FALSE
INVARIANTS
  HoldersSeeNewest
  RedoSucceeds
  WriteAhead
  HeaderMatchesLog
  DeadlocksAreEvictions
