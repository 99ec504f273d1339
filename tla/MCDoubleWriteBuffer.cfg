SPECIFICATION Spec
CONSTANTS
  Pools = {A, B}
  PageNums = {0, 1}
  MAX_PAGES = 3
  VersionBound = 2
  DropBound = 1
  RestartBound = 1
SYMMETRY Symmetry
CHECK_DEADLOCK FALSE
INVARIANTS
  ReadsLatest
  NoTornPage
  FirstCrashCovered
