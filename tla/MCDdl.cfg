\* Two tables, two indexes each, two rows; five statements, two restarts, one fault.
CONSTANTS
  t1 = t1
  t2 = t2
  i1 = i1
  i2 = i2
  r1 = r1
  r2 = r2
  Tables = {t1, t2}
  Indexes = {i1, i2}
  Rows = {r1, r2}
  TrxKits <- BothKits
  StmtBound = 5
  RestartBound = 2
  FaultBound = 1
SPECIFICATION Spec
SYMMETRY Symmetry
CHECK_DEADLOCK FALSE
INVARIANTS
  RestartKeepsTables
  ReplayHitsOwnFile
  IndexesAgree
