SPECIFICATION Spec
CONSTANTS
  Sessions = {s1, s2}
  Rids = {r1, r2}
  MAX_TRX_ID = 100
  IdBound = 5
  OpBound = 2
  LogBound = 8
  NoRid = NoRid
SYMMETRY Symmetry
CHECK_DEADLOCK FALSE
INVARIANTS
  StampOwned
  FirstDeleterWins
  PendingRowsIntact
PROPERTIES
  CommittedInsertStays
  ReadsRepeat
