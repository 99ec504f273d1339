SPECIFICATION RecoverySpec
CONSTANTS
  Sessions = {s1, s2}
  Rids = {r1, r2}
  MAX_TRX_ID = 100
  IdBound = 3
  OpBound = 2
  LogBound = 5
  NoRid = NoRid
  RestartBound = 1
SYMMETRY Symmetry
CHECK_DEADLOCK FALSE
PROPERTIES
  CommitIsDurable
INVARIANTS
  AckedInsertSurvives
