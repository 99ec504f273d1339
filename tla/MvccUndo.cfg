SPECIFICATION RecoverySpec
CONSTANTS
  Sessions = {s1, s2}
  Rids = {r1}
  MAX_TRX_ID = 100
  IdBound = 4
  OpBound = 1
  LogBound = 6
  NoRid = NoRid
  RestartBound = 1
SYMMETRY Symmetry
CHECK_DEADLOCK FALSE
PROPERTY UncommittedRolledBack
