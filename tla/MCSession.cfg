SPECIFICATION Spec
CONSTANTS
  s1 = s1
  s2 = s2
  Sessions = {s1, s2}
  Protocol <- OneOfEach
  k1 = k1
  k2 = k2
  k3 = k3
  Keys = {k1, k2, k3}
  Stored = {k1, k2}
  StmtBound <- OneAndTwo
  Wheres <- AllOrSecond
  RowBound = 6
  MAX_ID = 99
INVARIANTS
  IdleHoldsNothing
  StampsMatchOps
  SuccessIsComplete
CHECK_DEADLOCK FALSE
