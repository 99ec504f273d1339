SPECIFICATION Spec
CONSTANTS
  Conns = {c1, c2}
  PoolThreads = {t1, t2, t3}
  CoreSize = 2
  Loop = Loop
  Models <- BothModels
  SendBound <- TwoAndNone
  c1 = c1
  c2 = c2
INVARIANTS
  NoUseAfterFree
  NoRequestAfterDb
PROPERTIES
  ShutdownCompletes
  EveryMessageAnswered
CHECK_DEADLOCK FALSE
