CONSTANTS
  Threads = {t1, t2}
  LeafMax = 4
  InternalMax = 4
  PageBound = 10
  Keys = {1, 4, 5, 8, 13, 20, 27}
  InitialInserts <- Trees
  OpBound = 2
SPECIFICATION Spec
SYMMETRY Symmetry
CHECK_DEADLOCK FALSE
INVARIANTS
  TreeValid
  ChangesLatched
  LogReproduces
  ScanMissesNothing
  DeadlocksAreScans
