SPECIFICATION FairSpec
CONSTANTS
  Clients = {c1, c2}
  PerFile = 2
  HeaderSize = 1
  PayloadSize = 1
  MaxBytes = 2
  LsnBound = 3
  FaultBound = 1
  RestartBound = 1
CHECK_DEADLOCK FALSE
PROPERTIES
  StopDrains
  ImplementsDurableLog
  WaitReturns
  StopEnds
