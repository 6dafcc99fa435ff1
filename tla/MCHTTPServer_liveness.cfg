SPECIFICATION FairSpec
CONSTANTS
  c1 = c1
  c2 = c2
  c3 = c3
  Conns = {c1, c2}
  Requests <- MCCalls
  SlowConns = {c1}
  IdSpace = 2
  Backlog = 2
  MaxSignals = 2
  MaxLives = 1
  None = None
PROPERTIES
  ShutdownIsReached
  EveryConnectionIsClosed
CHECK_DEADLOCK FALSE
