SPECIFICATION FairSpec
CONSTANTS
  c1 = c1
  c2 = c2
  c3 = c3
  Conns = {c1, c2}
  Requests <- MCIds
  SlowConns = {}
  IdSpace = 4
  Backlog = 1
  MaxSignals = 1
  MaxLives = 1
  None = None
PROPERTIES
  SignalEndsProcess
CHECK_DEADLOCK FALSE
