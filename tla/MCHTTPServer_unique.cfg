SPECIFICATION Spec
CONSTANTS
  c1 = c1
  c2 = c2
  c3 = c3
  Conns = {c1, c2}
  Requests <- MCIds
  SlowConns = {}
  IdSpace = 4
  Backlog = 1
  MaxSignals = 0
  MaxLives = 2
  None = None
INVARIANTS
  UniqueQueryID
CHECK_DEADLOCK FALSE
