SPECIFICATION Spec
CONSTANTS
  c1 = c1
  c2 = c2
  c3 = c3
  Conns = {c1, c2, c3}
  Requests <- MCIds
  SlowConns = {}
  IdSpace = 2
  Backlog = 1
  MaxSignals = 0
  MaxLives = 1
  None = None
SYMMETRY Symmetry
INVARIANTS
  IdsRepeatOnlyAfterWrap
CHECK_DEADLOCK FALSE
