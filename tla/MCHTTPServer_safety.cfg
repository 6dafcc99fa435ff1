SPECIFICATION Spec
CONSTANTS
  c1 = c1
  c2 = c2
  c3 = c3
  Conns = {c1, c2}
  Requests <- MCAll
  SlowConns = {}
  IdSpace = 2
  Backlog = 2
  MaxSignals = 2
  MaxLives = 2
  None = None
SYMMETRY Symmetry
INVARIANTS
  TypeOK
  OneReplyThenForward
  NoTruncatedReport
  NoPartialBody
  OneAcceptAfterSignal
  FailureOnlyFromPoll
  NoConnectionLost
PROPERTIES
  NoSilentClose
  ServiceSpec
CHECK_DEADLOCK FALSE
