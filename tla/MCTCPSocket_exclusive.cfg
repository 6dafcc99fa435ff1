SPECIFICATION Spec
CONSTANTS
  a = a
  b = b
  c = c
  t1 = t1
  t2 = t2
  f1 = f1
  f2 = f2
  f3 = f3
  Objs = {a, b, c}
  Owner <- MCOwner
  Fds = {f1, f2, f3}
  Ports = {1}
  Ephemeral = {2, 3}
  Options = {"SO_RCVTIMEO"}
  Timeouts = {}
  None = None
INVARIANTS
  OtherSocketsCannotBind
