CONSTANTS
  c = c
  d = d
  e = e
  f = f
  v = v
  Bfds = {c, d, e}
  Syms = {f, v}
  None = None
  Links <- MCLinks
  MaxRelocs = 2
SPECIFICATION Spec
CHECK_DEADLOCK FALSE
INVARIANTS
  TypeOK
  StubsKept
  RightInterface
  OneGotValue
  RegisterValid
  RightMode
