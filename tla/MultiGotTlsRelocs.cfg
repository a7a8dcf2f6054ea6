\* Two of three bfds use one TLS symbol, whose GOT slots need relocations.
SPECIFICATION Spec
CONSTANTS
  b1 = b1  b2 = b2  b3 = b3  x = x  y = y  t = t  l = l
  Bfds = {b1, b2, b3}
  OutputBfd = out
  Syms = {x, y, t}
  LocalSyms = {l}
  LdmModule = module
  MaxGotNo = 6
  Reserved = 2
  Links <- OneModel
INVARIANT RoomForRelocs
CHECK_DEADLOCK FALSE
