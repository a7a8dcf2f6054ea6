\* Two of three bfds use different access models for one TLS symbol.
SPECIFICATION Spec
CONSTANTS
  b1 = b1  b2 = b2  b3 = b3  x = x  y = y  t = t  l = l
  Bfds = {b1, b2, b3}
  OutputBfd = out
  Syms = {x, y, t}
  LocalSyms = {l}
  LdmModule = module
  MaxGotNo = 7
  Reserved = 2
  Links <- TwoModels
INVARIANT TlsTypesKept
CHECK_DEADLOCK FALSE
