\* Three bfds; seven slots are within reach, two of them reserved.  Each bfd refers
\* to any of a local and two global symbols and to one or two pages; or uses any
\* access model for one TLS symbol and for the module, and perhaps a global symbol.
SPECIFICATION Spec
CONSTANTS
  b1 = b1  b2 = b2  b3 = b3  x = x  y = y  t = t  l = l
  Bfds = {b1, b2, b3}
  OutputBfd = out
  Syms = {x, y, t}
  LocalSyms = {l}
  LdmModule = module
  MaxGotNo = 7
  Reserved = 2
  Links <- AllLinks
INVARIANTS TypeOK LocalsFit SortAsserts NoLazySecondary WithinReach RelocsBalance
PROPERTIES KeepsContract LinkFinishes
CHECK_DEADLOCK FALSE
