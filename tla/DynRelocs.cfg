\* Two symbols of every kind in shared libraries and executables with and
\* without PLTs; two relocations; a normal stub can load index 2 at most.
SPECIFICATION Spec
CONSTANTS
  f = f  g = g
  Syms = {f, g}
  Local = local
  Links <- AllLinks
  MaxRelocs = 2
  SectionDynsyms = 1
  MaxIndex = 2
INVARIANTS TypeOK RoomForRelocs ResolvedInOutput WrittenAsAllocated GotAreaKept
  StubsLoadIndex TextRelTagged
CHECK_DEADLOCK FALSE
