\* Every order in which up to 16 different addends reach one list, with pages
\* of 4 bytes: neighbours at every distance around the page size.
SPECIFICATION Spec
CONSTANTS
  Refs = {r1}
  PageAddends <- WideAddends
  DispAddends = {}
  PageSize = 4
  Reserved = 2
  PageSlack = 5
  SegmentBytes = 5
  FirstStarts = {}
  SecondStarts = {}
  Layouts <- NoLayouts
INVARIANTS RangesApart SeenCovered NumPagesExact PagesBounded
