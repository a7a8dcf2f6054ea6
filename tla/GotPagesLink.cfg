\* Four symbols with two addends each, in two segments of two bytes that may
\* straddle a page boundary: the estimate by size, 0 + 5, is then smaller than
\* the sum of the per-symbol estimates, 8, and four of its slots are needed.
SPECIFICATION Spec
CONSTANTS
  Refs = {r1, r2, r3, r4}
  PageAddends = {0, 1}
  DispAddends = {1}
  PageSize = 8
  Reserved = 2
  PageSlack = 5
  SegmentBytes = 2
  FirstStarts = {3, 4}
  SecondStarts = {18, 19}
  Layouts <- MCLayouts
SYMMETRY Symmetry
INVARIANT EnoughGotSpace
CHECK_DEADLOCK FALSE
