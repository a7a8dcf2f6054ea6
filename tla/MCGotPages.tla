----------------------------- MODULE MCGotPages -----------------------------
(***************************************************************************)
(* TLC instances of GotPages.                                              *)
(***************************************************************************)
EXTENDS GotPages

\* Two segments of SegmentBytes bytes each, placed across a page boundary or
\* next to one; every symbol is at the start of one of them.
CONSTANTS SegmentBytes, FirstStarts, SecondStarts

SegmentAt(start) == [first |-> start, last |-> start + SegmentBytes - 1]

MCLayouts ==
  UNION {[value : [Refs -> {s1, s2}],
          text : {SegmentAt(s1)}, data : {SegmentAt(s2)}] :
           s1 \in FirstStarts, s2 \in SecondStarts}

NoLayouts == {}

\* Addends of both signs, in steps finer than a page, four pages wide.
WideAddends == -4 .. 11

Symmetry == Permutations(Refs)
=============================================================================
