CONSTANTS
  Bfds = {b1, b2, b3}
  None = None
  Inputs <- MCInputs
SPECIFICATION Spec
CHECK_DEADLOCK FALSE
INVARIANTS
  CodeRuns
  RefusedForReason
  AsesApart

