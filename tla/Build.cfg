\* Up to four runs of either script, stopped anywhere, also inside a command.
SPECIFICATION Spec
CONSTANTS
  Scripts = {TRUE, FALSE}
  MaxRuns = 4
INVARIANT FinishedMeansComplete
PROPERTIES FinishedIsFinal StuckOnlyAtClone
CHECK_DEADLOCK FALSE
