\* Three idioms of code in a section that starts at 24, the label anywhere.
SPECIFICATION Spec
CONSTANTS
  l = l  near = near  far = far
  Labels = {l}
  Data = {near, far}
  Address <- MCAddress
  Start = 24
  Reach <- MCReach
  Sections <- MCSections
INVARIANTS TypeOK LabelsFollow MeaningKept BranchesReach
\* Relaxation ends.
CHECK_DEADLOCK FALSE
