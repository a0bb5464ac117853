SPECIFICATION Spec
CONSTANTS
  Jobs = {j1}
  Requests = {r1, r2}
  NoJob = NoJob
  MaxInFlight = 2
SYMMETRY Symmetry
INVARIANTS OneCompleteTree
CHECK_DEADLOCK FALSE
