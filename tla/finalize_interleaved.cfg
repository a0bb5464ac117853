SPECIFICATION Spec
CONSTANTS
  Jobs = {j1}
  Requests = {r1, r2, r3}
  NoJob = NoJob
  MaxInFlight = 2
SYMMETRY Symmetry
INVARIANTS EveryTaskIsSpecified FinalizedIsComplete
CHECK_DEADLOCK FALSE
