SPECIFICATION Spec
CONSTANTS
  Delegations = {d1, d2}
  Tasks = {t1, t2, s1}
  Contracts = {c1, c2, c3}
  NoTask = NoTask
  NoContract = NoContract
  d1 = d1
  d2 = d2
  t1 = t1
  t2 = t2
  s1 = s1
  c1 = c1
  c2 = c2
  c3 = c3
  RootOf <- Roots
  PartsOf <- Parts
  TaskOf <- ForTask
  MaxRunning = 1
INVARIANTS SuccessIsExecuted
CHECK_DEADLOCK FALSE
