SPECIFICATION FairSpec
CONSTANTS
  Delegations = {d1, d2}
  Tasks = {t1, t2, s1}
  Contracts = {c1, c2, c3}
  NoTask = NoTask
  NoContract = NoContract
  d1 = d1
  d2 = d2
  t1 = t1
  t2 = t2
  s1 = s1
  c1 = c1
  c2 = c2
  c3 = c3
  RootOf <- Roots
  PartsOf <- Parts
  TaskOf <- ForTask
  MaxRunning = 2
INVARIANTS ExecutionCleansUp VerifiedIsRecorded CompletedIsVerified
PROPERTIES OnlyPauseAbandons DelegationEnds
CHECK_DEADLOCK FALSE
