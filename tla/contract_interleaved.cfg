SPECIFICATION FairSpec
CONSTANTS
  Requests = {r1, r2, r3}
  Contracts = {c1, c2}
  Tasks = {t1}
  Agents = {a1}
  NoAgent = NoAgent
  c1 = c1
  c2 = c2
  t1 = t1
  a1 = a1
  TaskOf <- OneTask
  AgentOf <- OneAgent
  Permitted = {c1, c2}
  Opened = {c1}
  InitialScore <- LowScore
  Severities = {"LOW", "CRITICAL"}
  MaxInFlight = 3
INVARIANTS LedgerTrail FailureIsPenalised GrantsFollowActivation BreakerConsistent ScoreWithinCharges ChargesAreRecorded
PROPERTIES EndIsSettled RevivalUndoesAPenalty
CHECK_DEADLOCK FALSE
