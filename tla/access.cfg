SPECIFICATION GatewaySpec
CONSTANTS
  Requests = {r1, r2, r3}
  Contracts = {c1, c2, c3}
  Tasks = {t1}
  Agents = {a1, a2}
  Checks = {k1}
  NoAgent = NoAgent
  NoToken = NoToken
  c1 = c1
  c2 = c2
  c3 = c3
  t1 = t1
  a1 = a1
  a2 = a2
  TaskOf <- OneTask
  AgentOf <- TwoAgents
  Permitted = {c1, c2, c3}
  Opened = {c2, c3}
  InitialScore <- Tripped
  Severities = {"LOW"}
  MaxInFlight = 1
  Scope <- ScopeTree
  Required <- Asked
  ScopesOf <- Granted
  Duration <- OneForever
  Tokens <- OneToken
  MaxTime = 1
SYMMETRY RequestSymmetry
INVARIANTS AllowedMeansGranted CoverageComposes
PROPERTIES AccessIsCurrent ActiveHasAccess
CHECK_DEADLOCK FALSE
