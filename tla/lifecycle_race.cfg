SPECIFICATION Spec
CONSTANTS
  Requests = {r1, r2}
  Contracts = {c1}
  Tasks = {t1}
  Agents = {a1}
  NoAgent = NoAgent
  c1 = c1
  c2 = c2
  t1 = t1
  a1 = a1
  TaskOf <- OneTask
  AgentOf <- OneAgent
  Permitted = {c1}
  Opened = {c1}
  InitialScore <- DefaultScore
  Severities = {"CRITICAL"}
  MaxInFlight = 2
PROPERTIES LifecycleSpec
CHECK_DEADLOCK FALSE
