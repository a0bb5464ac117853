SPECIFICATION RegistrySpec
CONSTANTS
  Requests = {r1}
  Contracts = {c1}
  Tasks = {t1}
  Agents = {a1, a2}
  Registrations = {g1, g2, g3}
  Skills = {s1, s2, s3}
  Domains = {d1, d2}
  NoAgent = NoAgent
  c1 = c1
  t1 = t1
  a1 = a1
  a2 = a2
  g1 = g1
  g2 = g2
  g3 = g3
  s1 = s1
  s2 = s2
  s3 = s3
  d1 = d1
  d2 = d2
  TaskOf <- OneTask
  AgentOf <- OneAgent
  BatchOf <- Batches
  DefaultScore <- Scores
  Domain <- SharedDomain
  Registered = {a1}
  Permitted = {}
  Opened = {c1}
  InitialScore <- LowScore
  Severities = {"CRITICAL"}
  MaxInFlight = 2
INVARIANTS PassedSkillsAreHeld DuplicatesOnlyFromOverlap EntryScoreStands
PROPERTIES OnlyRegistrationRevives
CHECK_DEADLOCK FALSE
