SPECIFICATION MarketSpec
CONSTANTS
  Requests = {r1, r2, r3, r4}
  Contracts = {c1, c2, c3}
  Tasks = {t1, t2}
  Agents = {a1, a2}
  Bids = {b1, b2, b3, b4}
  NoAgent = NoAgent
  c1 = c1
  c2 = c2
  c3 = c3
  t1 = t1
  t2 = t2
  a1 = a1
  a2 = a2
  b1 = b1
  b2 = b2
  b3 = b3
  b4 = b4
  BidTask <- PairTask
  BidAgent <- PairAgent
  BidOf <- PairBidOf
  TaskOf <- PairTaskOf
  AgentOf <- PairAgentOf
  Path <- Mixed
  Permitted = {c1, c2, c3}
  Opened = {c1}
  InitialScore <- LowScore
  Severities = {"CRITICAL"}
  MaxInFlight = 1
SYMMETRY Symmetry
INVARIANTS LedgerIsConsistent TaskAgrees EndedHoldsNoGrant ScoreMatchesPenalties TasksStandOnBids BidsOpenTheTask
PROPERTIES LifecycleSpec TaskMovesForward BidsAreAdmitted
CHECK_DEADLOCK FALSE
