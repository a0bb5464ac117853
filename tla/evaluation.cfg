SPECIFICATION SubTaskSpec
CONSTANTS
  b1 = b1
  b2 = b2
  b3 = b3
  Bids = {b1, b2, b3}
  Costs = {0, 3}
  Durations = {1, 2}
  Reputations = {49, 50, 80}
  Domains = {"d"}
  NoBudget = NoBudget
  NoDeadline = NoDeadline
  Published <- Tasks
  Remaining <- AroundDeadline
  Drafts <- SomeDrafts
  NoSpecification = NoSpecification
SYMMETRY Symmetry
INVARIANTS DominatorsComeFirst WinnerIsParetoOptimal NoBetterBidIsRejected RankingFollowsTheRole
CHECK_DEADLOCK FALSE
