----------------------------- MODULE BidRanking -----------------------------
(***************************************************************************)
(* Phases 1 and 2 of services/market-hub.service.ts: filterBids rejects    *)
(* the bids a task cannot use, rankBids orders the others by a weighted    *)
(* score and marks the Pareto frontier, evaluateBids returns both.  The    *)
(* evaluation reads the bids on record and writes nothing; bids arrive and *)
(* the deadline comes closer between evaluations.                          *)
(*                                                                         *)
(* Costs and durations are integers, scores are compared as exact          *)
(* fractions.  The code computes them in doubles, where scores that are    *)
(* equal as fractions can come out in either order; so may they here.      *)
(***************************************************************************)
EXTENDS Integers, FiniteSets

CONSTANTS
  Bids,           \* the bids that can be submitted
  Costs,          \* bid.proposedCost
  Durations,      \* bid.proposedDurationSeconds, in units of the clock
  Reputations,    \* agent.baseReputationScore, in hundredths
  Domains,        \* the skill domains of credentials
  NoBudget, NoDeadline,
  Published,      \* the Task rows that bids are made for
  Remaining       \* the times until a deadline that are evaluated at

(* What the filters read of a Task row: criticality, metadata's            *)
(* requiredCredentialDomains and maxCost, whether there is a deadline.     *)
TaskRow == [criticality: {"LOW", "MEDIUM", "HIGH"}, required: SUBSET Domains,
            budget: Nat \union {NoBudget}, timed: BOOLEAN]

ASSUME RankingAssumption ==
  /\ IsFiniteSet(Bids)
  /\ Costs \subseteq Nat /\ Durations \subseteq Nat /\ Reputations \subseteq 0..100
  /\ NoBudget \notin Nat
  /\ Published \subseteq TaskRow
  /\ Remaining \subseteq Int /\ NoDeadline \notin Int

VARIABLES
  task,        \* the Task row
  offers,      \* the bids on record, with the agents that made them
  remaining,   \* task.deadline - now
  evaluation   \* what the last evaluation read and returned

vars == <<task, offers, remaining, evaluation>>

Offer == [cost: Costs, duration: Durations, reputation: Reputations,
          active: BOOLEAN, held: SUBSET Domains]

----------------------------------------------------------------------------
(* Phase 1: hard filtering                                                 *)

reputationThreshold ==
  CASE task.criticality = "HIGH" -> 80 [] task.criticality = "MEDIUM" -> 50 [] OTHER -> 20

\* deadlineMs ? ... : undefined -- a deadline of exactly now is no deadline.
HasLimit(left) == left # NoDeadline /\ left # 0

AtLeastZero(n) == IF n > 0 THEN n ELSE 0

\* Mutant: the cost is compared the wrong way round.
MutantOverBudget(o, left) ==
  /\ o.active
  /\ task.required \subseteq o.held
  /\ task.budget # NoBudget => o.cost >= task.budget
  /\ HasLimit(left) => o.duration <= AtLeastZero(left)
  /\ o.reputation >= reputationThreshold

IsEligible(o, left) ==
  /\ o.active
  /\ task.required \subseteq o.held
  /\ task.budget # NoBudget => o.cost <= task.budget
  /\ HasLimit(left) => o.duration <= AtLeastZero(left)
  /\ o.reputation >= reputationThreshold

Eligible(bids, left) == {b \in DOMAIN bids : IsEligible(bids[b], left)}

----------------------------------------------------------------------------
(* Phase 2: ranking, relative to the eligible bids                         *)

\* Math.max(...numbers, 1)
IsScale(m, numbers) == m \in numbers \union {1} /\ \A n \in numbers \union {1} : n <= m

\* costScore and durationScore are 1 - value / scale; these are the
\* numerators.
CostScore(o, mc) == mc - o.cost
DurationScore(o, md) == md - o.duration

\* Mutant: the reputation is forgotten.
MutantNoReputation(o, mc, md) ==
  3500 * (CostScore(o, mc) * md) + 2500 * (DurationScore(o, md) * mc)

\* 0.35 costScore + 0.25 durationScore + 0.4 reputation, times the common
\* denominator 10000 mc md.
CompositeScore(o, mc, md) ==
  3500 * (CostScore(o, mc) * md) + 2500 * (DurationScore(o, md) * mc)
    + 40 * (o.reputation * (mc * md))

\* Mutant: being better on one objective is enough to dominate.
MutantDominatesOnOne(p, o, mc, md) ==
  \/ CostScore(p, mc) > CostScore(o, mc)
  \/ DurationScore(p, md) > DurationScore(o, md)
  \/ p.reputation > o.reputation

Dominates(p, o, mc, md) ==
  /\ CostScore(p, mc) >= CostScore(o, mc)
  /\ DurationScore(p, md) >= DurationScore(o, md)
  /\ p.reputation >= o.reputation
  /\ \/ CostScore(p, mc) > CostScore(o, mc)
     \/ DurationScore(p, md) > DurationScore(o, md)
     \/ p.reputation > o.reputation

\* The orders in which sorting the bids of S by descending score can leave
\* them: functions from the positions onto S.
IsRanking(order, bids, S, mc, md) ==
  /\ \A b \in S : \E i \in DOMAIN order : order[i] = b
  /\ \A i, j \in DOMAIN order : i < j =>
       CompositeScore(bids[order[i]], mc, md) >= CompositeScore(bids[order[j]], mc, md)

ParetoOptimal(bids, S, mc, md) ==
  {b \in S : \A other \in S \ {b} : ~Dominates(bids[other], bids[b], mc, md)}

----------------------------------------------------------------------------
(* The specification                                                       *)

None == [left |-> NoDeadline, bids |-> <<>>, ranking |-> <<>>, frontier |-> {}, mc |-> 1, md |-> 1]

Init ==
  /\ task \in Published
  /\ offers = <<>>
  /\ remaining \in IF task.timed THEN Remaining ELSE {NoDeadline}
  /\ evaluation = None

Submit(b, o) ==
  /\ b \notin DOMAIN offers
  /\ offers' = [c \in DOMAIN offers \union {b} |-> IF c = b THEN o ELSE offers[c]]
  /\ UNCHANGED <<task, remaining, evaluation>>

Tick ==
  /\ remaining # NoDeadline
  /\ remaining' \in {left \in Remaining : left < remaining}
  /\ UNCHANGED <<task, offers, evaluation>>

\* evaluateBids; the winner is the first of the ranking.
Evaluate ==
  LET S == Eligible(offers, remaining)
      costs == {offers[b].cost : b \in S}
      durations == {offers[b].duration : b \in S}
  IN
  /\ \E order \in [1..Cardinality(S) -> S], mc \in costs \union {1}, md \in durations \union {1} :
       /\ IsScale(mc, costs) /\ IsScale(md, durations)
       /\ IsRanking(order, offers, S, mc, md)
       /\ evaluation' = [left |-> remaining, bids |-> offers, ranking |-> order,
                         frontier |-> ParetoOptimal(offers, S, mc, md), mc |-> mc, md |-> md]
  /\ UNCHANGED <<task, offers, remaining>>

Next == Evaluate \/ Tick \/ \E b \in Bids, o \in Offer : Submit(b, o)

Spec == Init /\ [][Next]_vars

----------------------------------------------------------------------------
(* Properties                                                              *)

Ranked == {evaluation.ranking[i] : i \in DOMAIN evaluation.ranking}

TypeOK ==
  /\ task \in Published
  /\ DOMAIN offers \subseteq Bids
  /\ offers \in [DOMAIN offers -> Offer]
  /\ remaining \in IF task.timed THEN Remaining ELSE {NoDeadline}
  /\ DOMAIN evaluation.bids \subseteq Bids
  /\ evaluation.bids \in [DOMAIN evaluation.bids -> Offer]
  /\ Ranked \subseteq DOMAIN evaluation.bids
  /\ evaluation.frontier \subseteq Ranked
  /\ evaluation.left \in Remaining \union {NoDeadline}
  /\ evaluation.mc \in Nat \ {0} /\ evaluation.md \in Nat \ {0}

(* The weighted score never puts a bid before one that dominates it,       *)
(* whatever the other bids do to the normalisation and however ties come   *)
(* out of the sort.                                                        *)
DominatorsComeFirst == \A i, j \in DOMAIN evaluation.ranking :
  Dominates(evaluation.bids[evaluation.ranking[i]], evaluation.bids[evaluation.ranking[j]],
            evaluation.mc, evaluation.md) => i < j

(* "Identifies the Pareto frontier and selects the bid with the highest    *)
(* composite score": the winner is on the frontier it is reported with.    *)
WinnerIsParetoOptimal ==
  DOMAIN evaluation.ranking # {} => evaluation.ranking[1] \in evaluation.frontier

AtLeastAsGood(p, o) ==
  /\ o.active => p.active
  /\ o.held \subseteq p.held
  /\ p.cost <= o.cost /\ p.duration <= o.duration /\ p.reputation >= o.reputation

(* No bid is rejected that is at least as good in everything as one that   *)
(* is ranked: the filters agree with the objectives.                       *)
NoBetterBidIsRejected == \A b \in DOMAIN evaluation.bids, c \in Ranked :
  AtLeastAsGood(evaluation.bids[b], evaluation.bids[c]) => b \in Ranked

============================================================================
