------------------------- MODULE BidRankingProofs -------------------------
(***************************************************************************)
(* Proofs about BidRanking, for any number of bids and any offers; and     *)
(* about SubTaskMarket: it is BidRanking for the rows that decompositions  *)
(* persist, and the filters that read such a row alone do what the role of *)
(* the specification asks for.                                             *)
(***************************************************************************)
EXTENDS SubTaskMarket, FiniteSetTheorems, TLAPS

----------------------------------------------------------------------------
(* Arithmetic of the weighted score                                        *)

LEMMA ProductMonotone ==
  ASSUME NEW x \in Int, NEW y \in Int, NEW k \in Nat \ {0}
  PROVE  /\ x >= y => x * k >= y * k
         /\ x > y => x * k > y * k
  OBVIOUS

LEMMA ProductPositive ==
  ASSUME NEW m \in Nat \ {0}, NEW n \in Nat \ {0}
  PROVE  m * n \in Nat \ {0}
  OBVIOUS

LEMMA OfferTypes ==
  ASSUME NEW o \in Offer
  PROVE  o.cost \in Nat /\ o.duration \in Nat /\ o.reputation \in 0..100
<1>1. o.cost \in Costs /\ o.duration \in Durations /\ o.reputation \in Reputations
  BY DEF Offer
<1>2. QED
  BY <1>1, RankingAssumption

\* A positive weight on each of the three objectives: whoever dominates has
\* the strictly larger score.
LEMMA DominatorScoresHigher ==
  ASSUME NEW p \in Offer, NEW o \in Offer, NEW mc \in Nat \ {0}, NEW md \in Nat \ {0},
         Dominates(p, o, mc, md)
  PROVE  CompositeScore(p, mc, md) > CompositeScore(o, mc, md)
<1> DEFINE pc == CostScore(p, mc)          oc == CostScore(o, mc)
           pd == DurationScore(p, md)      od == DurationScore(o, md)
<1>1. /\ pc \in Int /\ oc \in Int /\ pd \in Int /\ od \in Int
      /\ p.reputation \in Int /\ o.reputation \in Int
  BY OfferTypes DEF CostScore, DurationScore
<1>2. /\ pc >= oc /\ pd >= od /\ p.reputation >= o.reputation
      /\ pc > oc \/ pd > od \/ p.reputation > o.reputation
  BY DEF Dominates
<1> HIDE DEF pc, oc, pd, od
<1>3. pc * md >= oc * md /\ (pc > oc => pc * md > oc * md)
  BY <1>1, <1>2, ProductMonotone
<1>4. pd * mc >= od * mc /\ (pd > od => pd * mc > od * mc)
  BY <1>1, <1>2, ProductMonotone
<1>5. /\ p.reputation * (mc * md) >= o.reputation * (mc * md)
      /\ p.reputation > o.reputation => p.reputation * (mc * md) > o.reputation * (mc * md)
  BY <1>1, <1>2, ProductMonotone, ProductPositive
<1> DEFINE a == pc * md   b == oc * md   c == pd * mc   d == od * mc
           e == p.reputation * (mc * md)   f == o.reputation * (mc * md)
<1>6. a \in Int /\ b \in Int /\ c \in Int /\ d \in Int /\ e \in Int /\ f \in Int
  BY <1>1
<1>7. a >= b /\ c >= d /\ e >= f /\ (a > b \/ c > d \/ e > f)
  BY <1>2, <1>3, <1>4, <1>5
<1>8. CompositeScore(p, mc, md) = 3500 * a + 2500 * c + 40 * e
  BY DEF CompositeScore, pc, pd
<1>9. CompositeScore(o, mc, md) = 3500 * b + 2500 * d + 40 * f
  BY DEF CompositeScore, oc, od
<1> HIDE DEF a, b, c, d, e, f
<1>10. 3500 * a + 2500 * c + 40 * e > 3500 * b + 2500 * d + 40 * f
  BY <1>6, <1>7
<1>11. QED
  BY <1>8, <1>9, <1>10

LEMMA ScoreIsInt ==
  ASSUME NEW o \in Offer, NEW mc \in Nat \ {0}, NEW md \in Nat \ {0}
  PROVE  CompositeScore(o, mc, md) \in Int
<1> DEFINE a == CostScore(o, mc) * md   c == DurationScore(o, md) * mc   e == o.reputation * (mc * md)
<1>1. CostScore(o, mc) \in Int /\ DurationScore(o, md) \in Int /\ o.reputation \in Int /\ mc * md \in Int
  BY OfferTypes DEF CostScore, DurationScore
<1>2. a \in Int /\ c \in Int /\ e \in Int
  BY <1>1
<1>3. CompositeScore(o, mc, md) = 3500 * a + 2500 * c + 40 * e
  BY DEF CompositeScore
<1> HIDE DEF a, c, e
<1>4. QED
  BY <1>2, <1>3

----------------------------------------------------------------------------
(* Types                                                                   *)

LEMMA InitTypeOK == Init => TypeOK
  BY DEF Init, None, TypeOK, Ranked

\* What an evaluation has chosen: an order of the eligible bids by score.
LEMMA EvaluateChooses ==
  ASSUME TypeOK, Evaluate
  PROVE  /\ UNCHANGED <<task, offers, remaining>>
         /\ remaining \in Remaining \union {NoDeadline}
         /\ evaluation'.bids = offers /\ evaluation'.left = remaining
         /\ Ranked' = Eligible(offers, remaining)
         /\ \E n \in Nat : evaluation'.ranking \in [1..n -> Eligible(offers, remaining)]
         /\ evaluation'.mc \in Nat \ {0} /\ evaluation'.md \in Nat \ {0}
         /\ IsRanking(evaluation'.ranking, offers, Eligible(offers, remaining),
                      evaluation'.mc, evaluation'.md)
         /\ evaluation'.frontier =
              ParetoOptimal(offers, Eligible(offers, remaining), evaluation'.mc, evaluation'.md)
<1> DEFINE S == Eligible(offers, remaining)
           costs == {offers[b].cost : b \in S}
           durations == {offers[b].duration : b \in S}
<1>1. S \subseteq DOMAIN offers
  BY DEF Eligible
<1>2. costs \subseteq Nat /\ durations \subseteq Nat
  BY <1>1, RankingAssumption DEF TypeOK, Offer
<1>3. PICK order \in [1..Cardinality(S) -> S], mc \in costs \union {1}, md \in durations \union {1} :
        /\ IsScale(mc, costs) /\ IsScale(md, durations)
        /\ IsRanking(order, offers, S, mc, md)
        /\ evaluation' = [left |-> remaining, bids |-> offers, ranking |-> order,
                          frontier |-> ParetoOptimal(offers, S, mc, md), mc |-> mc, md |-> md]
  BY DEF Evaluate
<1>4. mc \in Nat \ {0} /\ md \in Nat \ {0}
  BY <1>2, <1>3 DEF IsScale
<1>5. {order[i] : i \in DOMAIN order} = S
  BY <1>3 DEF IsRanking
<1>6. Cardinality(S) \in Nat
  BY <1>1, RankingAssumption, FS_Subset, FS_CardinalityType DEF TypeOK
<1>7. remaining \in Remaining \union {NoDeadline}
  BY DEF TypeOK
<1>8. QED
  BY <1>3, <1>4, <1>5, <1>6, <1>7 DEF Evaluate, Ranked

LEMMA NextTypeOK == TypeOK /\ [Next]_vars => TypeOK'
<1> SUFFICES ASSUME TypeOK, [Next]_vars PROVE TypeOK'
  OBVIOUS
<1>1. CASE Evaluate
  <2>1. Eligible(offers, remaining) \subseteq DOMAIN offers
    BY DEF Eligible
  <2>2. evaluation'.frontier \subseteq Ranked'
    BY <1>1, EvaluateChooses DEF ParetoOptimal
  <2>3. QED
    BY <1>1, <2>1, <2>2, EvaluateChooses DEF TypeOK
<1>2. CASE Tick
  BY <1>2 DEF Tick, TypeOK, Ranked
<1>3. ASSUME NEW b \in Bids, NEW o \in Offer, Submit(b, o) PROVE TypeOK'
  BY <1>3 DEF Submit, TypeOK, Ranked
<1>4. CASE UNCHANGED vars
  BY <1>4 DEF vars, TypeOK, Ranked
<1>5. QED
  BY <1>1, <1>2, <1>3, <1>4 DEF Next

\* Every evaluation ranks bids on record, relative to positive scales.
THEOREM RankingTypeCorrect == Spec => []TypeOK
<1>1. QED
  BY InitTypeOK, NextTypeOK, PTL DEF Spec

----------------------------------------------------------------------------
(* The ranking agrees with the objectives                                  *)

LEMMA EvaluationStands ==
  ASSUME [Next]_vars, ~Evaluate
  PROVE  evaluation' = evaluation
  BY DEF Next, Tick, Submit, vars

LEMMA NextDominators == TypeOK /\ DominatorsComeFirst /\ [Next]_vars => DominatorsComeFirst'
<1> SUFFICES ASSUME TypeOK, DominatorsComeFirst, [Next]_vars PROVE DominatorsComeFirst'
  OBVIOUS
<1>1. CASE ~Evaluate
  BY <1>1, EvaluationStands DEF DominatorsComeFirst
<1>2. CASE Evaluate
  <2> DEFINE rank == evaluation'.ranking
             mc == evaluation'.mc
             md == evaluation'.md
  <2> SUFFICES ASSUME NEW i \in DOMAIN rank, NEW j \in DOMAIN rank,
                      Dominates(offers[rank[i]], offers[rank[j]], mc, md), ~(i < j)
               PROVE  FALSE
    BY <1>2, EvaluateChooses DEF DominatorsComeFirst
  <2>1. PICK n \in Nat : rank \in [1..n -> Eligible(offers, remaining)]
    BY <1>2, EvaluateChooses
  <2>2. i \in Int /\ j \in Int
    BY <2>1
  <2>3. /\ mc \in Nat \ {0} /\ md \in Nat \ {0}
        /\ IsRanking(rank, offers, Eligible(offers, remaining), mc, md)
    BY <1>2, EvaluateChooses
  <2>4. offers[rank[i]] \in Offer /\ offers[rank[j]] \in Offer
    BY <2>1 DEF Eligible, TypeOK
  <2> DEFINE si == CompositeScore(offers[rank[i]], mc, md)
             sj == CompositeScore(offers[rank[j]], mc, md)
  <2>5. si \in Int /\ sj \in Int
    BY <2>3, <2>4, ScoreIsInt
  <2>6. si > sj
    BY <2>3, <2>4, DominatorScoresHigher
  <2>7. j < i => sj >= si
    BY <2>3 DEF IsRanking
  <2>8. j # i
    BY <2>5, <2>6
  <2> HIDE DEF si, sj
  <2>9. QED
    BY <2>2, <2>5, <2>6, <2>7, <2>8
<1>3. QED
  BY <1>1, <1>2

\* Whatever bids are evaluated together, none is ranked before one that
\* dominates it.
THEOREM RankingRespectsDominance == Spec => []DominatorsComeFirst
<1>1. Init => DominatorsComeFirst
  BY DEF Init, None, DominatorsComeFirst
<1>2. QED
  BY <1>1, NextDominators, RankingTypeCorrect, PTL DEF Spec

LEMMA NextWinner ==
  TypeOK /\ DominatorsComeFirst' /\ WinnerIsParetoOptimal /\ [Next]_vars => WinnerIsParetoOptimal'
<1> SUFFICES ASSUME TypeOK, DominatorsComeFirst', WinnerIsParetoOptimal, [Next]_vars,
                    DOMAIN evaluation'.ranking # {}
             PROVE  evaluation'.ranking[1] \in evaluation'.frontier
  BY DEF WinnerIsParetoOptimal
<1>1. CASE ~Evaluate
  BY <1>1, EvaluationStands DEF WinnerIsParetoOptimal
<1>2. CASE Evaluate
  <2> DEFINE rank == evaluation'.ranking
             S == Eligible(offers, remaining)
  <2>1. PICK n \in Nat : rank \in [1..n -> S]
    BY <1>2, EvaluateChooses
  <2>2. 1 \in DOMAIN rank /\ rank[1] \in S
    BY <2>1
  <2>3. ASSUME NEW b \in S, Dominates(offers[b], offers[rank[1]], evaluation'.mc, evaluation'.md)
        PROVE  FALSE
    <3>1. PICK i \in DOMAIN rank : rank[i] = b
      BY <1>2, EvaluateChooses DEF IsRanking
    <3>2. i < 1
      BY <1>2, <2>2, <2>3, <3>1, EvaluateChooses DEF DominatorsComeFirst
    <3>3. QED
      BY <2>1, <3>1, <3>2
  <2>4. QED
    BY <1>2, <2>2, <2>3, EvaluateChooses DEF ParetoOptimal
<1>3. QED
  BY <1>1, <1>2

\* The winner of every evaluation is on the Pareto frontier.
THEOREM WinnersAreParetoOptimal == Spec => []WinnerIsParetoOptimal
<1>1. Init => WinnerIsParetoOptimal
  BY DEF Init, None, WinnerIsParetoOptimal
<1>2. QED
  BY <1>1, NextWinner, RankingRespectsDominance, RankingTypeCorrect, PTL DEF Spec

----------------------------------------------------------------------------
(* The filters agree with the objectives                                   *)

LEMMA EligibilityIsMonotone ==
  ASSUME NEW p \in Offer, NEW o \in Offer, NEW left \in Remaining \union {NoDeadline},
         task \in Published, AtLeastAsGood(p, o), IsEligible(o, left)
  PROVE  IsEligible(p, left)
<1>1. /\ p.cost \in Nat /\ o.cost \in Nat /\ p.duration \in Nat /\ o.duration \in Nat
      /\ p.reputation \in Int /\ o.reputation \in Int /\ reputationThreshold \in Int
  BY RankingAssumption DEF Offer, reputationThreshold
<1>2. HasLimit(left) => AtLeastZero(left) \in Int
  BY RankingAssumption DEF HasLimit, AtLeastZero
<1>3. task.budget # NoBudget => task.budget \in Nat
  BY RankingAssumption DEF TaskRow
<1>4. QED
  BY <1>1, <1>2, <1>3 DEF AtLeastAsGood, IsEligible

LEMMA NextFilter ==
  TypeOK /\ NoBetterBidIsRejected /\ [Next]_vars => NoBetterBidIsRejected'
<1> SUFFICES ASSUME TypeOK, NoBetterBidIsRejected, [Next]_vars PROVE NoBetterBidIsRejected'
  OBVIOUS
<1>1. CASE ~Evaluate
  BY <1>1, EvaluationStands DEF NoBetterBidIsRejected, Ranked
<1>2. CASE Evaluate
  <2> SUFFICES ASSUME NEW b \in DOMAIN offers, NEW c \in Eligible(offers, remaining),
                      AtLeastAsGood(offers[b], offers[c])
               PROVE  b \in Eligible(offers, remaining)
    BY <1>2, EvaluateChooses DEF NoBetterBidIsRejected
  <2>1. offers[b] \in Offer /\ offers[c] \in Offer /\ task \in Published
        /\ remaining \in Remaining \union {NoDeadline}
    BY DEF Eligible, TypeOK
  <2>2. QED
    BY <2>1, EligibilityIsMonotone DEF Eligible
<1>3. QED
  BY <1>1, <1>2

\* A bid that is at least as good as an eligible one is eligible.
THEOREM FiltersAreMonotone == Spec => []NoBetterBidIsRejected
<1>1. Init => NoBetterBidIsRejected
  BY DEF Init, None, NoBetterBidIsRejected, Ranked
<1>2. QED
  BY <1>1, NextFilter, RankingTypeCorrect, PTL DEF Spec

----------------------------------------------------------------------------
(* Sub-tasks are tasks                                                     *)

LEMMA SubTaskNextIsNext == [SubTaskNext]_<<vars, role>> => [Next]_vars
  BY DEF SubTaskNext, vars

\* Every theorem about BidRanking holds of the market for sub-tasks.
THEOREM SubTasksAreRanked == SubTaskSpec => Spec
<1>1. SubTaskInit => Init
  BY DEF SubTaskInit
<1>2. QED
  BY <1>1, SubTaskNextIsNext, PTL DEF SubTaskSpec, Spec

----------------------------------------------------------------------------
(* The role and the row                                                    *)

\* The specification and the row come from one draft, and nothing changes
\* either.
RoleOnRecord == role \in RolesOf(task)

LEMMA NextRoleOnRecord ==
  ASSUME RoleOnRecord, [SubTaskNext]_<<vars, role>>
  PROVE  RoleOnRecord' /\ task' = task /\ role' = role
<1>1. role' = role
  BY DEF SubTaskNext
<1>2. task' = task
  BY DEF SubTaskNext, Next, Evaluate, Tick, Submit, vars
<1>3. QED
  BY <1>1, <1>2 DEF RoleOnRecord, RolesOf

LEMMA RoleComesFromADraft ==
  ASSUME RoleOnRecord, role # NoSpecification
  PROVE  \E d \in Drafts : task = Persisted(d) /\ role = Delegatee(d)
  BY DEF RoleOnRecord, RolesOf

\* The row asks for less than the role of any draft it can stand for ...
LEMMA FillersAreEligible ==
  ASSUME RoleOnRecord, role # NoSpecification, TypeOK, NEW o \in Offer, Fills(o)
  PROVE  IsEligible(o, remaining)
<1>1. PICK d \in Drafts : task = Persisted(d) /\ role = Delegatee(d)
  BY RoleComesFromADraft
<1>2. remaining = NoDeadline
  BY <1>1 DEF TypeOK, Persisted
<1>3. ~HasLimit(remaining)
  BY <1>2 DEF HasLimit
<1>4. o.reputation >= reputationThreshold
  <2>1. d.criticality \in {"LOW", "MEDIUM", "HIGH"}
    BY SubTaskAssumption DEF Draft
  <2>2. o.reputation \in Int
    BY OfferTypes
  <2>3. o.reputation >= IF d.criticality = "HIGH" THEN 80 ELSE 50
    BY <1>1 DEF Fills, Delegatee
  <2>4. task.criticality = d.criticality
    BY <1>1 DEF Persisted
  <2>5. QED
    BY <2>1, <2>2, <2>3, <2>4 DEF reputationThreshold
<1>5. task.required = {} /\ task.budget = NoBudget
  BY <1>1 DEF Persisted
<1>6. QED
  BY <1>3, <1>4, <1>5 DEF IsEligible, Fills

\* ... but on a MEDIUM or HIGH one not for less reputation.
LEMMA EligibleHaveTheReputation ==
  ASSUME RoleOnRecord, role # NoSpecification, task.criticality # "LOW",
         NEW o \in Offer, IsEligible(o, remaining)
  PROVE  o.reputation >= role.minReputationScore
<1>1. PICK d \in Drafts : task = Persisted(d) /\ role = Delegatee(d)
  BY RoleComesFromADraft
<1>2. d.criticality \in {"MEDIUM", "HIGH"} /\ task.criticality = d.criticality
  BY <1>1, SubTaskAssumption DEF Draft, Persisted
<1>3. role.minReputationScore = IF d.criticality = "HIGH" THEN 80 ELSE 50
  BY <1>1 DEF Delegatee
<1>4. o.reputation >= reputationThreshold
  BY DEF IsEligible
<1>5. QED
  BY <1>2, <1>3, <1>4 DEF reputationThreshold

LEMMA NextFollowsTheRole ==
  ASSUME TypeOK, RoleOnRecord, RankingFollowsTheRole, [SubTaskNext]_<<vars, role>>
  PROVE  RankingFollowsTheRole'
<1> USE NextRoleOnRecord
<1>1. [Next]_vars
  BY SubTaskNextIsNext
<1>2. CASE ~Evaluate
  BY <1>1, <1>2, EvaluationStands DEF RankingFollowsTheRole, Fills, Ranked
<1>3. CASE Evaluate
  <2> SUFFICES ASSUME role # NoSpecification, NEW b \in DOMAIN offers
               PROVE  /\ Fills(offers[b]) => b \in Eligible(offers, remaining)
                      /\ b \in Eligible(offers, remaining) /\ task.criticality # "LOW" =>
                           offers[b].reputation >= role.minReputationScore
    BY <1>3, EvaluateChooses DEF RankingFollowsTheRole, Fills
  <2>1. offers[b] \in Offer
    BY DEF TypeOK
  <2>2. QED
    BY <2>1, FillersAreEligible, EligibleHaveTheReputation DEF Eligible
<1>4. QED
  BY <1>2, <1>3

\* For any drafts and any number of bids.
THEOREM RankingsFollowTheRole == SubTaskSpec => []RankingFollowsTheRole
<1>1. SubTaskInit => RoleOnRecord /\ RankingFollowsTheRole
  BY DEF SubTaskInit, Init, None, RoleOnRecord, RankingFollowsTheRole
<1>2. SubTaskSpec => []TypeOK
  BY SubTasksAreRanked, RankingTypeCorrect, PTL
<1>3. TypeOK /\ RoleOnRecord /\ RankingFollowsTheRole /\ [SubTaskNext]_<<vars, role>> =>
        RoleOnRecord' /\ RankingFollowsTheRole'
  BY NextRoleOnRecord, NextFollowsTheRole
<1>4. QED
  BY <1>1, <1>2, <1>3, PTL DEF SubTaskSpec

============================================================================
