--------------------------- MODULE SubTaskMarket ---------------------------
(***************************************************************************)
(* What finalizeDecomposition (services/decomposition.service.ts) promises *)
(* about a sub-task, and what the market hub makes of the row it persists. *)
(*                                                                         *)
(* The TaskSpecification that is returned names the role of the delegatee, *)
(* with a reputation and credentials; the Task row that is inserted has    *)
(* the criticality of the draft and neither credential domains nor budget  *)
(* nor deadline.  The filters of BidRanking read the row only.             *)
(***************************************************************************)
EXTENDS BidRanking

CONSTANTS
  Drafts,           \* the sub-tasks a decomposition can produce
  NoSpecification   \* of a task that does not come from a decomposition

\* SubTaskDraft; every draft has the criticality of its job.
Draft == [criticality: {"LOW", "MEDIUM", "HIGH"}, requiredCapabilities: SUBSET Domains]

\* The delegatee in TaskSpecification.roles, reputation in hundredths.
Delegatee(draft) ==
  [minReputationScore |-> IF draft.criticality = "HIGH" THEN 80 ELSE 50,
   requiredCredentialDomains |-> draft.requiredCapabilities]

\* Mutant: the column keeps its default, MEDIUM.
MutantDefaultRow(draft) ==
  [criticality |-> "MEDIUM", required |-> {}, budget |-> NoBudget, timed |-> FALSE]

\* The row of prisma.task.create, as far as the filters read it.
Persisted(draft) ==
  [criticality |-> draft.criticality, required |-> {}, budget |-> NoBudget, timed |-> FALSE]

ASSUME SubTaskAssumption ==
  /\ Drafts \subseteq Draft
  /\ {Persisted(d) : d \in Drafts} \subseteq Published
  /\ \A d \in Drafts : Delegatee(d) # NoSpecification

VARIABLE role   \* of the delegatee, in the specification of the task

\* Drafts that differ in their capabilities become the same row.
RolesOf(row) == {Delegatee(d) : d \in {e \in Drafts : Persisted(e) = row}} \union {NoSpecification}

SubTaskInit == Init /\ role \in RolesOf(task)

SubTaskNext == Next /\ UNCHANGED role

SubTaskSpec == SubTaskInit /\ [][SubTaskNext]_<<vars, role>>

----------------------------------------------------------------------------
(* Properties                                                              *)

\* An offer of an agent that fills the role.
Fills(o) ==
  /\ o.active
  /\ o.reputation >= role.minReputationScore
  /\ role.requiredCredentialDomains \subseteq o.held

(* "The specification that the Market Hub will use to solicit bids": the   *)
(* row has lost the role, but the filters' own thresholds stand in for it. *)
(* Whoever fills the role is ranked, and on a MEDIUM or HIGH sub-task      *)
(* nobody is who has not the reputation it asks for.  (A LOW one is open   *)
(* from 0.2 where the role says 0.5, and no credentials are asked for.)    *)
RankingFollowsTheRole == role # NoSpecification =>
  \A b \in DOMAIN evaluation.bids :
    /\ Fills(evaluation.bids[b]) => b \in Ranked
    /\ b \in Ranked /\ task.criticality # "LOW" =>
         evaluation.bids[b].reputation >= role.minReputationScore

============================================================================
