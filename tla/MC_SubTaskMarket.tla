------------------------- MODULE MC_SubTaskMarket -------------------------
(***************************************************************************)
(* An instance of SubTaskMarket, and with it of BidRanking: up to three    *)
(* bids at the thresholds of the filters, for a task with a budget and     *)
(* required credentials while its deadline passes, or for a sub-task.      *)
(***************************************************************************)
EXTENDS SubTaskMarket, TLC

CONSTANTS b1, b2, b3

\* Before the deadline, at it and after it.
AroundDeadline == {-1, 0, 1}

Demanding == [criticality |-> "HIGH", required |-> {"d"}, budget |-> 1, timed |-> TRUE]

SomeDrafts == [criticality: {"LOW", "MEDIUM", "HIGH"}, requiredCapabilities: {{"d"}}]
Tasks == {Demanding} \union {Persisted(d) : d \in SomeDrafts}

Symmetry == Permutations(Bids)

============================================================================
