------------------------ MODULE MC_ContractService ------------------------
(***************************************************************************)
(* Instances of ContractService: one or two contracts of one agent and     *)
(* task.                                                                   *)
(***************************************************************************)
EXTENDS ContractService

CONSTANTS c1, c2, t1, a1

OneTask == [c \in Contracts |-> t1]
OneAgent == [c \in Contracts |-> a1]

\* baseReputationScore's default, and one a CRITICAL penalty takes below
\* the circuit breaker's threshold while a LOW one does not.
DefaultScore == [a \in Agents |-> 50]
LowScore == [a \in Agents |-> 24]

============================================================================
