-------------------------- MODULE MC_AgentRegistry --------------------------
(***************************************************************************)
(* An instance of AgentRegistry: an agent with an active contract and a    *)
(* score near the breaker's threshold, registered twice at the same time,  *)
(* once together with a newcomer that has two skills of one domain.        *)
(***************************************************************************)
EXTENDS AgentRegistry, TLC

CONSTANTS c1, t1, a1, a2, g1, g2, g3, s1, s2, s3, d1, d2

OneTask == [c \in Contracts |-> t1]
OneAgent == [c \in Contracts |-> a1]
LowScore == [a \in Agents |-> 24]

\* "File Search!" and "file search" are two skills of one domain.
SharedDomain == s1 :> d1 @@ s2 :> d2 @@ s3 :> d2

Veteran(active) == [agent |-> a1, active |-> active, skills |-> <<s1, s2>>]
Newcomer == [agent |-> a2, active |-> TRUE, skills |-> <<s2, s3>>]
Batches == g1 :> <<Veteran(TRUE), Newcomer>> @@ g2 :> <<Newcomer, Veteran(TRUE)>>
             @@ g3 :> <<Veteran(FALSE)>>

\* The default and, for one request, a configured one below the threshold.
Scores == g1 :> 50 @@ g2 :> 10 @@ g3 :> 50

============================================================================
