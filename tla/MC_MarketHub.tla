--------------------------- MODULE MC_MarketHub ---------------------------
(***************************************************************************)
(* An instance of MarketHub: a task that is for sale to two bidders, and   *)
(* next to it a task whose contract is already active and can trip the     *)
(* circuit breaker of its delegatee, and for which the adapter still takes *)
(* a bid, so that a second contract can be made for it.                    *)
(***************************************************************************)
EXTENDS MarketHub, TLC

CONSTANTS c1, c2, c3, t1, t2, a1, a2, b1, b2, b3, b4

\* The contract on t1 is a1's, and a2 bids for t1 and can win it, too; a1
\* and a2 bid for t2, on either path, and a1 can win it.
PairTask == [b \in Bids |-> IF b \in {b1, b3} THEN t1 ELSE t2]
PairAgent == [b \in Bids |-> IF b \in {b1, b2} THEN a1 ELSE a2]
PairBidOf == c1 :> b1 @@ c2 :> b2 @@ c3 :> b3
PairTaskOf == c2 :> t2 @@ [c \in Contracts |-> t1]
PairAgentOf == c3 :> a2 @@ [c \in Contracts |-> a1]

Mixed == [b \in Bids |-> IF b \in {b1, b4} THEN "market" ELSE "openclaw"]
LowScore == [a \in Agents |-> 24]

Symmetry == Permutations(Requests)

============================================================================
