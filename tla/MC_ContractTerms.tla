-------------------------- MODULE MC_ContractTerms --------------------------
(***************************************************************************)
(* An instance of ContractTerms: a bid for a task that has a delegator and *)
(* one for a task that has none.                                           *)
(***************************************************************************)
EXTENDS ContractTerms, TLC

CONSTANTS b1, b2, o1, a1

SomeDelegators == b1 :> o1 @@ b2 :> NoDelegator
OneDelegatee == [b \in Bids |-> a1]

============================================================================
