---------------------------- MODULE MC_Delegator ----------------------------
(***************************************************************************)
(* Instances of Delegator: a call on a task that cannot be split and one   *)
(* on a task that may be, which executes the leaf of the first again.      *)
(***************************************************************************)
EXTENDS Delegator, TLC

CONSTANTS d1, d2, t1, t2, s1, c1, c2, c3

Roots == d1 :> t1 @@ d2 :> t2
Parts == [t \in Tasks |-> IF t = t2 THEN {s1} ELSE {}]
ForTask == [c \in Contracts |-> IF c = c3 THEN t2 ELSE t1]

=============================================================================
