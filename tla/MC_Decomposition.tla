-------------------------- MODULE MC_Decomposition --------------------------
(***************************************************************************)
(* Instances of Decomposition: a job or two and a few finalize requests.   *)
(***************************************************************************)
EXTENDS Decomposition, TLC

Symmetry == Permutations(Requests) \union Permutations(Jobs)

============================================================================
