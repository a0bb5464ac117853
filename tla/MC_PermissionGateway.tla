----------------------- MODULE MC_PermissionGateway -----------------------
(***************************************************************************)
(* An instance of PermissionGateway: one task with two active contracts of *)
(* one agent, and a contract that another agent can get, checks through    *)
(* either entrance, scopes of up to three levels.                          *)
(***************************************************************************)
EXTENDS PermissionGateway, TLC

CONSTANTS c1, c2, c3, t1, a1, a2

OneTask == [c \in Contracts |-> t1]
TwoAgents == c1 :> a1 @@ [c \in Contracts |-> a2]

\* Neither the contract operations nor the checks ask whether an agent is
\* active: both are not.
Tripped == [a \in Agents |-> 10]

ReadDb == <<"api", "read", "db">>
WriteDb == <<"api", "write", "db">>
Api == <<"api">>
AnyRead == <<"api", "read", "*">>
Everything == <<"*">>

ScopeTree == {ReadDb, WriteDb, Api, AnyRead, Everything}

\* One contract of the second agent grants reading, the others writing.
Granted == [c \in Contracts |-> IF c = c2 THEN {ReadDb} ELSE {WriteDb}]

\* The time of two runs out before the clock stops, the third one's never.
OneForever == [c \in Contracts |-> IF c = c3 THEN 0 ELSE 1]

\* A token for reading, which runs out while the grants do not.
OneToken ==
  {[agent |-> a2, task |-> t1, scopes |-> {AnyRead}, issued |-> 0, expires |-> 1, signed |-> TRUE]}

Asked == {ReadDb, WriteDb}

RequestSymmetry == Permutations(Requests)

============================================================================
