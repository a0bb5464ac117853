------------------------- MODULE ContractLifecycle -------------------------
(***************************************************************************)
(* What backend/src/services/contract.service.ts promises in its header:   *)
(*                                                                         *)
(*   PROPOSED -> ACCEPTED -> ACTIVE -> COMPLETED / BREACHED / TERMINATED   *)
(*                                                                         *)
(* together with the transition of terminateContract (an ACCEPTED contract *)
(* can be terminated too).  A contract moves along these edges one at a    *)
(* time and never leaves an ended state.  The detailed specification is    *)
(* ContractService, whose status column is the refinement mapping.         *)
(***************************************************************************)

CONSTANTS Contracts,   \* the contract rows that can ever exist
          Opened       \* the contracts that are ACTIVE when we start to look

VARIABLE status

Ended == {"COMPLETED", "BREACHED", "TERMINATED"}

Edge == { <<"ABSENT", "PROPOSED">>, <<"PROPOSED", "ACCEPTED">>,
          <<"ACCEPTED", "ACTIVE">>, <<"ACCEPTED", "TERMINATED">> }
        \union ({"ACTIVE"} \X Ended)

Init == status = [c \in Contracts |-> IF c \in Opened THEN "ACTIVE" ELSE "ABSENT"]

Move(c) == \E s \in {e[2] : e \in Edge} :
  /\ <<status[c], s>> \in Edge
  /\ status' = [status EXCEPT ![c] = s]

Next == \E c \in Contracts : Move(c)

Spec == Init /\ [][Next]_status

============================================================================
