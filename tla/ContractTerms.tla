--------------------------- MODULE ContractTerms ---------------------------
(***************************************************************************)
(* The signature of a contract's terms: acceptBidAndCreateContract hashes  *)
(* a record of them (market-hub.service.ts), verifyContractIntegrity       *)
(* builds the record again from the database and compares the hashes       *)
(* (contract.service.ts, GET /contracts/:id/verify).                       *)
(*                                                                         *)
(* A hash is modelled by the record it is made of: SHA-256 tells any two   *)
(* JSON texts apart.  The fields that both sides copy from the same place  *)
(* are one: those of the bid row (task, agent, cost, duration, bond) and   *)
(* those of the selection (verification, monitoring, permissions).  No     *)
(* operation of the contract service writes any of them later.             *)
(***************************************************************************)
EXTENDS Naturals

CONSTANTS
  Contracts, Bids, Selections,
  NoDelegator,    \* task.delegatorId may be null
  DelegatorOf,    \* the delegator of the task every bid is for
  DelegateeOf,    \* bid.agentId
  MaxTime         \* bound

VARIABLES
  now,        \* new Date(), in whole milliseconds
  row,        \* SmartContract rows, absent ones as NoRow
  answers     \* what has been verified, and the answer

termsVars == <<now, row, answers>>

NoRow == [status |-> "ABSENT"]
Created == {c \in Contracts : row[c] # NoRow}

\* The terms as they are signed, and as they are rebuilt.
SignedTerms(bid, selection) ==
  [bid |-> bid, delegator |-> DelegatorOf[bid], selection |-> selection, timestamp |-> now]
RebuiltTerms(c) ==
  [bid |-> row[c].bid, delegator |-> row[c].delegator, selection |-> row[c].selection]

\* The row's delegator: task.delegatorId ?? bid.agentId.
RowDelegator(bid) ==
  IF DelegatorOf[bid] = NoDelegator THEN DelegateeOf[bid] ELSE DelegatorOf[bid]

Select(c, bid, selection) ==
  /\ c \notin Created
  /\ row' = [row EXCEPT ![c] =
       [status |-> "PROPOSED", bid |-> bid, delegator |-> RowDelegator(bid),
        selection |-> selection, hash |-> SignedTerms(bid, selection)]]
  /\ UNCHANGED <<now, answers>>

Verify(c) ==
  /\ c \in Created
  /\ answers' = answers \union {[contract |-> c, valid |-> row[c].hash = RebuiltTerms(c)]}
  /\ UNCHANGED <<now, row>>

Tick == now < MaxTime /\ now' = now + 1 /\ UNCHANGED <<row, answers>>

Init == now = 0 /\ row = [c \in Contracts |-> NoRow] /\ answers = {}

Next ==
  \/ Tick
  \/ \E c \in Contracts, bid \in Bids, selection \in Selections : Select(c, bid, selection)
  \/ \E c \in Contracts : Verify(c)

Spec == Init /\ [][Next]_termsVars

(* "A SHA-256 hash of the terms is stored as contractTermsHash for         *)
(* immutable integrity verification": a contract whose terms nobody has    *)
(* touched verifies, and is not answered with "Contract terms have been    *)
(* tampered with".                                                         *)
UntouchedVerifies == \A answer \in answers : answer.valid

============================================================================
