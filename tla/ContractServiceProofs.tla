----------------------- MODULE ContractServiceProofs -----------------------
(***************************************************************************)
(* Proofs about ContractService, for any number of requests, contracts,    *)
(* tasks and agents.                                                       *)
(***************************************************************************)
EXTENDS ContractService, FiniteSetTheorems, WellFoundedInduction, TLAPS

----------------------------------------------------------------------------
(* The handlers' statements.                                               *)

\* What the rest of the module needs to know of the handler table: each
\* statement is followed by another one of the same handler or by the
\* answer, and which handlers reach which statement.
LEMMA HandlerTable ==
  ASSUME NEW op \in Operation
  PROVE  /\ Handler[op].to \in ContractStatus
         /\ "status" \in DOMAIN Handler[op].next
         /\ DOMAIN Handler[op].next \subseteq Statement
         /\ \A s \in DOMAIN Handler[op].next :
              Handler[op].next[s] \in (DOMAIN Handler[op].next \ {"status"}) \union {"done"}
         /\ "task" \in DOMAIN Handler[op].next => Handler[op].task \in TaskStatus
         /\ "ledger" \in DOMAIN Handler[op].next => Handler[op].outcome \in Outcome
         /\ "penalty" \in DOMAIN Handler[op].next => op = "breach"
         /\ "writeAgent" \in DOMAIN Handler[op].next => op = "breach"
  BY DEF Operation, Handler, acceptBidAndCreateContract, acceptContract, activateContract,
         completeContract, reportBreach, terminateContract, ContractStatus, EndedStatus,
         Statement, TaskStatus, Outcome

\* A request in flight is at a statement of its handler and the statement
\* it awaits next is one too.
LEMMA AwaitType ==
  ASSUME TypeOK, NEW r \in InFlight, Await(r), call' = call
  PROVE  /\ pc' \in [Requests -> Statement \union {"new", "done", "refused", "failed"}]
         /\ \A q \in Admitted' : call'[q] \in Call
         /\ \A q \in InFlight' : pc'[q] \in DOMAIN HandlerOf(q)'.next
         /\ r \in Requests /\ call[r] \in Call /\ pc[r] \in DOMAIN HandlerOf(r).next
         /\ call[r].op \in Operation /\ ContractOf(r) \in Contracts
<1>1. r \in Requests /\ pc[r] \in Statement /\ r \in Admitted
  BY DEF InFlight, Admitted, Statement
<1>2. call[r] \in Call /\ pc[r] \in DOMAIN HandlerOf(r).next
  BY <1>1 DEF TypeOK
<1>3. HandlerOf(r).next[pc[r]] \in (DOMAIN HandlerOf(r).next) \union {"done"}
  BY <1>2, HandlerTable DEF HandlerOf, Call, Operation
<1>4. DOMAIN HandlerOf(r).next \subseteq Statement
  BY <1>2, HandlerTable DEF HandlerOf, Call, Operation
<1>5. pc' \in [Requests -> Statement \union {"new", "done", "refused", "failed"}]
  BY <1>1, <1>3, <1>4 DEF TypeOK, Await
<1>6. \A q \in Admitted' : call'[q] \in Call
  BY <1>1 DEF TypeOK, Admitted, Await
<1>7. \A q \in InFlight' : pc'[q] \in DOMAIN HandlerOf(q)'.next
  BY <1>1, <1>3 DEF TypeOK, InFlight, Await, HandlerOf, Statement
<1>8. QED
  BY <1>1, <1>2, <1>5, <1>6, <1>7 DEF Call, Operation, ContractOf

LEMMA InitTypeOK == Init => TypeOK
<1> SUFFICES ASSUME Init PROVE TypeOK
  OBVIOUS
<1> USE ConstantsAssumption
<1>1. contract \in [Contracts -> ContractRow]
  BY DEF Init, ContractRow, ContractStatus
<1>2. task \in [Tasks -> TaskRow]
  BY DEF Init, TaskRow, TaskStatus
<1>3. agent \in [Agents -> AgentRow]
  BY DEF Init, AgentRow
<1>4. seen \in [Requests -> AgentRow]
  BY DEF Init, AgentRow, NoRow
<1>5. live \subseteq Permitted /\ ledger = {} /\ penalties = {}
  BY DEF Init
<1>6. call \in [Requests -> Call \union {NoCall}]
  BY DEF Init
<1>7. /\ pc \in [Requests -> Statement \union {"new", "done", "refused", "failed"}]
      /\ Admitted = {} /\ InFlight = {}
  BY DEF Init, Admitted, InFlight, Statement
<1>8. charged \in [Agents -> Nat]
  BY DEF Init
<1>9. QED
  BY <1>1, <1>2, <1>3, <1>4, <1>5, <1>6, <1>7, <1>8 DEF TypeOK

LEMMA ImpactNat == \A s : ReputationImpact(s) \in 1..20
  BY DEF ReputationImpact

LEMMA NewScoreRange ==
  ASSUME NEW score \in 0..100, NEW impact \in 1..20
  PROVE  /\ NewScore(score, impact) \in 0..100
         /\ NewScore(score, impact) <= score
         /\ NewScore(score, impact) >= score - impact
  BY DEF NewScore

LEMMA NextTypeOK == TypeOK /\ [Next]_vars => TypeOK'
<1> SUFFICES ASSUME TypeOK, [Next]_vars PROVE TypeOK'
  OBVIOUS
<1> USE ConstantsAssumption
<1>1. ASSUME NEW r \in Requests, NEW op \in Operation, NEW c \in Contracts,
             NEW severity \in Severable(op), Begin(r, op, c, severity)
      PROVE  TypeOK'
  <2>1. [op |-> op, contract |-> c, severity |-> severity] \in Call
    BY DEF Call, Severable
  <2>2. /\ call' \in [Requests -> Call \union {NoCall}]
        /\ pc' \in [Requests -> Statement \union {"new", "done", "refused", "failed"}]
    BY <1>1, <2>1 DEF Begin, TypeOK, Statement
  <2>3. \A q \in Admitted' : call'[q] \in Call
    BY <1>1, <2>1 DEF Begin, TypeOK, Admitted, At
  <2>4. \A q \in InFlight' : pc'[q] \in DOMAIN HandlerOf(q)'.next
    BY <1>1, HandlerTable DEF Begin, TypeOK, InFlight, HandlerOf, Statement
  <2>5. QED
    BY <1>1, <2>2, <2>3, <2>4 DEF Begin, TypeOK, db
<1>2. ASSUME NEW r \in Requests, WriteStatus(r)
      PROVE  TypeOK'
  <2>1. r \in InFlight /\ Await(r) /\ call' = call
    BY <1>2 DEF WriteStatus, At, InFlight, Statement
  <2>2. HandlerOf(r).to \in ContractStatus /\ ContractOf(r) \in Contracts
    BY <2>1, AwaitType, HandlerTable DEF HandlerOf
  <2>3. contract' \in [Contracts -> ContractRow]
    BY <1>2, <2>2 DEF WriteStatus, TypeOK, ContractRow
  <2>4. QED
    BY <1>2, <2>1, <2>3, AwaitType DEF WriteStatus, TypeOK
<1>3. ASSUME NEW r \in Requests, WriteTask(r)
      PROVE  TypeOK'
  <2>1. r \in InFlight /\ Await(r) /\ call' = call
    BY <1>3 DEF WriteTask, At, InFlight, Statement
  <2>2. HandlerOf(r).task \in TaskStatus /\ ContractOf(r) \in Contracts
    BY <1>3, <2>1, AwaitType, HandlerTable DEF HandlerOf, WriteTask, At
  <2>3. task' \in [Tasks -> TaskRow]
    BY <1>3, <2>2 DEF WriteTask, TypeOK, TaskRow, DelegateeOf
  <2>4. QED
    BY <1>3, <2>1, <2>3, AwaitType DEF WriteTask, TypeOK
<1>4. ASSUME NEW r \in Requests, Grant(r)
      PROVE  TypeOK'
  <2>1. r \in InFlight /\ Await(r) /\ call' = call
    BY <1>4 DEF Grant, At, InFlight, Statement
  <2>2. QED
    BY <1>4, <2>1, AwaitType DEF Grant, TypeOK
<1>5. ASSUME NEW r \in Requests, RecordPenalty(r)
      PROVE  TypeOK'
  <2>1. r \in InFlight /\ Await(r) /\ call' = call
    BY <1>5 DEF RecordPenalty, At, InFlight, Statement
  <2>2. call[r] \in Call /\ call[r].op = "breach"
    BY <1>5, <2>1, AwaitType, HandlerTable DEF HandlerOf, RecordPenalty, At
  <2>3. ContractOf(r) \in Contracts /\ call[r].severity \in Severities
    BY <2>2 DEF Call, ContractOf
  <2>4. QED
    BY <1>5, <2>1, <2>3, AwaitType DEF RecordPenalty, TypeOK
<1>6. ASSUME NEW r \in Requests, RecordLedger(r)
      PROVE  TypeOK'
  <2>1. r \in InFlight /\ Await(r) /\ call' = call
    BY <1>6 DEF RecordLedger, At, InFlight, Statement
  <2>2. HandlerOf(r).outcome \in Outcome /\ ContractOf(r) \in Contracts
    BY <1>6, <2>1, AwaitType, HandlerTable DEF HandlerOf, RecordLedger, At
  <2>3. QED
    BY <1>6, <2>1, <2>2, AwaitType DEF RecordLedger, TypeOK
<1>7. ASSUME NEW r \in Requests, ReadAgent(r)
      PROVE  TypeOK'
  <2>1. r \in InFlight /\ Await(r) /\ call' = call
    BY <1>7 DEF ReadAgent, At, InFlight, Statement
  <2>2. DelegateeOf(r) \in Agents
    BY <2>1, AwaitType DEF DelegateeOf
  <2>3. seen' \in [Requests -> AgentRow]
    BY <1>7, <2>2 DEF ReadAgent, TypeOK
  <2>4. QED
    BY <1>7, <2>1, <2>3, AwaitType DEF ReadAgent, TypeOK, db
<1>8. ASSUME NEW r \in Requests, WriteAgent(r)
      PROVE  TypeOK'
  <2>1. r \in InFlight /\ Await(r) /\ call' = call
    BY <1>8 DEF WriteAgent, At, InFlight, Statement
  <2>2. DelegateeOf(r) \in Agents
    BY <2>1, AwaitType DEF DelegateeOf
  <2> DEFINE impact == ReputationImpact(call[r].severity)
             newScore == NewScore(seen[r].score, impact)
  <2>3. seen[r].score \in 0..100 /\ seen[r].active \in BOOLEAN /\ impact \in 1..20
    BY ImpactNat DEF TypeOK, AgentRow
  <2>4. newScore \in 0..100
    BY <2>3, NewScoreRange
  <2> HIDE DEF newScore
  <2>5. PICK deactivate \in BOOLEAN :
          agent' = [agent EXCEPT ![DelegateeOf(r)] =
            [score |-> newScore, active |-> ~deactivate /\ seen[r].active]]
    BY <1>8 DEF WriteAgent, newScore
  <2>6. agent' \in [Agents -> AgentRow]
    BY <2>3, <2>4, <2>5 DEF TypeOK, AgentRow
  <2>7. seen' \in [Requests -> AgentRow]
    BY <1>8 DEF WriteAgent, TypeOK, AgentRow, NoRow
  <2>8. charged' \in [Agents -> Nat]
    BY <1>8, <2>2, <2>3 DEF WriteAgent, TypeOK
  <2>9. QED
    BY <1>8, <2>1, <2>6, <2>7, <2>8, AwaitType DEF WriteAgent, TypeOK
<1>9. ASSUME NEW r \in Requests, Revoke(r)
      PROVE  TypeOK'
  <2>1. r \in InFlight /\ Await(r) /\ call' = call
    BY <1>9 DEF Revoke, At, InFlight, Statement
  <2>2. QED
    BY <1>9, <2>1, AwaitType DEF Revoke, TypeOK
<1>10. ASSUME NEW r \in Requests, Fail(r)
       PROVE  TypeOK'
  <2>1. seen' \in [Requests -> AgentRow]
    BY <1>10 DEF Fail, TypeOK, AgentRow, NoRow
  <2>2. QED
    BY <1>10, <2>1 DEF Fail, TypeOK, db, Admitted, InFlight, Statement, HandlerOf
<1>11. CASE UNCHANGED vars
  BY <1>11 DEF TypeOK, vars, Admitted, InFlight, HandlerOf
<1>12. QED
  BY <1>1, <1>2, <1>3, <1>4, <1>5, <1>6, <1>7, <1>8, <1>9, <1>10, <1>11 DEF Next, Step

\* Every variable keeps its type, and a request in flight is always at a
\* statement of its own handler.
THEOREM TypeCorrect == Spec => []TypeOK
<1>1. QED
  BY InitTypeOK, NextTypeOK, PTL DEF Spec

----------------------------------------------------------------------------
(* The inductive invariant.  The properties are not inductive by           *)
(* themselves: what a request writes is justified by what it has read and  *)
(* written before, which Progress states of every request in flight, and   *)
(* nothing another request does can take it back.                          *)

Ending == {"complete", "breach", "terminate"}

Penalised(r) == \E p \in penalties : p.request = r /\ p.contract = ContractOf(r)

Progress == \A r \in InFlight :
  /\ call[r].op \in {"complete", "breach"} => contract[ContractOf(r)].activated
  /\ call[r].op = "activate" /\ ~At(r, "status") => contract[ContractOf(r)].activated
  /\ call[r].op \in Ending /\ ~At(r, "status") => contract[ContractOf(r)].completed
  /\ call[r].op = "breach" /\ pc[r] \notin {"status", "task", "penalty"} => Penalised(r)

ActiveWasActivated == \A c \in Contracts : contract[c].status = "ACTIVE" => contract[c].activated

RecordsInv == /\ ActiveWasActivated /\ Progress
              /\ LedgerTrail /\ FailureIsPenalised /\ GrantsFollowActivation

\* Which handler writes what, in which order.
LEMMA HandlerOrder ==
  ASSUME NEW op \in Operation
  PROVE  /\ Handler[op].to = "ACTIVE" <=> op = "activate"
         /\ op \in Ending => Handler[op].to \in EndedStatus
         /\ op \in {"complete", "breach"} => Handler[op].from = {"ACTIVE"}
         /\ "grant" \in DOMAIN Handler[op].next => op = "activate"
         /\ "ledger" \in DOMAIN Handler[op].next => op \in Ending
         /\ op \in Ending /\ Handler[op].outcome # "PARTIAL" => op \in {"complete", "breach"}
         /\ op \in Ending /\ Handler[op].outcome = "FAILURE" => op = "breach"
         /\ op = "breach" => /\ Handler[op].next["status"] = "task"
                             /\ Handler[op].next["task"] = "penalty"
         /\ \A s \in DOMAIN Handler[op].next :
              Handler[op].next[s] = "writeAgent" => s = "readAgent"
  BY DEF Operation, Handler, acceptBidAndCreateContract, acceptContract, activateContract,
         completeContract, reportBreach, terminateContract, EndedStatus, Ending

RequestStep(r) ==
  \/ \E op \in Operation, c \in Contracts : \E severity \in Severable(op) :
       Begin(r, op, c, severity)
  \/ Step(r)
  \/ Fail(r)

\* A step of one request leaves the others where they are; rows are only
\* ever added to the ledger and the penalties, and a contract's timestamps
\* are never cleared.
LEMMA Frame ==
  ASSUME TypeOK, NEW r \in Requests, RequestStep(r)
  PROVE  /\ \A q \in Requests \ {r} : pc'[q] = pc[q] /\ call'[q] = call[q] /\ seen'[q] = seen[q]
         /\ r \in InFlight => call'[r] = call[r]
         /\ \A c \in Contracts : /\ contract[c].activated => contract'[c].activated
                                 /\ contract[c].completed => contract'[c].completed
         /\ penalties \subseteq penalties' /\ ledger \subseteq ledger'
<1>1. ASSUME NEW op \in Operation, NEW c \in Contracts, NEW severity \in Severable(op),
             Begin(r, op, c, severity)
      PROVE  /\ r \notin InFlight /\ db' = db /\ seen' = seen
             /\ \A q \in Requests \ {r} : pc'[q] = pc[q] /\ call'[q] = call[q]
  BY <1>1 DEF Begin, TypeOK, db, At, InFlight, Statement
<1>2. ASSUME Step(r) \/ Fail(r)
      PROVE  /\ call' = call
             /\ \A q \in Requests \ {r} : pc'[q] = pc[q] /\ seen'[q] = seen[q]
             /\ penalties \subseteq penalties' /\ ledger \subseteq ledger'
  BY <1>2 DEF Step, Fail, WriteStatus, WriteTask, Grant, RecordPenalty, RecordLedger,
              ReadAgent, WriteAgent, Revoke, TypeOK, Await, db
<1>3. ASSUME WriteStatus(r), NEW c \in Contracts
      PROVE  /\ contract[c].activated => contract'[c].activated
             /\ contract[c].completed => contract'[c].completed
  BY <1>3 DEF WriteStatus, TypeOK, ContractRow
<1>4. (Step(r) \/ Fail(r)) /\ ~WriteStatus(r) => contract' = contract
  BY DEF Step, Fail, WriteTask, Grant, RecordPenalty, RecordLedger,
         ReadAgent, WriteAgent, Revoke, db
<1>5. QED
  BY <1>1, <1>2, <1>3, <1>4 DEF RequestStep, db

LEMMA ProgressStep ==
  ASSUME TypeOK, ActiveWasActivated, Progress, NEW r \in Requests, RequestStep(r)
  PROVE  Progress'
<1> SUFFICES ASSUME NEW q \in InFlight'
             PROVE  /\ call'[q].op \in {"complete", "breach"} => contract'[ContractOf(q)'].activated
                    /\ call'[q].op = "activate" /\ ~At(q, "status")' => contract'[ContractOf(q)'].activated
                    /\ call'[q].op \in Ending /\ ~At(q, "status")' => contract'[ContractOf(q)'].completed
                    /\ call'[q].op = "breach" /\ pc'[q] \notin {"status", "task", "penalty"} => Penalised(q)'
  BY DEF Progress
<1> q \in Requests
  BY DEF InFlight
<1>1. CASE q # r
  <2>1. q \in InFlight /\ pc'[q] = pc[q] /\ call'[q] = call[q] /\ ContractOf(q) \in Contracts
    BY <1>1, Frame DEF InFlight, TypeOK, Admitted, Statement, ContractOf, Call
  <2>2. QED
    BY <1>1, <2>1, Frame DEF Progress, At, ContractOf, Penalised
<1>2. ASSUME q = r, NEW op \in Operation, NEW c \in Contracts, NEW severity \in Severable(op),
             Begin(r, op, c, severity)
      PROVE  /\ call'[q].op \in {"complete", "breach"} => contract'[ContractOf(q)'].activated
             /\ pc'[q] = "status"
  <2>1. /\ pc'[r] = "status" /\ contract[c].status \in Handler[op].from
        /\ call'[r].op = op /\ ContractOf(r)' = c /\ contract' = contract
    BY <1>2 DEF Begin, TypeOK, db, InFlight, Statement, ContractOf
  <2>2. QED
    BY <1>2, <2>1, HandlerOrder DEF ActiveWasActivated
<1>3. ASSUME q = r, Fail(r)
      PROVE  FALSE
  BY <1>3 DEF Fail, InFlight, Statement, TypeOK
<1>4. ASSUME q = r, Step(r)
      PROVE  /\ r \in InFlight /\ Await(r) /\ call' = call /\ pc'[r] = HandlerOf(r).next[pc[r]]
             /\ call[r].op \in Operation /\ pc[r] \in DOMAIN HandlerOf(r).next
             /\ ContractOf(r)' = ContractOf(r) /\ ContractOf(r) \in Contracts
  <2>1. r \in InFlight /\ Await(r) /\ call' = call
    BY <1>4 DEF Step, WriteStatus, WriteTask, Grant, RecordPenalty, RecordLedger,
                ReadAgent, WriteAgent, Revoke, At, InFlight, Statement
  <2>2. QED
    BY <2>1, AwaitType DEF Await, TypeOK, ContractOf
<1>5. CASE q = r /\ WriteStatus(r)
  <2>1. /\ contract'[ContractOf(r)].activated = (contract[ContractOf(r)].activated \/ HandlerOf(r).to = "ACTIVE")
        /\ contract'[ContractOf(r)].completed = (contract[ContractOf(r)].completed \/ HandlerOf(r).to \in EndedStatus)
        /\ pc[r] = "status" /\ q = r /\ ContractOf(q)' = ContractOf(r)
    BY <1>4, <1>5 DEF WriteStatus, TypeOK, At, Step
  <2>2. /\ r \in InFlight /\ pc'[r] = HandlerOf(r).next["status"] /\ call' = call
        /\ call[r].op \in Operation
    BY <1>4, <1>5, <2>1 DEF Step
  <2>3. call[r].op = "activate" => contract'[ContractOf(r)].activated
    BY <2>1, <2>2, HandlerOrder DEF HandlerOf
  <2>4. call[r].op \in Ending => contract'[ContractOf(r)].completed
    BY <2>1, <2>2, HandlerOrder DEF HandlerOf
  <2>5. call[r].op = "breach" => pc'[r] = "task"
    BY <2>1, <2>2, HandlerOrder DEF HandlerOf
  <2>6. QED
    BY <2>1, <2>2, <2>3, <2>4, <2>5 DEF Progress
<1>6. CASE q = r /\ RecordPenalty(r)
  <2>1. /\ r \in InFlight /\ call' = call /\ ContractOf(r)' = ContractOf(r)
    BY <1>4, <1>6 DEF Step
  <2> DEFINE p == [request |-> r, contract |-> ContractOf(r), severity |-> call[r].severity]
  <2>2. p \in penalties' /\ contract' = contract /\ pc[r] # "status"
    BY <1>6 DEF RecordPenalty, At
  <2>3. p.request = r /\ p.contract = ContractOf(r)
    OBVIOUS
  <2> HIDE DEF p
  <2>4. Penalised(r)'
    BY <2>1, <2>2, <2>3 DEF Penalised
  <2>5. QED
    BY <1>6, <2>1, <2>2, <2>4 DEF Progress, At
<1>7. CASE q = r /\ Step(r) /\ ~WriteStatus(r) /\ ~RecordPenalty(r)
  <2>1. contract' = contract /\ penalties' = penalties /\ pc[r] \notin {"status", "penalty"}
    BY <1>7 DEF Step, WriteTask, Grant, RecordLedger, ReadAgent, WriteAgent, Revoke, At, db
  <2>2. call[r].op = "breach" /\ pc'[r] # "penalty" => Penalised(r)
    BY <1>4, <1>7, <2>1, HandlerOrder DEF Progress, HandlerOf
  <2>3. QED
    BY <1>4, <1>7, <2>1, <2>2 DEF Progress, Penalised, At
<1>8. QED
  BY <1>1, <1>2, <1>3, <1>5, <1>6, <1>7 DEF RequestStep, Step, At

LEMMA InitRecordsInv == Init => RecordsInv
<1> SUFFICES ASSUME Init PROVE RecordsInv
  OBVIOUS
<1>1. InFlight = {} /\ ledger = {} /\ penalties = {} /\ live \subseteq Opened
  BY DEF Init, InFlight, Statement
<1>2. \A c \in Contracts : /\ contract[c].activated = (c \in Opened)
                           /\ contract[c].status = "ACTIVE" => c \in Opened
  BY DEF Init
<1>3. QED
  BY <1>1, <1>2, ConstantsAssumption
     DEF RecordsInv, ActiveWasActivated, Progress, LedgerTrail, FailureIsPenalised, GrantsFollowActivation

LEMMA StepRecordsInv ==
  ASSUME TypeOK, RecordsInv, NEW r \in Requests, RequestStep(r)
  PROVE  RecordsInv'
<1> USE DEF RecordsInv
<1>1. Progress'
  BY ProgressStep
<1>2. ActiveWasActivated'
  <2>1. CASE WriteStatus(r)
    BY <2>1 DEF WriteStatus, TypeOK, ContractRow, ActiveWasActivated
  <2>2. CASE ~WriteStatus(r)
    <3>1. contract' = contract
      BY <2>2 DEF RequestStep, Step, Begin, Fail, WriteTask, Grant, RecordPenalty,
                  RecordLedger, ReadAgent, WriteAgent, Revoke, db
    <3>2. QED
      BY <3>1 DEF ActiveWasActivated
  <2>3. QED
    BY <2>1, <2>2
<1>3. LedgerTrail' /\ FailureIsPenalised'
  <2>1. CASE RecordLedger(r)
    <3> DEFINE row == [request |-> r, contract |-> ContractOf(r), outcome |-> HandlerOf(r).outcome]
    <3>1. r \in InFlight /\ Await(r) /\ call' = call /\ pc[r] = "ledger"
      BY <2>1 DEF RecordLedger, At, InFlight, Statement
    <3>2. /\ call[r].op \in Operation /\ ContractOf(r) \in Contracts
          /\ "ledger" \in DOMAIN HandlerOf(r).next
      BY <3>1, AwaitType
    <3>3. call[r].op \in Ending
      BY <3>2, HandlerOrder DEF HandlerOf
    <3>4. contract[ContractOf(r)].completed
      BY <3>1, <3>3 DEF Progress, At
    <3>5. HandlerOf(r).outcome # "PARTIAL" => contract[ContractOf(r)].activated
      BY <3>1, <3>2, <3>3, HandlerOrder DEF Progress, HandlerOf
    <3>6. HandlerOf(r).outcome = "FAILURE" => Penalised(r)
      BY <3>1, <3>2, <3>3, HandlerOrder DEF Progress, HandlerOf
    <3>7. ledger' = ledger \union {row} /\ contract' = contract /\ penalties' = penalties
      BY <2>1 DEF RecordLedger
    <3>8. /\ row.contract = ContractOf(r) /\ row.request = r
          /\ row.outcome = HandlerOf(r).outcome
      OBVIOUS
    <3> HIDE DEF row
    <3>9. QED
      BY <3>4, <3>5, <3>6, <3>7, <3>8 DEF LedgerTrail, FailureIsPenalised, Penalised
  <2>2. CASE ~RecordLedger(r)
    <3>1. ledger' = ledger
      BY <2>2 DEF RequestStep, Step, Begin, Fail, WriteStatus, WriteTask, Grant,
                  RecordPenalty, ReadAgent, WriteAgent, Revoke, db
    <3>2. \A l \in ledger : l.contract \in Contracts
      BY DEF TypeOK
    <3>3. QED
      BY <3>1, <3>2, Frame DEF LedgerTrail, FailureIsPenalised
  <2>3. QED
    BY <2>1, <2>2
<1>4. GrantsFollowActivation'
  <2>1. CASE Grant(r)
    <3>1. r \in InFlight /\ Await(r) /\ call' = call /\ pc[r] = "grant"
      BY <2>1 DEF Grant, At, InFlight, Statement
    <3>2. call[r].op = "activate"
      BY <3>1, AwaitType, HandlerOrder DEF HandlerOf
    <3>3. contract[ContractOf(r)].activated
      BY <3>1, <3>2 DEF Progress, At
    <3>4. QED
      BY <2>1, <3>3 DEF Grant, GrantsFollowActivation
  <2>2. CASE ~Grant(r)
    <3>1. live' \subseteq live
      BY <2>2 DEF RequestStep, Step, Begin, Fail, WriteStatus, WriteTask,
                  RecordPenalty, RecordLedger, ReadAgent, WriteAgent, Revoke, db
    <3>2. live \subseteq Contracts
      BY ConstantsAssumption DEF TypeOK
    <3>3. QED
      BY <3>1, <3>2, Frame DEF GrantsFollowActivation
  <2>3. QED
    BY <2>1, <2>2
<1>5. QED
  BY <1>1, <1>2, <1>3, <1>4

LEMMA NextRecordsInv == TypeOK /\ RecordsInv /\ [Next]_vars => RecordsInv'
<1> SUFFICES ASSUME TypeOK, RecordsInv, [Next]_vars PROVE RecordsInv'
  OBVIOUS
<1>1. CASE Next
  BY <1>1, StepRecordsInv DEF Next, RequestStep
<1>2. CASE UNCHANGED vars
  BY <1>2 DEF vars, RecordsInv, ActiveWasActivated, Progress, LedgerTrail, FailureIsPenalised,
              GrantsFollowActivation, InFlight, At, ContractOf, Penalised
<1>3. QED
  BY <1>1, <1>2

THEOREM RecordsInvariant == Spec => []RecordsInv
<1>1. QED
  BY InitRecordsInv, NextRecordsInv, TypeCorrect, PTL DEF Spec

\* However the requests interleave and wherever they fail, the ledger only
\* speaks of contracts that ended, and passes a verdict only on work that
\* had begun.
THEOREM LedgerIsTruthful == Spec => []LedgerTrail
<1>1. RecordsInv => LedgerTrail
  BY DEF RecordsInv
<1>2. QED
  BY <1>1, RecordsInvariant, PTL

\* Every FAILURE on the ledger has its penalty on record.
THEOREM FailuresArePenalised == Spec => []FailureIsPenalised
<1>1. RecordsInv => FailureIsPenalised
  BY DEF RecordsInv
<1>2. QED
  BY <1>1, RecordsInvariant, PTL

\* No permission is live for a contract that was never activated.
THEOREM GrantsAreJustInTime == Spec => []GrantsFollowActivation
<1>1. RecordsInv => GrantsFollowActivation
  BY DEF RecordsInv
<1>2. QED
  BY <1>1, RecordsInvariant, PTL

----------------------------------------------------------------------------
(* Reputation.  The score that a breach report has read may be stale by    *)
(* the time it is written back, but it was within the bounds when it was   *)
(* read and the bounds only widen.                                         *)

Within(score, a) == InitialScore[a] - charged[a] <= score /\ score <= InitialScore[a]

ReadWithinCharges == \A r \in InFlight :
  At(r, "writeAgent") => Within(seen[r].score, DelegateeOf(r))

ReputationInv == /\ ReadWithinCharges /\ ScoreWithinCharges
                 /\ BreakerConsistent /\ OnlyThePenalisedLose

LEMMA InitReputationInv == Init => ReputationInv
<1> SUFFICES ASSUME Init PROVE ReputationInv
  OBVIOUS
<1>1. InFlight = {} /\ charged = [a \in Agents |-> 0]
  BY DEF Init, InFlight, Statement
<1>2. PICK on \in SUBSET {a \in Agents : InitialScore[a] >= circuitBreakerThreshold} :
        agent = [a \in Agents |-> [score |-> InitialScore[a], active |-> a \in on]]
  BY DEF Init
<1>3. ASSUME NEW a \in Agents
      PROVE  /\ agent[a].score = InitialScore[a] /\ InitialScore[a] \in 0..100
             /\ InitialScore[a] < circuitBreakerThreshold => ~agent[a].active
  <2>1. agent[a] = [score |-> InitialScore[a], active |-> a \in on]
    BY <1>2
  <2>2. InitialScore[a] \in 0..100
    BY ConstantsAssumption
  <2>3. InitialScore[a] < circuitBreakerThreshold => a \notin on
    BY <1>2, <2>2 DEF circuitBreakerThreshold
  <2>4. agent[a].score = InitialScore[a] /\ agent[a].active = (a \in on)
    BY <2>1
  <2>5. QED
    BY <2>2, <2>3, <2>4, Zenon
<1>4. QED
  BY <1>1, <1>3 DEF ReputationInv, ReadWithinCharges, ScoreWithinCharges,
                    BreakerConsistent, OnlyThePenalisedLose

\* The bounds around a score widen as the charges grow.
LEMMA BoundsWiden ==
  \A initial, taken, more, score, lower \in Int :
    initial - taken <= score /\ lower >= score - more => initial - (taken + more) <= lower
  OBVIOUS

\* The one step that writes a score.
LEMMA WriteAgentReputation ==
  ASSUME TypeOK, RecordsInv, ReputationInv, NEW r \in Requests, WriteAgent(r)
  PROVE  ReputationInv'
<1> DEFINE a == DelegateeOf(r)
           impact == ReputationImpact(call[r].severity)
           newScore == NewScore(seen[r].score, impact)
<1>1. r \in InFlight /\ Await(r) /\ call' = call /\ pc[r] = "writeAgent"
  BY DEF WriteAgent, At, InFlight, Statement
<1>2. /\ ContractOf(r) \in Contracts /\ call[r].op = "breach" /\ a \in Agents
      /\ pc'[r] # "writeAgent"
  <2>1. /\ ContractOf(r) \in Contracts /\ call[r].op \in Operation
        /\ "writeAgent" \in DOMAIN HandlerOf(r).next
    BY <1>1, AwaitType
  <2>2. pc'[r] # "writeAgent"
    BY <1>1, <2>1, HandlerOrder DEF Await, TypeOK, HandlerOf
  <2>3. QED
    BY <2>1, <2>2, HandlerTable, ConstantsAssumption DEF HandlerOf, DelegateeOf
<1>3. Penalised(r)
  BY <1>1, <1>2 DEF RecordsInv, Progress
<1>4. /\ seen[r].score \in 0..100 /\ seen[r].active \in BOOLEAN /\ impact \in 1..20
      /\ InitialScore[a] \in 0..100 /\ Within(seen[r].score, a)
  BY <1>1, <1>2, ImpactNat, ConstantsAssumption
     DEF TypeOK, AgentRow, ReputationInv, ReadWithinCharges, At
<1>5. newScore \in 0..100 /\ newScore <= seen[r].score /\ newScore >= seen[r].score - impact
  BY <1>4, NewScoreRange
<1> HIDE DEF newScore
<1>6. PICK deactivate \in BOOLEAN :
        /\ ShouldDeactivate(newScore, deactivate)
        /\ agent' = [agent EXCEPT ![a] =
             [score |-> newScore, active |-> ~deactivate /\ seen[r].active]]
  BY DEF WriteAgent, newScore
<1>7. newScore < circuitBreakerThreshold => deactivate
  BY <1>6 DEF ShouldDeactivate
<1>8. /\ agent'[a].score = newScore
      /\ newScore < circuitBreakerThreshold => ~agent'[a].active
      /\ \A b \in Agents \ {a} : agent'[b] = agent[b]
  BY <1>2, <1>6, <1>7 DEF TypeOK
<1>9. /\ charged'[a] = charged[a] + impact
      /\ \A b \in Agents \ {a} : charged'[b] = charged[b]
      /\ \A b \in Agents : /\ charged[b] \in Nat /\ charged'[b] \in Nat
                           /\ charged'[b] >= charged[b]
  BY <1>2, <1>4 DEF WriteAgent, TypeOK
<1>10. InitialScore[a] - charged'[a] <= newScore /\ newScore <= InitialScore[a]
  <2>1. charged[a] \in Nat /\ impact \in Nat /\ charged'[a] = charged[a] + impact
    BY <1>2, <1>4, <1>9
  <2>2. InitialScore[a] - charged[a] <= seen[r].score /\ seen[r].score <= InitialScore[a]
    BY <1>4 DEF Within
  <2>3. /\ InitialScore[a] \in Int /\ charged[a] \in Int /\ impact \in Int
        /\ seen[r].score \in Int /\ newScore \in Int
    BY <1>4, <1>5, <2>1
  <2>4. InitialScore[a] - (charged[a] + impact) <= newScore
    BY <1>5, <2>2, <2>3, BoundsWiden
  <2>5. QED
    BY <1>5, <2>1, <2>2, <2>3, <2>4
<1>11. penalties' = penalties
  BY DEF WriteAgent
<1>12. ScoreWithinCharges'
  BY <1>8, <1>9, <1>10 DEF ScoreWithinCharges, ReputationInv
<1>13. BreakerConsistent'
  BY <1>8 DEF BreakerConsistent, ReputationInv
<1>14. OnlyThePenalisedLose'
  <2>1. \E p \in penalties' : AgentOf[p.contract] = a
    BY <1>3, <1>11 DEF Penalised, DelegateeOf
  <2>2. QED
    BY <1>8, <1>11, <2>1 DEF OnlyThePenalisedLose, ReputationInv
<1>15. ReadWithinCharges'
  <2> SUFFICES ASSUME NEW q \in InFlight', At(q, "writeAgent")'
               PROVE  Within(seen[q].score, DelegateeOf(q))'
    BY DEF ReadWithinCharges
  <2>1. q \in Requests /\ q # r
    BY <1>2 DEF InFlight, At
  <2>2. /\ q \in InFlight /\ At(q, "writeAgent") /\ seen'[q] = seen[q]
        /\ DelegateeOf(q)' = DelegateeOf(q)
    BY <1>1, <2>1, Frame DEF InFlight, At, RequestStep, Step, DelegateeOf, ContractOf
  <2>3. DelegateeOf(q) \in Agents /\ seen[q].score \in 0..100
    <3>1. call[q] \in Call
      BY <2>2 DEF TypeOK, InFlight, Admitted, Statement
    <3>2. QED
      BY <2>1, <3>1, ConstantsAssumption DEF Call, DelegateeOf, ContractOf, TypeOK, AgentRow
  <2>4. Within(seen[q].score, DelegateeOf(q)) /\ InitialScore[DelegateeOf(q)] \in 0..100
    BY <2>2, <2>3, ConstantsAssumption DEF ReadWithinCharges, ReputationInv
  <2> DEFINE b == DelegateeOf(q)
  <2>5. /\ charged[b] \in Nat /\ charged'[b] \in Nat /\ charged'[b] >= charged[b]
        /\ InitialScore[b] - charged[b] <= seen[q].score /\ seen[q].score <= InitialScore[b]
    BY <1>9, <2>3, <2>4 DEF Within
  <2> DEFINE i == InitialScore[b]
             before == charged[b]
             after == charged'[b]
             score == seen[q].score
  <2>6. /\ i \in Int /\ before \in Int /\ after \in Int /\ score \in Int
        /\ i - before <= score /\ before <= after
    BY <2>3, <2>4, <2>5
  <2> HIDE DEF i, before, after, score
  <2>7. i - after <= score
    BY <2>6
  <2>8. QED
    BY <2>2, <2>5, <2>7 DEF Within, i, before, after, score
<1>16. QED
  BY <1>12, <1>13, <1>14, <1>15 DEF ReputationInv

LEMMA StepReputationInv ==
  ASSUME TypeOK, RecordsInv, ReputationInv, NEW r \in Requests, RequestStep(r), ~WriteAgent(r)
  PROVE  ReputationInv'
<1>1. agent' = agent /\ charged' = charged
  BY DEF RequestStep, Step, Begin, Fail, WriteStatus, WriteTask, Grant, RecordPenalty,
         RecordLedger, ReadAgent, Revoke, db
<1>2. ScoreWithinCharges' /\ BreakerConsistent' /\ OnlyThePenalisedLose'
  BY <1>1, Frame DEF ReputationInv, ScoreWithinCharges, BreakerConsistent, OnlyThePenalisedLose
<1>3. ReadWithinCharges'
  <2> SUFFICES ASSUME NEW q \in InFlight', At(q, "writeAgent")'
               PROVE  Within(seen[q].score, DelegateeOf(q))'
    BY DEF ReadWithinCharges
  <2>1. CASE q # r
    <3>1. /\ q \in InFlight /\ At(q, "writeAgent") /\ seen'[q] = seen[q]
          /\ DelegateeOf(q)' = DelegateeOf(q)
      BY <2>1, Frame DEF InFlight, At, DelegateeOf, ContractOf
    <3>2. QED
      BY <1>1, <3>1 DEF ReputationInv, ReadWithinCharges, Within
  <2>2. CASE q = r
    <3>1. Step(r)
      BY <2>2 DEF RequestStep, Begin, Fail, At, TypeOK
    <3>2. r \in InFlight /\ Await(r) /\ call' = call
      BY <3>1 DEF Step, WriteStatus, WriteTask, Grant, RecordPenalty, RecordLedger,
                  ReadAgent, WriteAgent, Revoke, At, InFlight, Statement
    <3>3. /\ pc'[r] = HandlerOf(r).next[pc[r]] /\ pc[r] \in DOMAIN HandlerOf(r).next
          /\ call[r].op \in Operation /\ ContractOf(r) \in Contracts
      BY <3>2, AwaitType DEF Await, TypeOK
    <3>4. pc[r] = "readAgent"
      BY <2>2, <3>3, HandlerOrder DEF HandlerOf, At
    <3>5. ReadAgent(r)
      BY <3>1, <3>4 DEF Step, WriteStatus, WriteTask, Grant, RecordPenalty, RecordLedger,
                        WriteAgent, Revoke, At
    <3>6. seen'[r] = agent[DelegateeOf(r)] /\ DelegateeOf(r)' = DelegateeOf(r)
      BY <3>2, <3>5 DEF ReadAgent, TypeOK, DelegateeOf, ContractOf
    <3>7. DelegateeOf(r) \in Agents
      BY <3>3, ConstantsAssumption DEF DelegateeOf
    <3>8. QED
      BY <1>1, <2>2, <3>6, <3>7 DEF ReputationInv, ScoreWithinCharges, Within
  <2>3. QED
    BY <2>1, <2>2
<1>4. QED
  BY <1>2, <1>3 DEF ReputationInv

LEMMA NextReputationInv == TypeOK /\ RecordsInv /\ ReputationInv /\ [Next]_vars => ReputationInv'
<1> SUFFICES ASSUME TypeOK, RecordsInv, ReputationInv, [Next]_vars PROVE ReputationInv'
  OBVIOUS
<1>1. ASSUME NEW r \in Requests, RequestStep(r) PROVE ReputationInv'
  BY <1>1, WriteAgentReputation, StepReputationInv
<1>2. CASE UNCHANGED vars
  BY <1>2 DEF vars, ReputationInv, ReadWithinCharges, ScoreWithinCharges, BreakerConsistent,
              OnlyThePenalisedLose, InFlight, At, DelegateeOf, ContractOf, Within
<1>3. QED
  BY <1>1, <1>2 DEF Next, RequestStep

THEOREM ReputationInvariant == Spec => []ReputationInv
<1>1. QED
  BY InitReputationInv, NextReputationInv, TypeCorrect, RecordsInvariant, PTL DEF Spec

\* An agent below the threshold is inactive, whatever the interleaving.
THEOREM BreakerIsConsistent == Spec => []BreakerConsistent
<1>1. ReputationInv => BreakerConsistent
  BY DEF ReputationInv
<1>2. QED
  BY <1>1, ReputationInvariant, PTL

\* Interleaved breach reports never take more than their penalties.
THEOREM ScoresStayWithinCharges == Spec => []ScoreWithinCharges
<1>1. ReputationInv => ScoreWithinCharges
  BY DEF ReputationInv
<1>2. QED
  BY <1>1, ReputationInvariant, PTL

\* Only agents with a penalty on record lose reputation.
THEOREM OnlyPenalisedAgentsLose == Spec => []OnlyThePenalisedLose
<1>1. ReputationInv => OnlyThePenalisedLose
  BY DEF ReputationInv
<1>2. QED
  BY <1>1, ReputationInvariant, PTL

----------------------------------------------------------------------------
(* The circuit breaker.  A read row that still shows the agent active      *)
(* while the agent is not is older than the penalty that tripped the       *)
(* breaker, so its score lacks what that penalty took.                     *)

Outdated(r) == seen[r].active /\ ~agent[DelegateeOf(r)].active

OutdatedLacksAPenalty == \A r \in InFlight : At(r, "writeAgent") /\ Outdated(r) =>
  InitialScore[DelegateeOf(r)] - charged[DelegateeOf(r)] < seen[r].score

\* What a charge takes is lacking in every score read before, and it is
\* still lacking when the score is written back.
LEMMA LossStays ==
  \A initial, taken, more, score, lower \in Int :
    /\ initial - taken <= score /\ more > 0 => initial - (taken + more) < score
    /\ initial - taken < score /\ lower >= score - more => lower > initial - (taken + more)
  OBVIOUS

\* What the write-back does to the row and to the charges of its agent.
LEMMA WriteAgentEffect ==
  ASSUME TypeOK, RecordsInv, ReputationInv, NEW r \in Requests, WriteAgent(r)
  PROVE  /\ r \in InFlight /\ At(r, "writeAgent") /\ DelegateeOf(r) \in Agents /\ ~At(r, "writeAgent")'
         /\ \E impact \in 1..20 :
              /\ charged'[DelegateeOf(r)] = charged[DelegateeOf(r)] + impact
              /\ agent'[DelegateeOf(r)].score >= seen[r].score - impact
         /\ agent'[DelegateeOf(r)].active => seen[r].active
         /\ \A b \in Agents \ {DelegateeOf(r)} : agent'[b] = agent[b] /\ charged'[b] = charged[b]
         /\ Within(seen[r].score, DelegateeOf(r)) /\ seen[r].score \in 0..100
<1> DEFINE a == DelegateeOf(r)
           impact == ReputationImpact(call[r].severity)
           newScore == NewScore(seen[r].score, impact)
<1>1. r \in InFlight /\ Await(r) /\ call' = call /\ pc[r] = "writeAgent" /\ At(r, "writeAgent")
  BY DEF WriteAgent, At, InFlight, Statement
<1>2. /\ ContractOf(r) \in Contracts /\ call[r].op \in Operation
      /\ "writeAgent" \in DOMAIN HandlerOf(r).next
  BY <1>1, AwaitType
<1>3. pc'[r] # "writeAgent"
  BY <1>1, <1>2, HandlerOrder DEF Await, TypeOK, HandlerOf
<1>4. a \in Agents /\ impact \in 1..20 /\ seen[r] \in AgentRow /\ Within(seen[r].score, a)
  BY <1>1, <1>2, ImpactNat, ConstantsAssumption DEF DelegateeOf, TypeOK, ReputationInv, ReadWithinCharges
<1>5. seen[r].score \in 0..100 /\ newScore >= seen[r].score - impact
  BY <1>4, NewScoreRange DEF AgentRow
<1> HIDE DEF newScore
<1>6. PICK deactivate \in BOOLEAN :
        agent' = [agent EXCEPT ![a] = [score |-> newScore, active |-> ~deactivate /\ seen[r].active]]
  BY DEF WriteAgent, newScore
<1>7. agent'[a] = [score |-> newScore, active |-> ~deactivate /\ seen[r].active]
  BY <1>4, <1>6 DEF TypeOK
<1>8. agent'[a].score = newScore /\ agent'[a].active = (~deactivate /\ seen[r].active)
  BY <1>7
<1>9. agent'[a].active => seen[r].active
  BY <1>8
<1>10. \A b \in Agents \ {a} : agent'[b] = agent[b] /\ charged'[b] = charged[b]
  BY <1>4, <1>6 DEF TypeOK, WriteAgent
<1>11. charged'[a] = charged[a] + impact
  BY <1>4 DEF TypeOK, WriteAgent
<1>12. agent'[a].score >= seen[r].score - impact
  BY <1>5, <1>8
<1> HIDE DEF impact
<1>13. QED
  BY <1>1, <1>3, <1>4, <1>5, <1>9, <1>10, <1>11, <1>12 DEF At

\* The requests at the write of a score that a step of another one leaves there.
LEMMA StepOutdated ==
  ASSUME TypeOK, RecordsInv, ReputationInv, OutdatedLacksAPenalty,
         NEW r \in Requests, RequestStep(r)
  PROVE  OutdatedLacksAPenalty'
<1> SUFFICES ASSUME NEW q \in InFlight', At(q, "writeAgent")', Outdated(q)'
             PROVE  (InitialScore[DelegateeOf(q)] - charged[DelegateeOf(q)] < seen[q].score)'
  BY DEF OutdatedLacksAPenalty
<1>1. CASE q = r
  <2>1. Step(r) /\ ~WriteAgent(r)
    BY <1>1, WriteAgentEffect DEF RequestStep, Begin, Fail, At, TypeOK
  <2>2. r \in InFlight /\ Await(r) /\ call' = call
    BY <2>1 DEF Step, WriteStatus, WriteTask, Grant, RecordPenalty, RecordLedger,
                ReadAgent, WriteAgent, Revoke, At, InFlight, Statement
  <2>3. /\ pc'[r] = HandlerOf(r).next[pc[r]] /\ pc[r] \in DOMAIN HandlerOf(r).next
        /\ call[r].op \in Operation /\ ContractOf(r) \in Contracts
    BY <2>2, AwaitType DEF Await, TypeOK
  <2>4. pc[r] = "readAgent"
    BY <1>1, <2>3, HandlerOrder DEF HandlerOf, At
  <2>5. ReadAgent(r)
    BY <2>1, <2>4 DEF Step, WriteStatus, WriteTask, Grant, RecordPenalty, RecordLedger,
                      WriteAgent, Revoke, At
  <2>6. seen'[r] = agent'[DelegateeOf(r)] /\ DelegateeOf(r)' = DelegateeOf(r)
    BY <2>2, <2>5 DEF ReadAgent, TypeOK, DelegateeOf, ContractOf, db
  <2>7. QED
    BY <1>1, <2>6 DEF Outdated
<1>2. CASE q # r
  <2> DEFINE b == DelegateeOf(q)
  <2>1. /\ q \in Requests /\ q \in InFlight /\ At(q, "writeAgent") /\ seen'[q] = seen[q]
        /\ DelegateeOf(q)' = b
    BY <1>2, Frame DEF InFlight, At, DelegateeOf, ContractOf
  <2>2. b \in Agents /\ seen[q].score \in 0..100
    <3>1. call[q] \in Call
      BY <2>1 DEF TypeOK, InFlight, Admitted, Statement
    <3>2. QED
      BY <2>1, <3>1, ConstantsAssumption DEF Call, DelegateeOf, ContractOf, TypeOK, AgentRow
  <2>3. InitialScore[b] \in 0..100 /\ charged[b] \in Nat /\ Within(seen[q].score, b)
    BY <2>1, <2>2, ConstantsAssumption DEF TypeOK, ReputationInv, ReadWithinCharges
  <2>4. CASE agent'[b] = agent[b] /\ charged'[b] = charged[b]
    BY <2>1, <2>4 DEF Outdated, OutdatedLacksAPenalty
  <2>5. CASE ~(agent'[b] = agent[b] /\ charged'[b] = charged[b])
    <3>1. WriteAgent(r)
      BY <2>5 DEF RequestStep, Step, Begin, Fail, WriteStatus, WriteTask, Grant, RecordPenalty,
                  RecordLedger, ReadAgent, Revoke, db
    <3>2. b = DelegateeOf(r)
      BY <2>2, <2>5, <3>1, WriteAgentEffect
    <3>3. PICK impact \in 1..20 : charged'[b] = charged[b] + impact
      BY <3>1, <3>2, WriteAgentEffect
    <3>4. /\ InitialScore[b] \in Int /\ charged[b] \in Int /\ seen[q].score \in Int
          /\ impact \in Int /\ impact > 0 /\ InitialScore[b] - charged[b] <= seen[q].score
      BY <2>2, <2>3 DEF Within
    <3>5. InitialScore[b] - (charged[b] + impact) < seen[q].score
      BY <3>4, LossStays
    <3>6. QED
      BY <2>1, <3>3, <3>5
  <2>6. QED
    BY <2>4, <2>5
<1>3. QED
  BY <1>1, <1>2

LEMMA NextRevival ==
  TypeOK /\ RecordsInv /\ ReputationInv /\ OutdatedLacksAPenalty /\ [Next]_vars =>
    /\ OutdatedLacksAPenalty'
    /\ [\A a \in Agents : ~agent[a].active /\ agent'[a].active =>
          agent'[a].score > InitialScore[a] - charged'[a]]_agent
<1> SUFFICES ASSUME TypeOK, RecordsInv, ReputationInv, OutdatedLacksAPenalty, [Next]_vars
             PROVE  /\ OutdatedLacksAPenalty'
                    /\ \A a \in Agents : ~agent[a].active /\ agent'[a].active =>
                         agent'[a].score > InitialScore[a] - charged'[a]
  OBVIOUS
<1>1. ASSUME NEW r \in Requests, RequestStep(r)
      PROVE  OutdatedLacksAPenalty'
  BY <1>1, StepOutdated
<1>2. ASSUME NEW r \in Requests, RequestStep(r), NEW a \in Agents,
             ~agent[a].active, agent'[a].active
      PROVE  agent'[a].score > InitialScore[a] - charged'[a]
  <2>1. WriteAgent(r)
    BY <1>2 DEF RequestStep, Step, Begin, Fail, WriteStatus, WriteTask, Grant, RecordPenalty,
                RecordLedger, ReadAgent, Revoke, db
  <2>2. a = DelegateeOf(r)
    BY <1>2, <2>1, WriteAgentEffect
  <2>3. r \in InFlight /\ At(r, "writeAgent") /\ Outdated(r)
    BY <1>2, <2>1, <2>2, WriteAgentEffect DEF Outdated
  <2>4. InitialScore[a] - charged[a] < seen[r].score /\ seen[r].score \in 0..100
    BY <2>1, <2>2, <2>3, WriteAgentEffect DEF OutdatedLacksAPenalty
  <2>5. PICK impact \in 1..20 : /\ charged'[a] = charged[a] + impact
                                /\ agent'[a].score >= seen[r].score - impact
    BY <2>1, <2>2, WriteAgentEffect
  <2>6. InitialScore[a] \in Int /\ charged[a] \in Int /\ seen[r].score \in Int /\ impact \in Int
    BY <2>4, ConstantsAssumption DEF TypeOK
  <2>7. agent'[a] \in AgentRow
    BY NextTypeOK DEF TypeOK
  <2>8. agent'[a].score \in Int
    BY <2>7 DEF AgentRow
  <2>9. agent'[a].score > InitialScore[a] - (charged[a] + impact)
    BY <2>4, <2>5, <2>6, <2>8, LossStays
  <2>10. QED
    BY <2>5, <2>9
<1>3. CASE UNCHANGED vars
  BY <1>3 DEF vars, OutdatedLacksAPenalty, Outdated, InFlight, At, DelegateeOf, ContractOf
<1>4. QED
  BY <1>1, <1>2, <1>3 DEF Next, RequestStep

\* However breach reports interleave, one that turns the circuit breaker off
\* again undoes a penalty with it.
THEOREM RevivalsUndoPenalties == Spec => RevivalUndoesAPenalty
<1>1. Init => OutdatedLacksAPenalty
  BY DEF Init, OutdatedLacksAPenalty, InFlight, Statement
<1>2. QED
  BY <1>1, NextRevival, ReputationInvariant, TypeCorrect, RecordsInvariant, PTL
     DEF Spec, RevivalUndoesAPenalty

----------------------------------------------------------------------------
(* Refinement.  When requests come one at a time, the status that a        *)
(* handler read is still there when it writes, and the write is an edge of *)
(* the lifecycle.                                                          *)

OneInFlight == \A r, q \in InFlight : r = q

GuardStillHolds == \A r \in InFlight :
  At(r, "status") => contract[ContractOf(r)].status \in HandlerOf(r).from

SerialInv == OneInFlight /\ GuardStillHolds

LEMMA HandlerEdges ==
  ASSUME NEW op \in Operation, NEW from \in Handler[op].from
  PROVE  <<from, Handler[op].to>> \in Lifecycle!Edge
  BY DEF Operation, Handler, acceptBidAndCreateContract, acceptContract, activateContract,
         completeContract, reportBreach, terminateContract, Lifecycle!Edge, Lifecycle!Ended

LEMMA NobodyInFlight ==
  ASSUME MaxInFlight = 1, Cardinality(InFlight) < MaxInFlight
  PROVE  InFlight = {}
<1>1. IsFiniteSet(InFlight)
  BY ConstantsAssumption, FS_Subset DEF InFlight
<1>2. Cardinality(InFlight) \in Nat
  BY <1>1, FS_CardinalityType
<1>3. QED
  BY <1>1, <1>2, FS_EmptySet

LEMMA StepSerialInv ==
  ASSUME MaxInFlight = 1, TypeOK, SerialInv, NEW r \in Requests, RequestStep(r)
  PROVE  SerialInv'
<1>1. CASE Step(r) \/ Fail(r)
  <2>1. r \in InFlight /\ call' = call
    BY <1>1 DEF Step, Fail, WriteStatus, WriteTask, Grant, RecordPenalty, RecordLedger,
                ReadAgent, WriteAgent, Revoke, At, InFlight, Statement
  <2>2. \A q \in InFlight' : q = r
    BY <2>1, Frame DEF SerialInv, OneInFlight, InFlight
  <2>3. ~At(r, "status")'
    <3>1. CASE Step(r)
      <4>1. Await(r)
        BY <3>1 DEF Step, WriteStatus, WriteTask, Grant, RecordPenalty, RecordLedger,
                    ReadAgent, WriteAgent, Revoke
      <4>2. pc'[r] = HandlerOf(r).next[pc[r]]
        BY <4>1 DEF Await, TypeOK
      <4>3. QED
        BY <2>1, <4>1, <4>2, AwaitType, HandlerTable DEF HandlerOf, At
    <3>2. CASE Fail(r)
      BY <3>2 DEF Fail, At, TypeOK
    <3>3. QED
      BY <1>1, <3>1, <3>2
  <2>4. QED
    BY <2>2, <2>3 DEF SerialInv, OneInFlight, GuardStillHolds
<1>2. ASSUME NEW op \in Operation, NEW c \in Contracts, NEW severity \in Severable(op),
             Begin(r, op, c, severity)
      PROVE  SerialInv'
  <2>1. InFlight = {} /\ contract' = contract
    BY <1>2, NobodyInFlight DEF Begin, db
  <2>2. \A q \in InFlight' : q = r
    BY <2>1, Frame DEF InFlight
  <2>3. At(r, "status")' => /\ contract[c].status \in Handler[op].from
                            /\ call'[r].op = op /\ call'[r].contract = c
    BY <1>2 DEF Begin, TypeOK, At
  <2>4. QED
    BY <2>1, <2>2, <2>3 DEF SerialInv, OneInFlight, GuardStillHolds, HandlerOf, ContractOf
<1>3. QED
  BY <1>1, <1>2 DEF RequestStep

LEMMA NextSerialInv ==
  ASSUME MaxInFlight = 1
  PROVE  TypeOK /\ SerialInv /\ [Next]_vars => SerialInv'
<1> SUFFICES ASSUME TypeOK, SerialInv, [Next]_vars PROVE SerialInv'
  OBVIOUS
<1>1. CASE Next
  BY <1>1, StepSerialInv DEF Next, RequestStep
<1>2. CASE UNCHANGED vars
  BY <1>2 DEF vars, SerialInv, OneInFlight, GuardStillHolds, InFlight, At, ContractOf, HandlerOf
<1>3. QED
  BY <1>1, <1>2

LEMMA SerialInvariant ==
  ASSUME MaxInFlight = 1
  PROVE  Spec => []SerialInv
<1>1. Init => SerialInv
  BY DEF Init, SerialInv, OneInFlight, GuardStillHolds, InFlight, Statement
<1>2. QED
  BY <1>1, NextSerialInv, TypeCorrect, PTL DEF Spec

LEMMA NextFollowsLifecycle ==
  TypeOK /\ SerialInv /\ [Next]_vars => [Lifecycle!Next]_([c \in Contracts |-> contract[c].status])
<1> DEFINE status == [c \in Contracts |-> contract[c].status]
<1> SUFFICES ASSUME TypeOK, SerialInv, [Next]_vars PROVE [Lifecycle!Next]_status
  OBVIOUS
<1>1. ASSUME NEW r \in Requests, WriteStatus(r)
      PROVE  Lifecycle!Next
  <2>1. r \in InFlight /\ Await(r) /\ call' = call /\ At(r, "status")
    BY <1>1 DEF WriteStatus, At, InFlight, Statement
  <2>2. call[r].op \in Operation /\ ContractOf(r) \in Contracts
    BY <2>1, AwaitType
  <2>3. <<contract[ContractOf(r)].status, HandlerOf(r).to>> \in Lifecycle!Edge
    BY <2>1, <2>2, HandlerEdges DEF SerialInv, GuardStillHolds, HandlerOf
  <2>4. status' = [status EXCEPT ![ContractOf(r)] = HandlerOf(r).to]
    BY <1>1, <2>2 DEF WriteStatus, TypeOK
  <2>5. HandlerOf(r).to \in {e[2] : e \in Lifecycle!Edge}
    BY <2>3
  <2>6. QED
    BY <2>2, <2>3, <2>4, <2>5 DEF Lifecycle!Next, Lifecycle!Move
<1>2. ASSUME NEW r \in Requests, RequestStep(r), ~WriteStatus(r)
      PROVE  status' = status
  BY <1>2 DEF RequestStep, Step, Begin, Fail, WriteTask, Grant, RecordPenalty,
              RecordLedger, ReadAgent, WriteAgent, Revoke, db
<1>3. CASE UNCHANGED vars
  BY <1>3 DEF vars
<1>4. QED
  BY <1>1, <1>2, <1>3 DEF Next, RequestStep

\* One request at a time, with failures anywhere, the contract service
\* implements the documented lifecycle.
THEOREM SerialImplementsLifecycle ==
  ASSUME MaxInFlight = 1
  PROVE  Spec => LifecycleSpec
<1>1. Spec => []SerialInv
  BY SerialInvariant
<1>2. Init => Lifecycle!Init
  BY DEF Init, Lifecycle!Init
<1>3. QED
  BY <1>1, <1>2, NextFollowsLifecycle, TypeCorrect, PTL DEF Spec, LifecycleSpec, Lifecycle!Spec

----------------------------------------------------------------------------
(* Agreement.  When requests come one at a time, what a request has        *)
(* written so far and what its handler has yet to write account together   *)
(* for the ledger, the grants, the task and the agent.                     *)

BeforeLedger == {"status", "task", "penalty", "ledger"}

\* How the statements of a handler follow each other.
LEMMA HandlerSequence ==
  ASSUME NEW op \in Operation
  PROVE  /\ Handler[op].from \intersect EndedStatus = {}
         /\ op \notin Ending => Handler[op].to \notin EndedStatus
         /\ op \in Ending => Handler[op].outcome = OutcomeOf(Handler[op].to)
         /\ op \in Ending => Handler[op].next["status"] \in BeforeLedger
         /\ \A s \in DOMAIN Handler[op].next :
              /\ Handler[op].next[s] \in BeforeLedger => s \in BeforeLedger \ {"ledger"}
              /\ op \in Ending /\ Handler[op].next[s] = "done" => s = "revoke"
  BY DEF Operation, Handler, acceptBidAndCreateContract, acceptContract, activateContract,
         completeContract, reportBreach, terminateContract, EndedStatus, Ending, BeforeLedger,
         OutcomeOf

\* A statement is executed by a request that goes on to the next.
LEMMA StepGoesOn ==
  ASSUME TypeOK, NEW r \in Requests, Step(r)
  PROVE  /\ r \in InFlight /\ call' = call /\ ContractOf(r)' = ContractOf(r)
         /\ call[r].op \in Operation /\ ContractOf(r) \in Contracts
         /\ HandlerOf(r) = Handler[call[r].op] /\ HandlerOf(r)' = HandlerOf(r)
         /\ pc[r] \in DOMAIN HandlerOf(r).next /\ pc'[r] = HandlerOf(r).next[pc[r]]
         /\ \A q \in Requests \ {r} : pc'[q] = pc[q]
<1>1. r \in InFlight /\ Await(r) /\ call' = call
  BY DEF Step, WriteStatus, WriteTask, Grant, RecordPenalty, RecordLedger, ReadAgent, WriteAgent,
         Revoke, At, InFlight, Statement
<1>2. /\ call[r].op \in Operation /\ ContractOf(r) \in Contracts
      /\ pc[r] \in DOMAIN HandlerOf(r).next
  BY <1>1, AwaitType
<1>3. pc'[r] = HandlerOf(r).next[pc[r]] /\ \A q \in Requests \ {r} : pc'[q] = pc[q]
  BY <1>1 DEF Await, TypeOK
<1>4. QED
  BY <1>1, <1>2, <1>3 DEF ContractOf, HandlerOf

\* Which statement changes which table.
LEMMA StepWrites ==
  ASSUME TypeOK, NEW r \in Requests, Step(r)
  PROVE  /\ pc[r] = "status" => WriteStatus(r)
         /\ pc[r] # "status" => contract' = contract
         /\ pc[r] = "task" => WriteTask(r)
         /\ pc[r] # "task" => task' = task
         /\ pc[r] = "ledger" => RecordLedger(r)
         /\ pc[r] # "ledger" => ledger' = ledger
         /\ pc[r] = "grant" => Grant(r)
         /\ pc[r] = "revoke" => Revoke(r)
         /\ pc[r] \notin {"grant", "revoke"} => live' = live
         /\ pc[r] = "readAgent" => ReadAgent(r)
         /\ pc[r] = "writeAgent" => WriteAgent(r)
         /\ pc[r] # "writeAgent" => agent' = agent
<1>1. \/ pc[r] = "status" /\ WriteStatus(r)
      \/ pc[r] = "task" /\ WriteTask(r)
      \/ pc[r] = "grant" /\ Grant(r)
      \/ pc[r] = "penalty" /\ RecordPenalty(r)
      \/ pc[r] = "ledger" /\ RecordLedger(r)
      \/ pc[r] = "readAgent" /\ ReadAgent(r)
      \/ pc[r] = "writeAgent" /\ WriteAgent(r)
      \/ pc[r] = "revoke" /\ Revoke(r)
  BY DEF Step, WriteStatus, WriteTask, Grant, RecordPenalty, RecordLedger, ReadAgent, WriteAgent,
         Revoke, At
<1>2. WriteStatus(r) => task' = task /\ agent' = agent /\ ledger' = ledger /\ live' = live
  BY DEF WriteStatus
<1>3. WriteTask(r) => contract' = contract /\ agent' = agent /\ ledger' = ledger /\ live' = live
  BY DEF WriteTask
<1>4. Grant(r) \/ Revoke(r) => contract' = contract /\ task' = task /\ agent' = agent /\ ledger' = ledger
  BY DEF Grant, Revoke
<1>5. RecordPenalty(r) \/ ReadAgent(r) =>
        contract' = contract /\ task' = task /\ agent' = agent /\ ledger' = ledger /\ live' = live
  BY DEF RecordPenalty, ReadAgent, db
<1>6. RecordLedger(r) => contract' = contract /\ task' = task /\ agent' = agent /\ live' = live
  BY DEF RecordLedger
<1>7. WriteAgent(r) => contract' = contract /\ task' = task /\ ledger' = ledger /\ live' = live
  BY DEF WriteAgent
<1>8. QED
  BY <1>1, <1>2, <1>3, <1>4, <1>5, <1>6, <1>7

\* The only request that runs is the one that takes the step.
LEMMA RunsAlone ==
  ASSUME MaxInFlight = 1, TypeOK, SerialInv, NEW r \in Requests, RequestStep(r)
  PROVE  /\ InFlight \subseteq {r} /\ InFlight' \subseteq {r}
         /\ ~Step(r) => db' = db
<1>1. CASE Step(r) \/ Fail(r)
  <2>1. r \in InFlight
    BY <1>1 DEF Step, Fail, WriteStatus, WriteTask, Grant, RecordPenalty, RecordLedger,
                ReadAgent, WriteAgent, Revoke, At, InFlight, Statement
  <2>2. InFlight' \subseteq InFlight \union {r}
    BY Frame DEF InFlight
  <2>3. QED
    BY <1>1, <2>1, <2>2 DEF SerialInv, OneInFlight, Fail
<1>2. ASSUME NEW op \in Operation, NEW c \in Contracts, NEW severity \in Severable(op),
             Begin(r, op, c, severity)
      PROVE  InFlight = {} /\ InFlight' \subseteq {r} /\ db' = db
  <2>1. InFlight = {} /\ db' = db
    BY <1>2, NobodyInFlight DEF Begin
  <2>2. QED
    BY <2>1, Frame DEF InFlight
<1>3. QED
  BY <1>1, <1>2 DEF RequestStep

StatusWritten == \A r \in InFlight :
  ~At(r, "status") => contract[ContractOf(r)].status = HandlerOf(r).to

LedgerAhead == \A r \in InFlight :
  call[r].op \in Ending /\ pc[r] \in BeforeLedger => ~Ledgered(ContractOf(r))

SettledInv == StatusWritten /\ LedgerAhead /\ LedgerIsConsistent /\ EndedHoldsNoGrant

LEMMA NoRowBeforeTheEnd ==
  ASSUME TypeOK, LedgerIsConsistent, NEW c \in Contracts, contract[c].status \notin EndedStatus
  PROVE  ~Ledgered(c)
<1> SUFFICES ASSUME NEW l \in ledger, l.contract = c PROVE FALSE
  BY DEF Ledgered
<1>1. l.outcome \in Outcome
  BY DEF TypeOK
<1>2. contract[c].status \in ContractStatus
  BY DEF TypeOK, ContractRow
<1>3. l.outcome = OutcomeOf(contract[c].status)
  BY DEF LedgerIsConsistent
<1>4. QED
  BY <1>1, <1>2, <1>3 DEF OutcomeOf, Outcome, EndedStatus

\* Whoever runs about a contract that has ended has ended it.
LEMMA OnlyTheEnderRuns ==
  ASSUME TypeOK, SerialInv, StatusWritten, NEW r \in InFlight,
         contract[ContractOf(r)].status \in EndedStatus
  PROVE  call[r].op \in Ending /\ ~At(r, "status")
<1>1. call[r].op \in Operation
  BY DEF TypeOK, InFlight, Admitted, Statement, Call, Operation
<1>2. ~At(r, "status")
  BY <1>1, HandlerSequence DEF SerialInv, GuardStillHolds, HandlerOf
<1>3. contract[ContractOf(r)].status = HandlerOf(r).to
  BY <1>2 DEF StatusWritten
<1>4. QED
  BY <1>1, <1>2, <1>3, HandlerSequence DEF HandlerOf

LEMMA StepLeavesNoGrant ==
  ASSUME MaxInFlight = 1, TypeOK, SerialInv, StatusWritten, EndedHoldsNoGrant,
         NEW r \in Requests, Step(r)
  PROVE  EndedHoldsNoGrant'
<1> DEFINE d == ContractOf(r)
<1> SUFFICES ASSUME NEW c \in live', contract'[c].status \in EndedStatus
             PROVE  \E q \in Admitted' : ContractOf(q)' = c /\ (q \in InFlight' \/ At(q, "failed")')
  BY DEF EndedHoldsNoGrant, Concerned
<1>1. /\ r \in InFlight /\ call' = call /\ d' = d /\ d \in Contracts /\ call[r].op \in Operation
      /\ HandlerOf(r) = Handler[call[r].op] /\ pc[r] \in DOMAIN HandlerOf(r).next
      /\ pc'[r] = HandlerOf(r).next[pc[r]] /\ \A q \in Requests \ {r} : pc'[q] = pc[q]
  BY StepGoesOn
<1>2. live' \subseteq live \union {d} /\ (c \notin live => pc[r] = "grant")
  BY StepWrites DEF Grant, Revoke
<1>3. c \in Contracts
  BY <1>1, <1>2, ConstantsAssumption DEF TypeOK
<1>4. c = d => call[r].op \in Ending
  <2>1. CASE pc[r] = "status"
    <3>1. c = d => contract'[c].status = HandlerOf(r).to
      BY <1>3, <2>1, StepWrites DEF WriteStatus, TypeOK
    <3>2. QED
      BY <1>1, <3>1, HandlerSequence
  <2>2. CASE pc[r] # "status"
    <3>1. contract' = contract
      BY <2>2, StepWrites
    <3>2. QED
      BY <1>1, <3>1, OnlyTheEnderRuns
  <2>3. QED
    BY <2>1, <2>2
<1>5. c \in live
  <2>1. pc[r] = "grant" => call[r].op \notin Ending
    BY <1>1, HandlerOrder DEF Ending
  <2>2. QED
    BY <1>2, <1>4, <2>1
<1>6. CASE c = d
  <2>1. pc[r] # "revoke"
    BY <1>3, <1>6, StepWrites DEF Revoke
  <2>2. pc'[r] # "done"
    BY <1>1, <1>4, <1>6, <2>1, HandlerSequence
  <2>3. pc'[r] \in Statement
    BY <1>1, <2>2, HandlerTable
  <2>4. QED
    BY <1>1, <1>6, <2>3 DEF InFlight, Admitted, Statement
<1>7. CASE c # d
  <2>1. contract'[c] = contract[c]
    BY <1>3, <1>7, StepWrites DEF WriteStatus, TypeOK
  <2>2. PICK q \in Admitted : ContractOf(q) = c /\ (q \in InFlight \/ At(q, "failed"))
    BY <1>5, <2>1 DEF EndedHoldsNoGrant, Concerned
  <2>3. q \in Requests \ {r}
    BY <1>7, <2>2 DEF Admitted
  <2>4. QED
    BY <1>1, <2>2, <2>3 DEF Admitted, InFlight, At, ContractOf
<1>8. QED
  BY <1>6, <1>7

LEMMA StepKeepsLedger ==
  ASSUME MaxInFlight = 1, TypeOK, SerialInv, StatusWritten, LedgerAhead, LedgerIsConsistent,
         NEW r \in Requests, Step(r)
  PROVE  LedgerIsConsistent'
<1> DEFINE d == ContractOf(r)
<1>1. /\ r \in InFlight /\ d \in Contracts /\ call[r].op \in Operation
      /\ HandlerOf(r) = Handler[call[r].op] /\ pc[r] \in DOMAIN HandlerOf(r).next
  BY StepGoesOn
<1>2. \A l \in ledger : l.contract \in Contracts
  BY DEF TypeOK
<1>3. CASE pc[r] = "status"
  <2>1. contract[d].status \notin EndedStatus
    BY <1>1, <1>3, HandlerSequence DEF SerialInv, GuardStillHolds, At
  <2>2. \A l \in ledger : l.contract # d
    BY <1>1, <2>1, NoRowBeforeTheEnd DEF Ledgered
  <2>3. \A c \in Contracts \ {d} : contract'[c] = contract[c]
    BY <1>3, StepWrites DEF WriteStatus, TypeOK
  <2>4. ledger' = ledger
    BY <1>3, StepWrites
  <2>5. QED
    BY <1>2, <2>2, <2>3, <2>4 DEF LedgerIsConsistent
<1>4. CASE pc[r] = "ledger"
  <2> DEFINE row == [request |-> r, contract |-> d, outcome |-> HandlerOf(r).outcome]
  <2>1. ledger' = ledger \union {row} /\ contract' = contract
    BY <1>4, StepWrites DEF RecordLedger
  <2>2. call[r].op \in Ending
    BY <1>1, <1>4, HandlerOrder
  <2>3. \A l \in ledger : l.contract # d
    BY <1>1, <1>4, <2>2 DEF LedgerAhead, BeforeLedger, Ledgered
  <2>4. contract[d].status = HandlerOf(r).to
    BY <1>1, <1>4 DEF StatusWritten, At
  <2>5. row.outcome = OutcomeOf(contract[d].status) /\ row.contract = d
    BY <1>1, <2>2, <2>4, HandlerSequence
  <2> HIDE DEF row
  <2>6. QED
    BY <2>1, <2>3, <2>5 DEF LedgerIsConsistent
<1>5. CASE pc[r] \notin {"status", "ledger"}
  BY <1>5, StepWrites DEF LedgerIsConsistent
<1>6. QED
  BY <1>3, <1>4, <1>5

LEMMA StepSettledInv ==
  ASSUME MaxInFlight = 1, TypeOK, SerialInv, SettledInv, NEW r \in Requests, RequestStep(r)
  PROVE  SettledInv'
<1> USE DEF SettledInv
<1>1. CASE Step(r)
  <2>1. /\ r \in InFlight /\ call' = call /\ ContractOf(r)' = ContractOf(r)
        /\ ContractOf(r) \in Contracts /\ call[r].op \in Operation
        /\ HandlerOf(r) = Handler[call[r].op] /\ HandlerOf(r)' = HandlerOf(r)
        /\ pc[r] \in DOMAIN HandlerOf(r).next /\ pc'[r] = HandlerOf(r).next[pc[r]]
    BY <1>1, StepGoesOn
  <2>2. InFlight' \subseteq {r}
    BY RunsAlone
  <2>3. contract'[ContractOf(r)].status = HandlerOf(r).to
    <3>1. CASE pc[r] = "status"
      BY <1>1, <2>1, <3>1, StepWrites DEF WriteStatus, TypeOK
    <3>2. CASE pc[r] # "status"
      BY <1>1, <2>1, <3>2, StepWrites DEF StatusWritten, At
    <3>3. QED
      BY <3>1, <3>2
  <2>4. StatusWritten'
    BY <2>1, <2>2, <2>3 DEF StatusWritten
  <2>5. LedgerAhead'
    <3> SUFFICES ASSUME call[r].op \in Ending, pc'[r] \in BeforeLedger
                 PROVE  ~Ledgered(ContractOf(r))'
      BY <2>1, <2>2 DEF LedgerAhead
    <3>1. pc[r] \in BeforeLedger \ {"ledger"}
      BY <2>1, HandlerSequence
    <3>2. ledger' = ledger
      BY <1>1, <3>1, StepWrites
    <3>3. QED
      BY <2>1, <3>1, <3>2 DEF LedgerAhead, Ledgered
  <2>6. QED
    BY <1>1, <2>4, <2>5, StepKeepsLedger, StepLeavesNoGrant
<1>2. CASE Fail(r)
  <2>1. db' = db /\ call' = call /\ pc' = [pc EXCEPT ![r] = "failed"]
    BY <1>2 DEF Fail
  <2>2. InFlight' = {}
    BY <2>1, RunsAlone DEF InFlight, TypeOK, Statement
  <2>3. EndedHoldsNoGrant'
    BY <2>1 DEF EndedHoldsNoGrant, Concerned, db, Admitted, At, InFlight, ContractOf, TypeOK
  <2>4. QED
    BY <2>1, <2>2, <2>3 DEF StatusWritten, LedgerAhead, LedgerIsConsistent, db
<1>3. ASSUME NEW op \in Operation, NEW c \in Contracts, NEW severity \in Severable(op),
             Begin(r, op, c, severity)
      PROVE  SettledInv'
  <2>1. db' = db /\ pc[r] = "new" /\ InFlight = {} /\ InFlight' \subseteq {r}
    BY <1>3, RunsAlone, NobodyInFlight DEF Begin, At
  <2>2. r \in InFlight' => pc'[r] = "status" /\ ContractOf(r)' = c /\ contract[c].status \in Handler[op].from
    BY <1>3 DEF Begin, InFlight, TypeOK, Statement, ContractOf
  <2>3. StatusWritten'
    BY <2>1, <2>2 DEF StatusWritten, At
  <2>4. LedgerAhead'
    <3>1. r \in InFlight' => ~Ledgered(c)
      BY <2>2, HandlerSequence, NoRowBeforeTheEnd
    <3>2. Ledgered(c)' <=> Ledgered(c)
      BY <2>1 DEF Ledgered, db
    <3>3. QED
      BY <2>1, <2>2, <3>1, <3>2 DEF LedgerAhead, Ledgered
  <2>5. LedgerIsConsistent'
    BY <2>1 DEF LedgerIsConsistent, db
  <2>6. EndedHoldsNoGrant'
    <3>1. \A q \in Admitted : q \in Requests \ {r}
      BY <2>1 DEF Admitted
    <3>2. \A q \in Admitted : pc'[q] = pc[q] /\ ContractOf(q)' = ContractOf(q)
      BY <3>1, Frame DEF ContractOf
    <3>3. live' = live /\ contract' = contract
      BY <2>1 DEF db
    <3>4. QED
      BY <3>1, <3>2, <3>3 DEF EndedHoldsNoGrant, Concerned, Admitted, InFlight, At
  <2>7. QED
    BY <2>3, <2>4, <2>5, <2>6
<1>4. QED
  BY <1>1, <1>2, <1>3 DEF RequestStep

LEMMA InitSettledInv == Init => SettledInv
<1> SUFFICES ASSUME Init PROVE SettledInv
  OBVIOUS
<1>1. InFlight = {} /\ ledger = {}
  BY DEF Init, InFlight, Statement
<1>2. \A c \in live : contract[c].status \notin EndedStatus
  BY ConstantsAssumption DEF Init, EndedStatus
<1>3. QED
  BY <1>1, <1>2 DEF SettledInv, StatusWritten, LedgerAhead, LedgerIsConsistent, EndedHoldsNoGrant

LEMMA NextSettledInv ==
  ASSUME MaxInFlight = 1
  PROVE  TypeOK /\ SerialInv /\ SettledInv /\ [Next]_vars => SettledInv'
<1> SUFFICES ASSUME TypeOK, SerialInv, SettledInv, [Next]_vars PROVE SettledInv'
  OBVIOUS
<1>1. CASE Next
  BY <1>1, StepSettledInv DEF Next, RequestStep
<1>2. CASE UNCHANGED vars
  BY <1>2 DEF vars, SettledInv, StatusWritten, LedgerAhead, LedgerIsConsistent,
              EndedHoldsNoGrant, Concerned, InFlight, Admitted, At, ContractOf, HandlerOf, Ledgered
<1>3. QED
  BY <1>1, <1>2

LEMMA SettledInvariant ==
  ASSUME MaxInFlight = 1
  PROVE  Spec => []SettledInv
<1>1. Init => SettledInv
  BY InitSettledInv
<1>2. QED
  BY <1>1, NextSettledInv, TypeCorrect, SerialInvariant, PTL DEF Spec

\* One request at a time, failures and retries included: at most one row
\* about a contract, which agrees with how it ended.
THEOREM SerialLedgerIsConsistent ==
  ASSUME MaxInFlight = 1
  PROVE  Spec => []LedgerIsConsistent
<1>1. SettledInv => LedgerIsConsistent
  BY DEF SettledInv
<1>2. QED
  BY <1>1, SettledInvariant, PTL

\* One request at a time, an ended contract holds grants only on account of
\* a request that has not reached the revocation.
THEOREM SerialEndRevokes ==
  ASSUME MaxInFlight = 1
  PROVE  Spec => []EndedHoldsNoGrant
<1>1. SettledInv => EndedHoldsNoGrant
  BY DEF SettledInv
<1>2. QED
  BY <1>1, SettledInvariant, PTL

----------------------------------------------------------------------------
(* The circuit breaker.  A breach report that runs alone writes back what  *)
(* the agent's row still holds.                                            *)

ReadIsCurrent == \A r \in InFlight : At(r, "writeAgent") => seen[r] = agent[DelegateeOf(r)]

LEMMA StepReadIsCurrent ==
  ASSUME MaxInFlight = 1, TypeOK, SerialInv, ReadIsCurrent, NEW r \in Requests, RequestStep(r)
  PROVE  ReadIsCurrent'
<1> SUFFICES ASSUME r \in InFlight', pc'[r] = "writeAgent"
             PROVE  seen'[r] = agent'[DelegateeOf(r)']
  BY RunsAlone DEF ReadIsCurrent, At
<1>1. CASE Step(r)
  <2>1. pc[r] = "readAgent"
    BY <1>1, StepGoesOn, HandlerOrder
  <2>2. ReadAgent(r) /\ DelegateeOf(r)' = DelegateeOf(r)
    BY <1>1, <2>1, StepWrites, StepGoesOn DEF DelegateeOf
  <2>3. QED
    BY <2>2 DEF ReadAgent, TypeOK, db
<1>2. CASE Fail(r)
  BY <1>2 DEF Fail, TypeOK
<1>3. CASE \E op \in Operation, c \in Contracts : \E severity \in Severable(op) :
             Begin(r, op, c, severity)
  BY <1>3 DEF Begin, TypeOK
<1>4. QED
  BY <1>1, <1>2, <1>3 DEF RequestStep

LEMMA NextReadIsCurrent ==
  ASSUME MaxInFlight = 1
  PROVE  TypeOK /\ SerialInv /\ ReadIsCurrent /\ [Next]_vars => ReadIsCurrent'
<1> SUFFICES ASSUME TypeOK, SerialInv, ReadIsCurrent, [Next]_vars PROVE ReadIsCurrent'
  OBVIOUS
<1>1. CASE Next
  BY <1>1, StepReadIsCurrent DEF Next, RequestStep
<1>2. CASE UNCHANGED vars
  BY <1>2 DEF vars, ReadIsCurrent, InFlight, At, DelegateeOf, ContractOf
<1>3. QED
  BY <1>1, <1>2

LEMMA ReadIsCurrentInvariant ==
  ASSUME MaxInFlight = 1
  PROVE  Spec => []ReadIsCurrent
<1>1. Init => ReadIsCurrent
  BY DEF Init, ReadIsCurrent, InFlight, Statement
<1>2. QED
  BY <1>1, NextReadIsCurrent, TypeCorrect, SerialInvariant, PTL DEF Spec

----------------------------------------------------------------------------
(* The task.  A request that runs alone is the only one to write the rows  *)
(* its task is compared with, however many contracts the task has.         *)

\* What the handlers leave the task in.
LEMMA HandlerTasks ==
  ASSUME NEW op \in Operation
  PROVE  /\ Handler[op].to \in ContractStatus \ {"ABSENT"}
         /\ op \notin Ending => "ACTIVE" \notin Handler[op].from
         /\ op = "select" => Handler[op].from = {"ABSENT"} /\ Handler[op].next["status"] = "task"
         /\ op # "select" => "ABSENT" \notin Handler[op].from
         /\ Handler[op].next["status"] # "task" =>
              \A s \in Handler[op].from : TaskStatusFor(s) \subseteq TaskStatusFor(Handler[op].to)
         /\ Handler[op].next["status"] = "done" => op \notin Ending /\ op # "activate"
         /\ "task" \in DOMAIN Handler[op].next => Handler[op].task \in TaskStatusFor(Handler[op].to)
         /\ \A s \in DOMAIN Handler[op].next :
              /\ Handler[op].next[s] = "task" => s = "status"
              /\ op = "activate" /\ Handler[op].next[s] = "done" => s = "grant"
              /\ s = "revoke" => op \in Ending /\ Handler[op].next[s] = "done"
              /\ s = "grant" => Handler[op].next[s] = "done"
<1>1. /\ TaskStatusFor("ABSENT") = {}
      /\ TaskStatusFor("PROPOSED") = {"ASSIGNED"} /\ TaskStatusFor("ACCEPTED") = {"ASSIGNED"}
      /\ TaskStatusFor("ACTIVE") = {"IN_PROGRESS"} /\ TaskStatusFor("COMPLETED") = {"COMPLETED"}
      /\ TaskStatusFor("BREACHED") = {"FAILED"}
      /\ TaskStatusFor("TERMINATED") = {"ASSIGNED", "IN_PROGRESS"}
  BY DEF TaskStatusFor
<1>2. CASE op = "select"
  <2>1. Handler[op] = acceptBidAndCreateContract
    BY <1>2 DEF Handler
  <2>2. QED
    BY <1>1, <1>2, <2>1 DEF acceptBidAndCreateContract, ContractStatus, EndedStatus, Ending
<1>3. CASE op = "accept"
  <2>1. Handler[op] = acceptContract
    BY <1>3 DEF Handler
  <2>2. QED
    BY <1>1, <1>3, <2>1 DEF acceptContract, ContractStatus, EndedStatus, Ending
<1>4. CASE op = "activate"
  <2>1. Handler[op] = activateContract
    BY <1>4 DEF Handler
  <2>2. QED
    BY <1>1, <1>4, <2>1 DEF activateContract, ContractStatus, EndedStatus, Ending
<1>5. CASE op = "complete"
  <2>1. Handler[op] = completeContract
    BY <1>5 DEF Handler
  <2>2. QED
    BY <1>1, <1>5, <2>1 DEF completeContract, ContractStatus, EndedStatus, Ending
<1>6. CASE op = "breach"
  <2>1. Handler[op] = reportBreach
    BY <1>6 DEF Handler
  <2>2. QED
    BY <1>1, <1>6, <2>1 DEF reportBreach, ContractStatus, EndedStatus, Ending
<1>7. CASE op = "terminate"
  <2>1. Handler[op] = terminateContract
    BY <1>7 DEF Handler
  <2>2. QED
    BY <1>1, <1>7, <2>1 DEF terminateContract, ContractStatus, EndedStatus, Ending
<1>8. QED
  BY <1>2, <1>3, <1>4, <1>5, <1>6, <1>7 DEF Operation

\* The task's status and its assignee each stand on one of its contracts.
StatusStands(t) == \E c \in MadeFor(t) : task[t].status \in TaskStatusFor(contract[c].status)
AssigneeStands(t) == \E c \in MadeFor(t) : task[t].assignee = AgentOf[c]

\* How far a request has taken the rows of its task from one agreement to
\* the next.
Underway(r) ==
  LET d == ContractOf(r)
      t == TaskOf[d]
  IN
  IF At(r, "status") THEN Agreement(t)
  ELSE /\ pc[r] # "task" => StatusStands(t)
       /\ ~(call[r].op = "select" /\ pc[r] = "task") => AssigneeStands(t)
       /\ call[r].op \notin Ending => d \notin live
       /\ \A c \in Contracts \ {d} : TaskOf[c] = t => GrantsAgree(c)

FailedTask(t) == \E c \in Contracts : TaskOf[c] = t /\ Failed(c)

Accounted(t) ==
  /\ (\A r \in InFlight : TaskOf[ContractOf(r)] # t) => Agreement(t)
  /\ \A r \in InFlight : TaskOf[ContractOf(r)] = t => Underway(r)

TaskInv == \A t \in Tasks : FailedTask(t) \/ Accounted(t)

\* The status statement makes d one of its task's contracts, if it was not.
LEMMA StatusGrowsMadeFor ==
  ASSUME MaxInFlight = 1, TypeOK, SerialInv, NEW r \in Requests, Step(r), NEW t \in Tasks
  PROVE  /\ MadeFor(t) \subseteq MadeFor(t)'
         /\ \A c \in Contracts : c # ContractOf(r) => contract'[c] = contract[c]
         /\ pc[r] # "status" => contract' = contract
         /\ pc[r] = "status" => contract'[ContractOf(r)].status = HandlerOf(r).to
<1>1. /\ r \in InFlight /\ ContractOf(r) \in Contracts /\ call[r].op \in Operation
      /\ HandlerOf(r) = Handler[call[r].op]
  BY StepGoesOn
<1>2. \A c \in Contracts : c # ContractOf(r) => contract'[c] = contract[c]
  BY <1>1, StepWrites DEF WriteStatus, TypeOK
<1>3. pc[r] # "status" => contract' = contract
  BY StepWrites
<1>4. pc[r] = "status" => contract'[ContractOf(r)].status = HandlerOf(r).to
  BY <1>1, StepWrites DEF WriteStatus, TypeOK
<1>5. HandlerOf(r).to # "ABSENT"
  BY <1>1, HandlerTasks
<1>6. QED
  BY <1>2, <1>3, <1>4, <1>5 DEF MadeFor

\* One statement about d, when no request about its task has failed.
LEMMA StepAccounts ==
  ASSUME MaxInFlight = 1, TypeOK, SerialInv, StatusWritten, NEW r \in Requests, Step(r),
         NEW d, d = ContractOf(r), NEW t, t = TaskOf[d], Underway(r)
  PROVE  Accounted(t)'
<1> DEFINE op == call[r].op
           h == Handler[op]
<1>1. /\ r \in InFlight /\ call' = call /\ ContractOf(r)' = d /\ d \in Contracts
      /\ op \in Operation /\ HandlerOf(r) = h /\ HandlerOf(r)' = h
      /\ pc[r] \in DOMAIN h.next /\ pc'[r] = h.next[pc[r]]
  BY StepGoesOn
<1>2. InFlight' \subseteq {r}
  BY RunsAlone DEF RequestStep
<1>3. t \in Tasks /\ TaskOf[d] = t
  BY <1>1, ConstantsAssumption
<1>4. pc[r] = "status" => Agreement(t) /\ contract[d].status \in h.from
  BY <1>1 DEF Underway, At, SerialInv, GuardStillHolds
<1>5. /\ MadeFor(t) \subseteq MadeFor(t)'
      /\ \A c \in Contracts : c # d => contract'[c] = contract[c]
      /\ pc[r] # "status" => contract' = contract
      /\ pc[r] = "status" => contract'[d].status = h.to
  BY <1>1, <1>3, StatusGrowsMadeFor
<1> HIDE DEF h, op
<1>6. contract'[d].status = h.to
  BY <1>1, <1>5, StepWrites DEF StatusWritten, At
<1>7. d \in MadeFor(t)'
  BY <1>1, <1>3, <1>6, HandlerTasks DEF MadeFor, h
<1>8. pc[r] = "status" => (contract[d].status = "ABSENT" <=> op = "select")
  BY <1>1, <1>4, HandlerTasks DEF h
<1>9. pc[r] = "task" => /\ task'[t].status = h.task
                        /\ task'[t].assignee = IF op = "select" THEN AgentOf[d] ELSE task[t].assignee
  <2> SUFFICES ASSUME pc[r] = "task"
               PROVE  /\ task'[t].status = h.task
                      /\ task'[t].assignee = IF op = "select" THEN AgentOf[d] ELSE task[t].assignee
    OBVIOUS
  <2>1. /\ task' = [task EXCEPT ![t] = [status |-> h.task,
                      assignee |-> IF op = "select" THEN AgentOf[d] ELSE @.assignee]]
        /\ task \in [Tasks -> TaskRow]
    BY <1>1, StepWrites DEF WriteTask, TypeOK, DelegateeOf, op
  <2>2. QED
    BY <1>3, <2>1
<1>10. pc'[r] # "task" => StatusStands(t)'
  <2> SUFFICES ASSUME pc'[r] # "task" PROVE StatusStands(t)'
    OBVIOUS
  <2>1. CASE pc[r] = "status"
    <3>1. task' = task /\ op # "select"
      BY <1>1, <2>1, StepWrites, HandlerTasks DEF h
    <3>2. d \in MadeFor(t)
      BY <1>1, <1>3, <1>8, <2>1, <3>1 DEF MadeFor
    <3>3. PICK c \in MadeFor(t) : task[t].status \in TaskStatusFor(contract[c].status)
      BY <1>4, <2>1, <3>2 DEF Agreement
    <3>4. TaskStatusFor(contract[c].status) \subseteq TaskStatusFor(contract'[c].status)
      <4>1. CASE c = d
        BY <1>1, <1>4, <1>6, <2>1, <4>1, HandlerTasks DEF h
      <4>2. CASE c # d
        BY <1>5, <3>3, <4>2 DEF MadeFor
      <4>3. QED
        BY <4>1, <4>2
    <3>5. QED
      BY <1>5, <3>1, <3>3, <3>4 DEF StatusStands
  <2>2. CASE pc[r] = "task"
    BY <1>1, <1>6, <1>7, <1>9, <2>2, HandlerTasks DEF StatusStands, h
  <2>3. CASE pc[r] \notin {"status", "task"}
    <3>1. task' = task /\ contract' = contract /\ StatusStands(t)
      BY <1>3, <2>3, StepWrites DEF Underway, At
    <3>2. QED
      BY <1>5, <3>1 DEF StatusStands
  <2>4. QED
    BY <2>1, <2>2, <2>3
<1>11. ~(op = "select" /\ pc'[r] = "task") => AssigneeStands(t)'
  <2> SUFFICES ASSUME ~(op = "select" /\ pc'[r] = "task") PROVE AssigneeStands(t)'
    OBVIOUS
  <2>1. CASE pc[r] = "status"
    <3>1. task' = task /\ op # "select"
      BY <1>1, <2>1, StepWrites, HandlerTasks DEF h
    <3>2. d \in MadeFor(t)
      BY <1>1, <1>3, <1>8, <2>1, <3>1 DEF MadeFor
    <3>3. QED
      BY <1>4, <1>5, <2>1, <3>1, <3>2 DEF Agreement, AssigneeStands
  <2>2. CASE pc[r] = "task"
    <3>1. CASE op = "select"
      BY <1>7, <1>9, <2>2, <3>1 DEF AssigneeStands
    <3>2. CASE op # "select"
      <4>1. AssigneeStands(t)
        BY <1>3, <2>2, <3>2 DEF Underway, At, op
      <4>2. QED
        BY <1>5, <1>9, <2>2, <3>2, <4>1 DEF AssigneeStands
    <3>3. QED
      BY <3>1, <3>2
  <2>3. CASE pc[r] \notin {"status", "task"}
    <3>1. task' = task /\ AssigneeStands(t)
      BY <1>3, <2>3, StepWrites DEF Underway, At, op
    <3>2. QED
      BY <1>5, <3>1 DEF AssigneeStands
  <2>4. QED
    BY <2>1, <2>2, <2>3
<1>12. op \notin Ending /\ pc[r] # "grant" => d \notin live'
  <2> SUFFICES ASSUME op \notin Ending, pc[r] # "grant" PROVE d \notin live'
    OBVIOUS
  <2>1. d \notin live
    <3>1. CASE pc[r] = "status"
      BY <1>1, <1>3, <1>4, <3>1, HandlerTasks DEF Agreement, GrantsAgree, h
    <3>2. CASE pc[r] # "status"
      BY <3>2 DEF Underway, At, op
    <3>3. QED
      BY <3>1, <3>2
  <2>2. pc[r] # "revoke"
    BY <1>1, HandlerTasks DEF h
  <2>3. QED
    BY <2>1, <2>2, StepWrites
<1>13. ASSUME NEW c \in Contracts \ {d}, TaskOf[c] = t
       PROVE  GrantsAgree(c)'
  <2>1. GrantsAgree(c) /\ contract'[c] = contract[c]
    BY <1>3, <1>4, <1>5, <1>13 DEF Underway, At, Agreement
  <2>2. (\E e \in MadeFor(t) : contract[e].status \in EndedStatus)
          => \E e \in MadeFor(t)' : contract'[e].status \in EndedStatus
    <3> SUFFICES ASSUME NEW e \in MadeFor(t), contract[e].status \in EndedStatus
                 PROVE  contract'[e].status \in EndedStatus
      BY <1>5
    <3>1. CASE e = d
      <4>1. pc[r] # "status"
        BY <1>1, <1>4, <3>1, HandlerSequence DEF h
      <4>2. QED
        BY <1>5, <4>1
    <3>2. CASE e # d
      BY <1>5, <3>2 DEF MadeFor
    <3>3. QED
      BY <3>1, <3>2
  <2>3. CASE pc[r] = "revoke"
    <3>1. c \notin live'
      BY <1>13, <1>3, <2>3, StepWrites DEF Revoke
    <3>2. h.to \in EndedStatus
      BY <1>1, <2>3, HandlerTasks, HandlerOrder DEF h
    <3>3. QED
      BY <1>6, <1>7, <1>13, <3>1, <3>2 DEF GrantsAgree
  <2>4. CASE pc[r] # "revoke"
    <3>1. c \in live' <=> c \in live
      BY <1>13, <2>4, StepWrites DEF Grant
    <3>2. QED
      BY <1>13, <2>1, <2>2, <3>1 DEF GrantsAgree
  <2>5. QED
    BY <2>3, <2>4
<1>14. pc'[r] = "done" => GrantsAgree(d)'
  <2> SUFFICES ASSUME pc'[r] = "done" PROVE GrantsAgree(d)'
    OBVIOUS
  <2>1. CASE op \in Ending
    <3>1. pc[r] = "revoke"
      BY <1>1, <2>1, HandlerSequence DEF h
    <3>2. d \notin live'
      BY <3>1, StepWrites DEF Revoke
    <3>3. h.to # "ACTIVE"
      BY <1>1, <2>1, HandlerOrder DEF h, EndedStatus
    <3>4. QED
      BY <1>6, <3>2, <3>3 DEF GrantsAgree
  <2>2. CASE op = "activate"
    <3>1. pc[r] = "grant"
      BY <1>1, <2>2, HandlerTasks DEF h
    <3>2. live' = live \union ({d} \intersect Permitted)
      BY <3>1, StepWrites DEF Grant
    <3>3. h.to = "ACTIVE"
      BY <1>1, <2>2, HandlerOrder DEF h
    <3>4. QED
      BY <1>6, <3>2, <3>3 DEF GrantsAgree
  <2>3. CASE op \notin Ending /\ op # "activate"
    <3>1. pc[r] # "grant" /\ h.to # "ACTIVE"
      BY <1>1, <2>3, HandlerOrder DEF h
    <3>2. QED
      BY <1>6, <1>12, <2>3, <3>1 DEF GrantsAgree
  <2>4. QED
    BY <2>1, <2>2, <2>3
<1>15. CASE pc'[r] = "done"
  <2>1. InFlight' = {}
    BY <1>2, <1>15 DEF InFlight, Statement
  <2>2. Agreement(t)'
    BY <1>7, <1>10, <1>11, <1>13, <1>14, <1>15 DEF Agreement, StatusStands, AssigneeStands
  <2>3. QED
    BY <2>1, <2>2 DEF Accounted
<1>16. CASE pc'[r] # "done"
  <2>1. r \in InFlight' /\ pc'[r] # "status"
    <3>1. pc'[r] \in Statement \ {"status"}
      BY <1>1, <1>16, HandlerTable DEF h
    <3>2. QED
      BY <3>1 DEF InFlight
  <2>2. pc[r] # "grant"
    BY <1>1, <1>16, HandlerTasks DEF h
  <2>3. Underway(r)'
    BY <1>1, <1>3, <1>10, <1>11, <1>12, <1>13, <2>1, <2>2 DEF Underway, At, op
  <2>4. TaskOf[ContractOf(r)]' = t
    BY <1>1, <1>3
  <2>5. QED
    BY <1>2, <2>1, <2>3, <2>4 DEF Accounted
<1>17. QED
  BY <1>15, <1>16

\* Whether a task's rows agree depends on its own rows only.
LEMMA OtherTasksAgree ==
  ASSUME NEW t \in Tasks, Agreement(t), task'[t] = task[t],
         \A c \in Contracts : TaskOf[c] = t =>
           contract'[c] = contract[c] /\ (c \in live' <=> c \in live)
  PROVE  Agreement(t)'
<1>1. MadeFor(t)' = MadeFor(t)
  BY DEF MadeFor
<1>2. \A c \in MadeFor(t) : contract'[c] = contract[c]
  BY DEF MadeFor
<1>3. \A c \in Contracts : TaskOf[c] = t => GrantsAgree(c)'
  BY <1>1, <1>2 DEF Agreement, GrantsAgree
<1>4. QED
  BY <1>1, <1>2, <1>3 DEF Agreement

LEMMA StepTaskInv ==
  ASSUME MaxInFlight = 1, TypeOK, SerialInv, StatusWritten, TaskInv,
         NEW r \in Requests, RequestStep(r)
  PROVE  TaskInv'
<1> SUFFICES ASSUME NEW t \in Tasks, ~FailedTask(t)'
             PROVE  Accounted(t)'
  BY DEF TaskInv
<1>1. ~FailedTask(t)
  <2> SUFFICES ASSUME NEW c \in Contracts, TaskOf[c] = t,
                      NEW q \in Admitted, At(q, "failed"), ContractOf(q) = c
               PROVE  FailedTask(t)'
    BY DEF FailedTask, Failed
  <2>1. ~At(r, "failed")
    BY DEF RequestStep, Step, Fail, Begin, WriteStatus, WriteTask, Grant, RecordPenalty,
           RecordLedger, ReadAgent, WriteAgent, Revoke, At, Statement
  <2>2. q \in Requests \ {r}
    BY <2>1 DEF Admitted
  <2>3. Failed(c)'
    BY <2>2, Frame DEF Failed, Admitted, At, ContractOf
  <2>4. QED
    BY <2>3 DEF FailedTask
<1>2. Accounted(t)
  BY <1>1 DEF TaskInv
<1>3. CASE Step(r)
  <2> DEFINE d == ContractOf(r)
  <2>1. r \in InFlight /\ ContractOf(r)' = d /\ d \in Contracts
    BY <1>3, StepGoesOn
  <2>2. CASE t = TaskOf[d]
    BY <1>2, <1>3, <2>1, <2>2, StepAccounts DEF Accounted
  <2>3. CASE t # TaskOf[d]
    <3>1. Agreement(t)
      BY <1>2, <2>1, <2>3, RunsAlone DEF Accounted
    <3>2. \A c \in Contracts : TaskOf[c] = t => contract'[c] = contract[c]
      BY <1>3, <2>3, StepWrites DEF WriteStatus, TypeOK
    <3>3. task'[t] = task[t]
      BY <1>3, <2>3, StepWrites DEF WriteTask, TypeOK
    <3>4. \A c \in Contracts : TaskOf[c] = t => (c \in live' <=> c \in live)
      BY <1>3, <2>3, StepWrites DEF Grant, Revoke
    <3>5. \A q \in InFlight' : TaskOf[ContractOf(q)'] # t
      BY <2>1, <2>3, RunsAlone
    <3>6. Agreement(t)'
      BY <3>1, <3>2, <3>3, <3>4, OtherTasksAgree
    <3>7. QED
      BY <3>5, <3>6 DEF Accounted
  <2>4. QED
    BY <2>2, <2>3
<1>4. CASE Fail(r)
  <2>1. db' = db /\ call' = call /\ pc' = [pc EXCEPT ![r] = "failed"] /\ r \in InFlight
    BY <1>4 DEF Fail, InFlight
  <2>2. ContractOf(r) \in Contracts
    BY <2>1 DEF TypeOK, Call, ContractOf, InFlight, Admitted, Statement
  <2>3. TaskOf[ContractOf(r)] # t
    BY <2>1, <2>2 DEF FailedTask, Failed, Admitted, At, ContractOf, TypeOK, InFlight
  <2>4. Agreement(t)
    BY <1>2, <2>3, RunsAlone DEF Accounted
  <2>5. InFlight' = {}
    BY <2>1, RunsAlone DEF InFlight, TypeOK, Statement
  <2>6. Agreement(t)'
    BY <2>1, <2>4, OtherTasksAgree DEF db
  <2>7. QED
    BY <2>5, <2>6 DEF Accounted
<1>5. ASSUME NEW op \in Operation, NEW e \in Contracts, NEW severity \in Severable(op),
             Begin(r, op, e, severity)
      PROVE  Accounted(t)'
  <2>1. db' = db /\ InFlight = {} /\ InFlight' \subseteq {r}
    BY <1>5, RunsAlone, NobodyInFlight DEF Begin
  <2>2. Agreement(t)
    BY <1>2, <2>1 DEF Accounted
  <2>3. Agreement(t)'
    BY <2>1, <2>2, OtherTasksAgree DEF db
  <2>4. r \in InFlight' => At(r, "status")'
    BY <1>5 DEF Begin, InFlight, TypeOK, Statement, At
  <2>5. QED
    BY <2>1, <2>3, <2>4 DEF Accounted, Underway
<1>6. QED
  BY <1>3, <1>4, <1>5 DEF RequestStep

LEMMA InitTaskInv == Init => TaskInv
<1> SUFFICES ASSUME Init, NEW t \in Tasks PROVE Accounted(t)
  BY DEF TaskInv
<1>1. InFlight = {}
  BY DEF Init, InFlight, Statement
<1>2. Opened \subseteq Contracts
  BY ConstantsAssumption
<1>3. \A c \in Contracts : /\ contract[c].status = IF c \in Opened THEN "ACTIVE" ELSE "ABSENT"
                           /\ c \in live <=> c \in Opened /\ c \in Permitted
  BY DEF Init
<1>4. MadeFor(t) = {c \in Opened : TaskOf[c] = t}
  BY <1>2, <1>3 DEF MadeFor
<1>5. \A c \in Contracts : GrantsAgree(c)
  BY <1>3 DEF GrantsAgree
<1>6. PICK unassigned \in {"PENDING", "BIDDING"} :
        task[t] = IF \E d \in Opened : TaskOf[d] = t
                  THEN [status |-> "IN_PROGRESS", assignee |-> AgentOf[CHOOSE d \in Opened : TaskOf[d] = t]]
                  ELSE [status |-> unassigned, assignee |-> NoAgent]
  BY DEF Init
<1>7. CASE \E d \in Opened : TaskOf[d] = t
  <2> DEFINE d == CHOOSE d \in Opened : TaskOf[d] = t
  <2>1. d \in MadeFor(t)
    BY <1>4, <1>7
  <2>2. contract[d].status = "ACTIVE"
    BY <1>2, <1>3, <1>4, <2>1
  <2>3. task[t].status = "IN_PROGRESS" /\ task[t].assignee = AgentOf[d]
    BY <1>6, <1>7
  <2> HIDE DEF d
  <2>4. task[t].status \in TaskStatusFor(contract[d].status)
    BY <2>2, <2>3 DEF TaskStatusFor
  <2>5. QED
    BY <1>1, <1>5, <2>1, <2>3, <2>4 DEF Accounted, Agreement
<1>8. CASE ~\E d \in Opened : TaskOf[d] = t
  BY <1>1, <1>4, <1>5, <1>6, <1>8 DEF Accounted, Agreement
<1>9. QED
  BY <1>7, <1>8

LEMMA NextTaskInv ==
  ASSUME MaxInFlight = 1
  PROVE  TypeOK /\ SerialInv /\ SettledInv /\ TaskInv /\ [Next]_vars => TaskInv'
<1> SUFFICES ASSUME TypeOK, SerialInv, SettledInv, TaskInv, [Next]_vars PROVE TaskInv'
  OBVIOUS
<1>1. CASE Next
  BY <1>1, StepTaskInv DEF Next, RequestStep, SettledInv
<1>2. CASE UNCHANGED vars
  BY <1>2 DEF vars, TaskInv, FailedTask, Failed, Accounted, Underway, Agreement, StatusStands,
              AssigneeStands, GrantsAgree, MadeFor, InFlight, Admitted, At, ContractOf
<1>3. QED
  BY <1>1, <1>2

LEMMA AccountedTasksAgree == TypeOK /\ TaskInv => TaskAgrees
<1> SUFFICES ASSUME TypeOK, TaskInv, NEW t \in Tasks, \A c \in Contracts : TaskOf[c] = t => ~Concerned(c)
             PROVE  Agreement(t)
  BY DEF TaskAgrees
<1>1. ~FailedTask(t)
  BY DEF FailedTask, Concerned, Failed
<1>2. \A r \in InFlight : TaskOf[ContractOf(r)] = t => FALSE
  BY DEF TypeOK, Call, ContractOf, Concerned, InFlight, Admitted, Statement
<1>3. QED
  BY <1>1, <1>2 DEF TaskInv, Accounted

\* One request at a time: task, assignee and grants agree with the contracts
\* made for the task, however many, except for a request that is under way
\* or has failed.
THEOREM SerialTaskAgrees ==
  ASSUME MaxInFlight = 1
  PROVE  Spec => []TaskAgrees
<1>1. TypeOK /\ TaskInv => TaskAgrees
  BY AccountedTasksAgree
<1>2. QED
  BY <1>1, InitTaskInv, NextTaskInv, TypeCorrect, SerialInvariant, SettledInvariant, PTL DEF Spec

----------------------------------------------------------------------------
(* Sums over sets of penalties.  MapThenSumSet is a function defined by    *)
(* recursion on finite sets, an arbitrary element at a time: that there is *)
(* such a function, that it is the same whatever larger set it is defined  *)
(* on, and that it does not matter which element comes first, is proved by *)
(* induction on cardinalities.                                             *)

\* Induction over the naturals, for a predicate given as a set.
LEMMA InductionOnNat ==
  ASSUME NEW Good, 0 \in Good, \A n \in Nat : n \in Good => n + 1 \in Good
  PROVE  Nat \subseteq Good
<1> DEFINE Bad == Nat \ Good
           Less == OpToRel(<, Nat)
<1> SUFFICES ASSUME Bad # {} PROVE FALSE
  OBVIOUS
<1>1. IsWellFoundedOn(Less, Nat)
  BY NatLessThanWellFounded
<1>2. PICK n \in Bad : \A m \in Bad : ~ (<<m, n>> \in Less)
  <2> HIDE DEF Less
  <2>1. QED
    BY <1>1, WFMin
<1>3. n # 0 /\ n - 1 \in Nat /\ n - 1 \notin Good
  OBVIOUS
<1>4. <<n - 1, n>> \in Less
  BY <1>3 DEF OpToRel
<1>5. QED
  BY <1>2, <1>3, <1>4

Impact(p) == ReputationImpact(p.severity)
SumOf(S) == MapThenSumSet(LAMBDA p : ReputationImpact(p.severity), S)

AnyOf(s) == CHOOSE p \in s : TRUE

\* f sums up every subset of S ...
Sums(f, S) == f = [s \in SUBSET S |-> IF s = {} THEN 0 ELSE Impact(AnyOf(s)) + f[s \ {AnyOf(s)}]]
\* ... or at least those of at most n elements.
UpTo(n, S) == {s \in SUBSET S : Cardinality(s) <= n}
SumsUpTo(n, f, S) == /\ f \in [UpTo(n, S) -> Nat]
                     /\ \A s \in UpTo(n, S) :
                          f[s] = IF s = {} THEN 0 ELSE Impact(AnyOf(s)) + f[s \ {AnyOf(s)}]

\* One element less.
LEMMA Smaller ==
  ASSUME NEW S, IsFiniteSet(S), NEW x \in S
  PROVE  /\ IsFiniteSet(S \ {x}) /\ Cardinality(S \ {x}) = Cardinality(S) - 1
         /\ Cardinality(S) \in Nat /\ Cardinality(S \ {x}) \in Nat
  BY FS_RemoveElement, FS_CardinalityType

LEMMA AnyOfIsIn == ASSUME NEW s, s # {} PROVE AnyOf(s) \in s
  BY DEF AnyOf

LEMMA SumsExtend ==
  ASSUME NEW S, IsFiniteSet(S), NEW n \in Nat, NEW f, SumsUpTo(n, f, S)
  PROVE  \E g : SumsUpTo(n + 1, g, S)
<1> DEFINE g == [s \in UpTo(n + 1, S) |-> IF s = {} THEN 0 ELSE Impact(AnyOf(s)) + f[s \ {AnyOf(s)}]]
<1>1. ASSUME NEW s \in UpTo(n + 1, S), s # {}
      PROVE  s \ {AnyOf(s)} \in UpTo(n, S)
  <2>1. s \subseteq S /\ IsFiniteSet(s) /\ Cardinality(s) <= n + 1
    BY FS_Subset DEF UpTo
  <2>2. QED
    BY <1>1, <2>1, AnyOfIsIn, Smaller DEF UpTo
<1>2. \A s \in UpTo(n, S) : s \in UpTo(n + 1, S)
  <2>1. ASSUME NEW s \in UpTo(n, S) PROVE s \in UpTo(n + 1, S)
    <3>1. Cardinality(s) \in Nat
      BY FS_Subset, FS_CardinalityType DEF UpTo
    <3>2. QED
      BY <3>1 DEF UpTo
  <2>2. QED
    BY <2>1
<1>3. \A s \in UpTo(n, S) : g[s] = f[s]
  BY <1>2 DEF SumsUpTo
<1>4. \A s \in UpTo(n + 1, S) : g[s] \in Nat
  <2>1. \A s \in UpTo(n + 1, S) : s # {} => f[s \ {AnyOf(s)}] \in Nat
    BY <1>1 DEF SumsUpTo
  <2>2. \A s \in UpTo(n + 1, S) : Impact(AnyOf(s)) \in Nat
    BY ImpactNat DEF Impact
  <2>3. QED
    BY <2>1, <2>2
<1>5. ASSUME NEW s \in UpTo(n + 1, S)
      PROVE  g[s] = IF s = {} THEN 0 ELSE Impact(AnyOf(s)) + g[s \ {AnyOf(s)}]
  BY <1>1, <1>3
<1>6. g \in [UpTo(n + 1, S) -> Nat]
  BY <1>4
<1> HIDE DEF g
<1>7. QED
  BY <1>5, <1>6 DEF SumsUpTo

LEMMA SumsExist ==
  ASSUME NEW S, IsFiniteSet(S)
  PROVE  \E f : Sums(f, S) /\ f \in [SUBSET S -> Nat]
<1> DEFINE Good == {n \in Nat : \E f : SumsUpTo(n, f, S)}
<1>1. 0 \in Good
  <2> DEFINE f == [s \in UpTo(0, S) |-> 0]
  <2>1. \A s \in UpTo(0, S) : s = {}
    BY FS_Subset, FS_EmptySet, FS_CardinalityType DEF UpTo
  <2>2. SumsUpTo(0, f, S)
    BY <2>1 DEF SumsUpTo
  <2>3. QED
    BY <2>2
<1>2. \A n \in Nat : n \in Good => n + 1 \in Good
  BY SumsExtend
<1> HIDE DEF Good
<1>3. Cardinality(S) \in Good
  BY <1>1, <1>2, InductionOnNat, FS_CardinalityType
<1>4. PICK f : SumsUpTo(Cardinality(S), f, S)
  BY <1>3 DEF Good
<1>5. UpTo(Cardinality(S), S) = SUBSET S
  BY FS_Subset DEF UpTo
<1>6. f \in [SUBSET S -> Nat]
  BY <1>4, <1>5 DEF SumsUpTo
<1>7. \A s \in SUBSET S : f[s] = IF s = {} THEN 0 ELSE Impact(AnyOf(s)) + f[s \ {AnyOf(s)}]
  BY <1>4, <1>5 DEF SumsUpTo
<1>8. QED
  BY <1>6, <1>7 DEF Sums

\* What a function sums up to does not depend on what else it sums up.
LEMMA SumsAgree ==
  ASSUME NEW S, NEW T, NEW f, NEW g, Sums(f, S), Sums(g, T),
         NEW U, U \subseteq S, U \subseteq T, IsFiniteSet(U)
  PROVE  f[U] = g[U]
<1> DEFINE Good == {n \in Nat : \A s \in SUBSET (S \intersect T) :
                      IsFiniteSet(s) /\ Cardinality(s) = n => f[s] = g[s]}
<1>1. \A s \in SUBSET S : f[s] = IF s = {} THEN 0 ELSE Impact(AnyOf(s)) + f[s \ {AnyOf(s)}]
  BY DEF Sums
<1>2. \A s \in SUBSET T : g[s] = IF s = {} THEN 0 ELSE Impact(AnyOf(s)) + g[s \ {AnyOf(s)}]
  BY DEF Sums
<1>3. 0 \in Good
  <2>1. ASSUME NEW s \in SUBSET (S \intersect T), IsFiniteSet(s), Cardinality(s) = 0
        PROVE  f[s] = g[s]
    <3>1. s = {}
      BY <2>1, FS_EmptySet
    <3>2. QED
      BY <1>1, <1>2, <3>1
  <2>2. QED
    BY <2>1
<1>4. ASSUME NEW n \in Nat, n \in Good
      PROVE  n + 1 \in Good
  <2>1. ASSUME NEW s \in SUBSET (S \intersect T), IsFiniteSet(s), Cardinality(s) = n + 1
        PROVE  f[s] = g[s]
    <3>1. s # {} /\ AnyOf(s) \in s
      BY <2>1, FS_EmptySet, AnyOfIsIn
    <3> DEFINE rest == s \ {AnyOf(s)}
    <3>2. IsFiniteSet(rest) /\ Cardinality(rest) = n
      BY <2>1, <3>1, Smaller
    <3>3. f[rest] = g[rest]
      BY <1>4, <3>2
    <3>4. QED
      BY <1>1, <1>2, <3>1, <3>3
  <2>2. QED
    BY <2>1
<1> HIDE DEF Good
<1>5. Cardinality(U) \in Good
  BY <1>3, <1>4, InductionOnNat, FS_CardinalityType
<1>6. QED
  BY <1>5 DEF Good

\* SumOf is what any such function makes of the set.
LEMMA SumOfIsASum ==
  ASSUME NEW S, IsFiniteSet(S)
  PROVE  \A T : \A f : S \subseteq T /\ Sums(f, T) => SumOf(S) = f[S]
<1> DEFINE h == CHOOSE f : Sums(f, S)
<1>1. Sums(h, S)
  BY SumsExist
<1>2. SumOf(S) = h[S]
  BY DEF SumOf, MapThenSumSet, MapThenFoldSet, Sums, Impact, AnyOf
<1> HIDE DEF h
<1>3. QED
  BY <1>1, <1>2, SumsAgree

\* Any element may be taken out first.
LEMMA SumOfRest ==
  ASSUME NEW S, IsFiniteSet(S), NEW x \in S
  PROVE  SumOf(S) = Impact(x) + SumOf(S \ {x})
<1>1. PICK f : Sums(f, S) /\ f \in [SUBSET S -> Nat]
  BY SumsExist
<1> DEFINE Good == {n \in Nat : \A s \in SUBSET S : Cardinality(s) = n =>
                      \A y \in s : f[s] = Impact(y) + f[s \ {y}]}
<1>2. \A s \in SUBSET S : f[s] = IF s = {} THEN 0 ELSE Impact(AnyOf(s)) + f[s \ {AnyOf(s)}]
  BY <1>1 DEF Sums
<1>3. 0 \in Good
  BY FS_Subset, FS_EmptySet
<1>4. ASSUME NEW n \in Nat, n \in Good
      PROVE  n + 1 \in Good
  <2>1. ASSUME NEW s \in SUBSET S, Cardinality(s) = n + 1, NEW y \in s
        PROVE  f[s] = Impact(y) + f[s \ {y}]
    <3> DEFINE z == AnyOf(s)
               both == (s \ {y}) \ {z}
    <3>1. z \in s /\ f[s] = Impact(z) + f[s \ {z}]
      BY <1>2, AnyOfIsIn
    <3>2. IsFiniteSet(s)
      BY FS_Subset
    <3>3. \A v \in s : s \ {v} \in SUBSET S /\ Cardinality(s \ {v}) = n
      BY <2>1, <3>2, Smaller
    <3> HIDE DEF z
    <3>4. CASE y = z
      BY <3>1, <3>4
    <3>5. CASE y # z
      <4>1. f[s \ {z}] = Impact(y) + f[(s \ {z}) \ {y}]
        BY <1>4, <3>1, <3>3, <3>5
      <4>2. f[s \ {y}] = Impact(z) + f[both]
        BY <1>4, <3>1, <3>3, <3>5
      <4>3. (s \ {z}) \ {y} = both
        OBVIOUS
      <4>4. Impact(y) \in Nat /\ Impact(z) \in Nat /\ f[both] \in Nat
        BY <1>1, ImpactNat DEF Impact
      <4>5. f[s] = Impact(z) + (Impact(y) + f[both])
        BY <3>1, <4>1, <4>3
      <4> HIDE DEF both
      <4>6. QED
        BY <4>2, <4>4, <4>5
    <3>6. QED
      BY <3>4, <3>5
  <2>2. QED
    BY <2>1
<1> HIDE DEF Good
<1>5. Cardinality(S) \in Good
  BY <1>3, <1>4, InductionOnNat, FS_CardinalityType
<1>6. f[S] = Impact(x) + f[S \ {x}]
  BY <1>5 DEF Good
<1>7. SumOf(S) = f[S] /\ SumOf(S \ {x}) = f[S \ {x}]
  BY <1>1, Smaller, SumOfIsASum
<1>8. QED
  BY <1>6, <1>7

LEMMA SumOfType ==
  ASSUME NEW S, IsFiniteSet(S)
  PROVE  SumOf(S) \in Nat
<1>1. PICK f : Sums(f, S) /\ f \in [SUBSET S -> Nat]
  BY SumsExist
<1>2. QED
  BY <1>1, SumOfIsASum

LEMMA SumOfNone == SumOf({}) = 0
<1>1. PICK f : Sums(f, {}) /\ f \in [SUBSET {} -> Nat]
  BY SumsExist, FS_EmptySet
<1>2. SumOf({}) = f[{}]
  BY <1>1, SumOfIsASum, FS_EmptySet
<1>3. QED
  BY <1>1, <1>2 DEF Sums

LEMMA SumOfOneMore ==
  ASSUME NEW S, IsFiniteSet(S), NEW x, x \notin S
  PROVE  SumOf(S \union {x}) = SumOf(S) + Impact(x)
<1>1. IsFiniteSet(S \union {x}) /\ (S \union {x}) \ {x} = S
  BY FS_AddElement
<1>2. SumOf(S \union {x}) = Impact(x) + SumOf(S)
  BY <1>1, SumOfRest
<1>3. Impact(x) \in Nat /\ SumOf(S) \in Nat
  BY SumOfType, ImpactNat DEF Impact
<1>4. QED
  BY <1>2, <1>3

\* More penalties sum up to no less.
LEMMA SumOfMore ==
  ASSUME NEW S, IsFiniteSet(S), NEW T, T \subseteq S
  PROVE  SumOf(T) <= SumOf(S)
<1> DEFINE Good == {n \in Nat : \A s \in SUBSET S : T \subseteq s /\ Cardinality(s) = n =>
                      SumOf(T) <= SumOf(s)}
<1>1. \A s \in SUBSET S : IsFiniteSet(s) /\ SumOf(s) \in Nat
  BY FS_Subset, SumOfType
<1>2. 0 \in Good
  <2>1. ASSUME NEW s \in SUBSET S, T \subseteq s, Cardinality(s) = 0
        PROVE  SumOf(T) <= SumOf(s)
    <3>1. s = {} /\ T = s
      BY <1>1, <2>1, FS_EmptySet
    <3>2. QED
      BY <1>1, <3>1
  <2>2. QED
    BY <2>1
<1>3. ASSUME NEW n \in Nat, n \in Good
      PROVE  n + 1 \in Good
  <2>1. ASSUME NEW s \in SUBSET S, T \subseteq s, Cardinality(s) = n + 1
        PROVE  SumOf(T) <= SumOf(s)
    <3>1. CASE T = s
      BY <1>1, <3>1
    <3>2. ASSUME NEW x \in s, x \notin T
          PROVE  SumOf(T) <= SumOf(s)
      <4>1. SumOf(s) = Impact(x) + SumOf(s \ {x}) /\ Cardinality(s \ {x}) = n
        BY <1>1, <2>1, Smaller, SumOfRest
      <4>2. SumOf(T) <= SumOf(s \ {x})
        BY <1>3, <2>1, <3>2, <4>1
      <4>3. Impact(x) \in Nat /\ SumOf(T) \in Nat /\ SumOf(s \ {x}) \in Nat
        BY <1>1, ImpactNat DEF Impact
      <4>4. QED
        BY <4>1, <4>2, <4>3
    <3>3. QED
      BY <2>1, <3>1, <3>2
  <2>2. QED
    BY <2>1
<1> HIDE DEF Good
<1>4. Cardinality(S) \in Good
  BY <1>2, <1>3, InductionOnNat, FS_CardinalityType
<1>5. QED
  BY <1>4 DEF Good

----------------------------------------------------------------------------
(* Charges.  A penalty that is on record is charged at most once, by the   *)
(* report that recorded it: what was charged is bounded by the penalties   *)
(* of reports that are past that, or failed, and those are on record.      *)

\* Where the report's penalty is on record and not yet charged.
Pending == {"ledger", "readAgent", "writeAgent"}
Charged == {"revoke", "done", "failed"}

PenaltyRow(r) == [request |-> r, contract |-> ContractOf(r), severity |-> call[r].severity]

PenaltyInv ==
  /\ IsFiniteSet(penalties)
  /\ \A p \in penalties : /\ call[p.request].op = "breach" /\ p = PenaltyRow(p.request)
                          /\ pc[p.request] \in Pending \union Charged
  /\ \A r \in InFlight : call[r].op = "breach" /\ pc[r] \in Pending => PenaltyRow(r) \in penalties

Applied(a) == {p \in PenaltiesOf(a) : pc[p.request] \notin Pending}

ChargesWithinApplied == \A a \in Agents : charged[a] <= SumOf(Applied(a))

\* What a breach report does at each statement.
LEMMA BreachOrder ==
  /\ reportBreach.next["status"] = "task" /\ reportBreach.next["task"] = "penalty"
  /\ reportBreach.next["penalty"] = "ledger" /\ reportBreach.next["ledger"] = "readAgent"
  /\ reportBreach.next["readAgent"] = "writeAgent" /\ reportBreach.next["writeAgent"] = "revoke"
  /\ reportBreach.next["revoke"] = "done"
  /\ Handler["breach"] = reportBreach
  /\ DOMAIN reportBreach.next = {"status", "task", "penalty", "ledger", "readAgent", "writeAgent", "revoke"}
  BY DEF reportBreach, Handler

\* Only recording a penalty and writing a score touch what the charges are
\* compared with.
LEMMA StepFrame ==
  ASSUME TypeOK, NEW r \in Requests, RequestStep(r)
  PROVE  /\ ~RecordPenalty(r) => penalties' = penalties
         /\ ~WriteAgent(r) => charged' = charged /\ agent' = agent
  BY DEF RequestStep, Step, Begin, Fail, WriteStatus, WriteTask, Grant, RecordLedger, ReadAgent,
         RecordPenalty, WriteAgent, Revoke, db

\* A request whose penalty is on record only moves on.
LEMMA PenalisedGoesOn ==
  ASSUME TypeOK, NEW r \in Requests, RequestStep(r), call[r].op = "breach",
         pc[r] \in Pending \union Charged
  PROVE  /\ call'[r] = call[r] /\ PenaltyRow(r)' = PenaltyRow(r)
         /\ pc'[r] \in Pending \union Charged
         /\ pc[r] \in Charged => pc'[r] \in Charged
         /\ pc'[r] \in Pending => pc[r] \in Pending
         /\ Step(r) /\ pc'[r] \notin Pending /\ pc[r] \in Pending => WriteAgent(r)
         /\ WriteAgent(r) => pc[r] \in Pending /\ pc'[r] \notin Pending
         /\ ~RecordPenalty(r)
<1>1. CASE Step(r)
  <2>1. /\ call' = call /\ pc[r] \in DOMAIN reportBreach.next /\ pc'[r] = reportBreach.next[pc[r]]
    BY <1>1, StepGoesOn, BreachOrder
  <2>2. WriteAgent(r) => pc[r] = "writeAgent"
    BY DEF WriteAgent, At
  <2>3. pc[r] = "writeAgent" => WriteAgent(r)
    BY <1>1, StepWrites
  <2>4. RecordPenalty(r) => pc[r] = "penalty"
    BY DEF RecordPenalty, At
  <2>5. QED
    BY <1>1, <2>1, <2>2, <2>3, <2>4, BreachOrder DEF Pending, Charged, PenaltyRow, ContractOf
<1>2. CASE Fail(r)
  <2>1. call' = call /\ pc'[r] = "failed" /\ penalties' = penalties /\ pc[r] \in Statement
    BY <1>2 DEF Fail, TypeOK, db
  <2>2. ~Step(r) /\ ~WriteAgent(r) /\ ~RecordPenalty(r)
    <3>1. Step(r) => pc'[r] \in {"task", "penalty", "ledger", "readAgent", "writeAgent", "revoke", "done"}
      BY StepGoesOn, BreachOrder
    <3>2. QED
      BY <2>1, <3>1 DEF Step
  <2>3. QED
    BY <2>1, <2>2 DEF Pending, Charged, PenaltyRow, ContractOf
<1>3. CASE \E op \in Operation, c \in Contracts : \E severity \in Severable(op) :
             Begin(r, op, c, severity)
  BY <1>3 DEF Begin, At, Pending, Charged
<1>4. QED
  BY <1>1, <1>2, <1>3 DEF RequestStep

LEMMA PenaltyTypes ==
  ASSUME TypeOK, PenaltyInv, NEW p \in penalties
  PROVE  p.request \in Requests /\ p.contract \in Contracts /\ AgentOf[p.contract] \in Agents
  BY ConstantsAssumption DEF TypeOK

LEMMA PenaltyInvStep ==
  ASSUME TypeOK, PenaltyInv, NEW r \in Requests, RequestStep(r)
  PROVE  PenaltyInv'
<1>1. ASSUME NEW q \in Requests, call[q].op = "breach", pc[q] \in Pending \union Charged
      PROVE  /\ call'[q].op = "breach" /\ PenaltyRow(q)' = PenaltyRow(q)
             /\ pc'[q] \in Pending \union Charged
  BY <1>1, Frame, PenalisedGoesOn DEF PenaltyRow, ContractOf
<1>2. \A p \in penalties : /\ call'[p.request].op = "breach" /\ p = PenaltyRow(p.request)'
                           /\ pc'[p.request] \in Pending \union Charged
  BY <1>1, PenaltyTypes DEF PenaltyInv
<1>3. ASSUME NEW q \in InFlight', call'[q].op = "breach", pc'[q] \in Pending, ~RecordPenalty(r)
      PROVE  PenaltyRow(q)' \in penalties
  <2>1. q \in Requests
    BY DEF InFlight
  <2>2. CASE q # r
    BY <1>3, <2>1, <2>2, Frame DEF PenaltyInv, PenaltyRow, ContractOf, InFlight
  <2>3. CASE q = r
    <3>1. Step(r)
      BY <1>3, <2>3 DEF RequestStep, Begin, Fail, TypeOK, Pending
    <3>2. /\ r \in InFlight /\ call[r].op = "breach" /\ PenaltyRow(r)' = PenaltyRow(r)
          /\ pc[r] \in DOMAIN reportBreach.next /\ pc'[r] = reportBreach.next[pc[r]]
      BY <1>3, <2>3, <3>1, StepGoesOn, BreachOrder DEF PenaltyRow, ContractOf
    <3>3. pc[r] # "penalty"
      BY <1>3, <3>1 DEF Step, WriteStatus, WriteTask, Grant, RecordLedger, ReadAgent, WriteAgent,
                        Revoke, At
    <3>4. pc[r] \in Pending
      BY <1>3, <2>3, <3>2, <3>3, BreachOrder DEF Pending
    <3>5. QED
      BY <2>3, <3>2, <3>4 DEF PenaltyInv
  <2>4. QED
    BY <2>2, <2>3
<1>4. CASE ~RecordPenalty(r)
  BY <1>2, <1>3, <1>4, StepFrame DEF PenaltyInv
<1>5. CASE RecordPenalty(r)
  <2>1. /\ Step(r) /\ r \in InFlight /\ pc[r] = "penalty" /\ call' = call
        /\ PenaltyRow(r)' = PenaltyRow(r)
        /\ penalties' = penalties \union {PenaltyRow(r)}
    BY <1>5 DEF RecordPenalty, Step, At, InFlight, Statement, PenaltyRow, ContractOf
  <2>2. call[r].op = "breach" /\ pc'[r] = "ledger"
    <3>1. call[r].op \in Operation /\ "penalty" \in DOMAIN HandlerOf(r).next
      BY <2>1, StepGoesOn
    <3>2. QED
      BY <2>1, <3>1, HandlerTable, StepGoesOn, BreachOrder DEF HandlerOf
  <2>3. PenaltyRow(r).request = r
    BY DEF PenaltyRow
  <2>4. IsFiniteSet(penalties')
    BY <2>1, FS_AddElement DEF PenaltyInv
  <2>5. \A p \in penalties' : /\ call'[p.request].op = "breach" /\ p = PenaltyRow(p.request)'
                              /\ pc'[p.request] \in Pending \union Charged
    BY <1>2, <2>1, <2>2, <2>3 DEF Pending
  <2>6. \A q \in InFlight' : call'[q].op = "breach" /\ pc'[q] \in Pending => PenaltyRow(q)' \in penalties'
    <3>1. ASSUME NEW q \in InFlight', call'[q].op = "breach", pc'[q] \in Pending, q # r
          PROVE  PenaltyRow(q)' \in penalties
      <4>1. q \in InFlight /\ pc[q] = pc'[q] /\ call[q] = call'[q]
        BY <3>1, Frame DEF InFlight
      <4>2. QED
        BY <3>1, <4>1 DEF PenaltyInv, PenaltyRow, ContractOf
    <3>2. QED
      BY <2>1, <3>1
  <2>7. QED
    BY <2>4, <2>5, <2>6 DEF PenaltyInv
<1>6. QED
  BY <1>4, <1>5

\* What was applied stays so, and only the write of a score applies more
\* than it would if it failed.
LEMMA AppliedGrows ==
  ASSUME TypeOK, PenaltyInv, NEW r \in Requests, RequestStep(r), NEW a
  PROVE  /\ IsFiniteSet(Applied(a)) /\ IsFiniteSet(Applied(a)')
         /\ Applied(a) \subseteq Applied(a)'
<1>1. PenaltyInv'
  BY PenaltyInvStep
<1>2. Applied(a) \subseteq penalties /\ Applied(a)' \subseteq penalties'
  BY DEF Applied, PenaltiesOf
<1>3. IsFiniteSet(Applied(a)) /\ IsFiniteSet(Applied(a)')
  BY <1>1, <1>2, FS_Subset DEF PenaltyInv
<1>4. ASSUME NEW p \in Applied(a)
      PROVE  p \in Applied(a)'
  <2>1. /\ p \in penalties /\ AgentOf[p.contract] = a /\ p.request \in Requests
        /\ call[p.request].op = "breach" /\ pc[p.request] \in Charged
    BY <1>4, PenaltyTypes DEF Applied, PenaltiesOf, PenaltyInv
  <2>2. pc'[p.request] \notin Pending
    BY <2>1, Frame, PenalisedGoesOn DEF Pending, Charged
  <2>3. QED
    BY <2>1, <2>2, Frame DEF Applied, PenaltiesOf
<1>5. QED
  BY <1>3, <1>4

\* The write of a score applies the penalty of its own report.
LEMMA WriteApplies ==
  ASSUME TypeOK, PenaltyInv, NEW r \in Requests, WriteAgent(r)
  PROVE  /\ r \in InFlight /\ call[r].op = "breach" /\ DelegateeOf(r) \in Agents
         /\ \A b \in Agents : Applied(b)' = IF b = DelegateeOf(r) THEN Applied(b) \union {PenaltyRow(r)}
                                                                 ELSE Applied(b)
         /\ PenaltyRow(r) \notin Applied(DelegateeOf(r))
         /\ Impact(PenaltyRow(r)) = ReputationImpact(call[r].severity)
<1>1. /\ Step(r) /\ pc[r] = "writeAgent" /\ r \in InFlight /\ penalties' = penalties
      /\ RequestStep(r)
  BY DEF WriteAgent, Step, At, InFlight, Statement, RequestStep
<1>2. call[r].op = "breach" /\ ContractOf(r) \in Contracts
  BY <1>1, StepGoesOn, HandlerTable
<1>3. DelegateeOf(r) \in Agents
  BY <1>2, ConstantsAssumption DEF DelegateeOf
<1>4. PenaltyRow(r) \in penalties
  BY <1>1, <1>2 DEF PenaltyInv, Pending
<1>5. /\ PenaltyRow(r).request = r /\ AgentOf[PenaltyRow(r).contract] = DelegateeOf(r)
      /\ Impact(PenaltyRow(r)) = ReputationImpact(call[r].severity)
  BY DEF PenaltyRow, DelegateeOf, Impact
<1>6. pc'[r] = "revoke"
  BY <1>1, <1>2, StepGoesOn, BreachOrder
<1>7. ASSUME NEW p \in penalties
      PROVE  pc'[p.request] \notin Pending <=> pc[p.request] \notin Pending \/ p = PenaltyRow(r)
  <2>1. p = PenaltyRow(p.request) /\ p.request \in Requests
    BY PenaltyTypes DEF PenaltyInv
  <2>2. CASE p.request = r
    BY <1>6, <2>1, <2>2 DEF Pending
  <2>3. CASE p.request # r
    BY <1>1, <1>5, <2>1, <2>3, Frame
  <2>4. QED
    BY <2>2, <2>3
<1>8. ASSUME NEW b \in Agents
      PROVE  Applied(b)' = IF b = DelegateeOf(r) THEN Applied(b) \union {PenaltyRow(r)} ELSE Applied(b)
  BY <1>1, <1>4, <1>5, <1>7 DEF Applied, PenaltiesOf
<1>9. PenaltyRow(r) \notin Applied(DelegateeOf(r))
  BY <1>1, <1>5 DEF Applied, Pending
<1>10. QED
  BY <1>1, <1>2, <1>3, <1>5, <1>8, <1>9

LEMMA ChargesStep ==
  ASSUME TypeOK, PenaltyInv, ChargesWithinApplied, NEW r \in Requests, RequestStep(r)
  PROVE  ChargesWithinApplied'
<1> SUFFICES ASSUME NEW a \in Agents
             PROVE  charged'[a] <= SumOf(Applied(a)')
  BY DEF ChargesWithinApplied
<1>1. /\ charged[a] \in Nat /\ charged[a] <= SumOf(Applied(a))
      /\ SumOf(Applied(a)) \in Nat /\ SumOf(Applied(a)') \in Nat
      /\ SumOf(Applied(a)) <= SumOf(Applied(a)')
  BY AppliedGrows, SumOfMore, SumOfType DEF ChargesWithinApplied, TypeOK
<1>2. CASE ~WriteAgent(r) \/ a # DelegateeOf(r)
  <2>1. charged'[a] = charged[a]
    BY <1>2, StepFrame DEF WriteAgent, TypeOK
  <2>2. QED
    BY <1>1, <2>1
<1>3. CASE WriteAgent(r) /\ a = DelegateeOf(r)
  <2>1. charged'[a] = charged[a] + Impact(PenaltyRow(r))
    BY <1>3, WriteApplies DEF WriteAgent, TypeOK
  <2>2. SumOf(Applied(a)') = SumOf(Applied(a)) + Impact(PenaltyRow(r))
    BY <1>3, WriteApplies, AppliedGrows, SumOfOneMore
  <2>3. Impact(PenaltyRow(r)) \in Nat
    BY ImpactNat DEF Impact
  <2>4. QED
    BY <1>1, <2>1, <2>2, <2>3
<1>4. QED
  BY <1>2, <1>3

LEMMA InitPenaltyInv == Init => PenaltyInv /\ ChargesWithinApplied
<1> SUFFICES ASSUME Init PROVE PenaltyInv /\ ChargesWithinApplied
  OBVIOUS
<1>1. penalties = {} /\ InFlight = {} /\ charged = [a \in Agents |-> 0]
  BY DEF Init, InFlight, Statement
<1>2. \A a : Applied(a) = {}
  BY <1>1 DEF Applied, PenaltiesOf
<1>3. QED
  BY <1>1, <1>2, SumOfNone, FS_EmptySet DEF PenaltyInv, ChargesWithinApplied

LEMMA NextPenaltyInv ==
  TypeOK /\ PenaltyInv /\ ChargesWithinApplied /\ [Next]_vars => (PenaltyInv /\ ChargesWithinApplied)'
<1> SUFFICES ASSUME TypeOK, PenaltyInv, ChargesWithinApplied, [Next]_vars
             PROVE  PenaltyInv' /\ ChargesWithinApplied'
  OBVIOUS
<1>1. CASE Next
  BY <1>1, PenaltyInvStep, ChargesStep DEF Next, RequestStep
<1>2. CASE UNCHANGED vars
  BY <1>2 DEF vars, PenaltyInv, ChargesWithinApplied, Applied, PenaltiesOf, PenaltyRow, ContractOf,
              InFlight
<1>3. QED
  BY <1>1, <1>2

LEMMA PenaltyInvariant == Spec => [](PenaltyInv /\ ChargesWithinApplied)
<1>1. QED
  BY NextPenaltyInv, InitPenaltyInv, TypeCorrect, PTL DEF Spec

LEMMA AppliedAreRecorded == TypeOK /\ PenaltyInv /\ ChargesWithinApplied => ChargesAreRecorded
<1> SUFFICES ASSUME TypeOK, PenaltyInv, ChargesWithinApplied, NEW a \in Agents
             PROVE  charged[a] <= SumOf(PenaltiesOf(a))
  BY DEF ChargesAreRecorded, Recorded, SumOf
<1>1. IsFiniteSet(PenaltiesOf(a)) /\ IsFiniteSet(Applied(a)) /\ Applied(a) \subseteq PenaltiesOf(a)
  BY FS_Subset DEF PenaltyInv, PenaltiesOf, Applied
<1>2. SumOf(Applied(a)) \in Nat /\ SumOf(PenaltiesOf(a)) \in Nat
  BY <1>1, SumOfType
<1>3. SumOf(Applied(a)) <= SumOf(PenaltiesOf(a))
  BY <1>1, SumOfMore
<1>4. charged[a] \in Nat /\ charged[a] <= SumOf(Applied(a))
  BY DEF ChargesWithinApplied, TypeOK
<1>5. QED
  BY <1>2, <1>3, <1>4

\* However breach reports interleave and wherever they fail, every charge
\* to a score stands for a penalty on record.
THEOREM ChargesStandOnPenalties == Spec => []ChargesAreRecorded
<1>1. QED
  BY AppliedAreRecorded, PenaltyInvariant, TypeCorrect, PTL

----------------------------------------------------------------------------
(* Scores.  A breach report that runs alone takes exactly its penalty from *)
(* the score, so the score is the initial one less what has been applied,  *)
(* unless a report has failed on the way.                                  *)

FailedBreach(a) == \E r \in Requests :
  At(r, "failed") /\ call[r].op = "breach" /\ DelegateeOf(r) = a

ScoreInv == \A a \in Agents :
  FailedBreach(a) \/ agent[a].score = NewScore(InitialScore[a], SumOf(Applied(a)))

\* Penalties taken one after the other are taken together.
LEMMA NewScoreTwice ==
  ASSUME NEW score \in Nat, NEW first \in Nat, NEW second \in Nat
  PROVE  NewScore(NewScore(score, first), second) = NewScore(score, first + second)
  BY DEF NewScore

LEMMA ScoreStep ==
  ASSUME MaxInFlight = 1, TypeOK, SerialInv, ReadIsCurrent, PenaltyInv, ScoreInv,
         NEW r \in Requests, RequestStep(r)
  PROVE  ScoreInv'
<1> SUFFICES ASSUME NEW a \in Agents, ~FailedBreach(a)'
             PROVE  agent'[a].score = NewScore(InitialScore[a], SumOf(Applied(a)'))
  BY DEF ScoreInv
<1>1. ~FailedBreach(a)
  <2> SUFFICES ASSUME NEW q \in Requests, At(q, "failed"), call[q].op = "breach", DelegateeOf(q) = a
               PROVE  FALSE
    BY DEF FailedBreach
  <2>1. pc'[q] = "failed" /\ call'[q] = call[q]
    <3>1. CASE q = r
      BY <3>1 DEF RequestStep, Step, Begin, Fail, WriteStatus, WriteTask, Grant, RecordPenalty,
                  RecordLedger, ReadAgent, WriteAgent, Revoke, At, Statement
    <3>2. CASE q # r
      BY <3>2, Frame DEF At
    <3>3. QED
      BY <3>1, <3>2
  <2>2. QED
    BY <2>1 DEF FailedBreach, At, DelegateeOf, ContractOf
<1>2. agent[a].score = NewScore(InitialScore[a], SumOf(Applied(a)))
  BY <1>1 DEF ScoreInv
<1>3. CASE ~WriteAgent(r)
  <2>1. Applied(a)' \subseteq Applied(a)
    <3> SUFFICES ASSUME NEW p \in Applied(a)'
                 PROVE  p \in Applied(a)
      OBVIOUS
    <3>1. p \in penalties' /\ AgentOf[p.contract] = a /\ pc'[p.request] \notin Pending
      BY DEF Applied, PenaltiesOf
    <3>2. p \in penalties
      <4>1. SUFFICES ASSUME RecordPenalty(r), p = PenaltyRow(r) PROVE FALSE
        BY <3>1, StepFrame DEF RecordPenalty, PenaltyRow
      <4>2. pc'[r] = "ledger"
        <5>1. Step(r) /\ pc[r] = "penalty"
          BY <4>1 DEF Step, RecordPenalty, At
        <5>2. QED
          BY <5>1, StepGoesOn, HandlerTable, BreachOrder
      <4>3. QED
        BY <3>1, <4>1, <4>2 DEF PenaltyRow, Pending
    <3>3. /\ p.request \in Requests /\ call[p.request].op = "breach" /\ p = PenaltyRow(p.request)
          /\ pc[p.request] \in Pending \union Charged
      BY <3>2, PenaltyTypes DEF PenaltyInv
    <3>4. pc[p.request] \notin Pending
      <4>1. SUFFICES ASSUME pc[p.request] \in Pending PROVE FALSE
        OBVIOUS
      <4>2. p.request = r
        BY <3>1, <3>3, <4>1, Frame
      <4>3. ~Step(r)
        BY <1>3, <3>1, <3>3, <4>1, <4>2, PenalisedGoesOn
      <4>4. Fail(r)
        BY <4>1, <4>2, <4>3 DEF RequestStep, Begin, At, Pending
      <4>5. At(r, "failed")' /\ call' = call
        BY <4>4 DEF Fail, TypeOK, At
      <4>6. DelegateeOf(r)' = a /\ call'[r].op = "breach"
        BY <3>1, <3>3, <4>2, <4>5 DEF PenaltyRow, DelegateeOf, ContractOf
      <4>7. QED
        BY <4>5, <4>6 DEF FailedBreach
    <3>5. QED
      BY <3>1, <3>2, <3>4 DEF Applied, PenaltiesOf
  <2>2. Applied(a)' = Applied(a)
    BY <2>1, AppliedGrows
  <2>3. QED
    BY <1>2, <1>3, <2>2, StepFrame
<1>4. CASE WriteAgent(r) /\ a # DelegateeOf(r)
  <2>1. Applied(a)' = Applied(a)
    BY <1>4, WriteApplies
  <2>2. agent'[a] = agent[a]
    BY <1>4 DEF WriteAgent, TypeOK
  <2>3. QED
    BY <1>2, <2>1, <2>2
<1>5. CASE WriteAgent(r) /\ a = DelegateeOf(r)
  <2> DEFINE impact == ReputationImpact(call[r].severity)
  <2>1. seen[r] = agent[a]
    BY <1>5, WriteApplies DEF ReadIsCurrent, WriteAgent
  <2>2. agent'[a].score = NewScore(agent[a].score, impact)
    <3>1. PICK deactivate \in BOOLEAN :
            agent' = [agent EXCEPT ![a] =
              [score |-> NewScore(seen[r].score, impact), active |-> ~deactivate /\ seen[r].active]]
      BY <1>5 DEF WriteAgent
    <3> HIDE DEF impact
    <3>2. agent'[a] = [score |-> NewScore(seen[r].score, impact), active |-> ~deactivate /\ seen[r].active]
      BY <3>1 DEF TypeOK
    <3>3. QED
      BY <2>1, <3>2
  <2>3. SumOf(Applied(a)') = SumOf(Applied(a)) + impact
    BY <1>5, WriteApplies, AppliedGrows, SumOfOneMore
  <2>4. SumOf(Applied(a)) \in Nat /\ impact \in Nat /\ InitialScore[a] \in Nat
    BY AppliedGrows, SumOfType, ImpactNat, ConstantsAssumption
  <2>5. QED
    BY <1>2, <2>2, <2>3, <2>4, NewScoreTwice
<1>6. QED
  BY <1>3, <1>4, <1>5

LEMMA InitScoreInv == Init => ScoreInv
<1> SUFFICES ASSUME Init, NEW a \in Agents
             PROVE  agent[a].score = NewScore(InitialScore[a], SumOf(Applied(a)))
  BY DEF ScoreInv
<1>1. agent[a].score = InitialScore[a] /\ InitialScore[a] \in 0..100
  BY ConstantsAssumption DEF Init
<1>2. Applied(a) = {}
  BY DEF Init, Applied, PenaltiesOf
<1>3. QED
  BY <1>1, <1>2, SumOfNone DEF NewScore

LEMMA NextScoreInv ==
  ASSUME MaxInFlight = 1
  PROVE  TypeOK /\ SerialInv /\ ReadIsCurrent /\ PenaltyInv /\ ScoreInv /\ [Next]_vars => ScoreInv'
<1> SUFFICES ASSUME TypeOK, SerialInv, ReadIsCurrent, PenaltyInv, ScoreInv, [Next]_vars
             PROVE  ScoreInv'
  OBVIOUS
<1>1. CASE Next
  BY <1>1, ScoreStep DEF Next, RequestStep
<1>2. CASE UNCHANGED vars
  BY <1>2 DEF vars, ScoreInv, FailedBreach, Applied, PenaltiesOf, At, DelegateeOf, ContractOf
<1>3. QED
  BY <1>1, <1>2

LEMMA ScoresAreUpToDate == TypeOK /\ PenaltyInv /\ ScoreInv => ScoreMatchesPenalties
<1> SUFFICES ASSUME TypeOK, PenaltyInv, ScoreInv, NEW a \in Agents,
                    \A r \in Admitted : call[r].op = "breach" /\ DelegateeOf(r) = a =>
                      ~(r \in InFlight \/ At(r, "failed"))
             PROVE  agent[a].score = NewScore(InitialScore[a], SumOf(PenaltiesOf(a)))
  BY DEF ScoreMatchesPenalties, Recorded, SumOf
<1>1. ~FailedBreach(a)
  BY DEF FailedBreach, Admitted, At
<1>2. Applied(a) = PenaltiesOf(a)
  <2>1. ASSUME NEW p \in PenaltiesOf(a)
        PROVE  pc[p.request] \notin Pending
    <3>1. /\ p.request \in Requests /\ call[p.request].op = "breach"
          /\ p = PenaltyRow(p.request) /\ AgentOf[p.contract] = a
      BY PenaltyTypes DEF PenaltiesOf, PenaltyInv
    <3>2. DelegateeOf(p.request) = a
      BY <3>1 DEF PenaltyRow, DelegateeOf
    <3>3. QED
      BY <3>1, <3>2 DEF Pending, Admitted, InFlight, Statement
  <2>2. QED
    BY <2>1 DEF Applied
<1>3. QED
  BY <1>1, <1>2 DEF ScoreInv

\* One request at a time, a score is the initial one less the recorded
\* penalties, once every breach report about the agent has come to its end.
THEOREM SerialScoresMatch ==
  ASSUME MaxInFlight = 1
  PROVE  Spec => []ScoreMatchesPenalties
<1>1. QED
  BY InitScoreInv, NextScoreInv, ScoresAreUpToDate, TypeCorrect, SerialInvariant,
     ReadIsCurrentInvariant, PenaltyInvariant, PTL DEF Spec

============================================================================
