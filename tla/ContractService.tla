-------------------------- MODULE ContractService --------------------------
(***************************************************************************)
(* The life of a contract in the backend: the selection of a bid           *)
(* (services/market-hub.service.ts, acceptBidAndCreateContract) and the    *)
(* five operations of services/contract.service.ts, called over HTTP by    *)
(* routes/market.routes.ts and routes/contract.routes.ts.                  *)
(*                                                                         *)
(* Every operation is an async function that reads the contract, checks    *)
(* its status and then awaits one Prisma statement after another.  There   *)
(* is no transaction and no conditional update anywhere, so between two    *)
(* statements of a request every other request may run, and a statement    *)
(* that throws (or a process that dies) leaves the statements before it    *)
(* committed and the ones after it undone.  A step of this specification   *)
(* is one statement of one request.                                        *)
(***************************************************************************)
EXTENDS Integers, FiniteSets, FiniteSetsExt

CONSTANTS
  Requests,       \* bound: the HTTP requests that are ever made
  Contracts,      \* the contract rows that can ever be created
  Tasks, Agents,
  NoAgent,        \* the null of task.assigneeId
  TaskOf,         \* contract.taskId, of every contract
  AgentOf,        \* contract.delegateeId, of every contract
  Permitted,      \* the contracts with a non-empty permissionsGranted
  Opened,         \* the contracts that earlier requests have made ACTIVE
  InitialScore,   \* agent.baseReputationScore at the start, in hundredths
  Severities,     \* the penalty severities that are reported
  MaxInFlight     \* bound: how many requests run at the same time

ASSUME ConstantsAssumption ==
  /\ IsFiniteSet(Requests)
  /\ TaskOf \in [Contracts -> Tasks]
  /\ AgentOf \in [Contracts -> Agents]
  /\ NoAgent \notin Agents
  /\ Permitted \subseteq Contracts
  /\ Opened \subseteq Contracts
  /\ InitialScore \in [Agents -> 0..100]
  /\ Severities \subseteq {"LOW", "MEDIUM", "HIGH", "CRITICAL"}
  /\ MaxInFlight \in Nat

VARIABLES
  \* The database.
  contract,   \* SmartContract rows
  task,       \* Task rows
  agent,      \* Agent rows
  ledger,     \* LedgerTransaction rows
  penalties,  \* ContractPenalty rows
  live,       \* the contracts with unrevoked PermissionGrant rows
  \* The requests: the next statement, the arguments, the agent row read.
  pc, call, seen,
  \* History: what the penalty updates have taken from each score.
  charged

db == <<contract, task, agent, ledger, penalties, live>>
vars == <<contract, task, agent, ledger, penalties, live, pc, call, seen, charged>>

----------------------------------------------------------------------------
(* Types                                                                   *)

EndedStatus == {"COMPLETED", "BREACHED", "TERMINATED"}
ContractStatus == {"ABSENT", "PROPOSED", "ACCEPTED", "ACTIVE"} \union EndedStatus
TaskStatus == {"PENDING", "BIDDING", "ASSIGNED", "IN_PROGRESS", "COMPLETED", "FAILED"}
Outcome == {"SUCCESS", "FAILURE", "PARTIAL"}

ContractRow == [status: ContractStatus, activated: BOOLEAN, completed: BOOLEAN]
TaskRow == [status: TaskStatus, assignee: Agents \union {NoAgent}]
AgentRow == [score: 0..100, active: BOOLEAN]
NoRow == [score |-> 0, active |-> FALSE]

Operation == {"select", "accept", "activate", "complete", "breach", "terminate"}
Statement == {"status", "task", "grant", "penalty", "ledger", "readAgent", "writeAgent", "revoke"}
Call == [op: Operation \ {"breach"}, contract: Contracts, severity: {"NONE"}]
          \union [op: {"breach"}, contract: Contracts, severity: Severities]
NoCall == [op |-> "none"]

----------------------------------------------------------------------------
(* The handlers.  "from" is the guard on the status that was read, "to"    *)
(* the status written, "task" the task status written, "outcome" the       *)
(* completionStatus of the ledger row; "next" leads from each statement to *)
(* the one awaited after it, from "status" to "done".                      *)

acceptBidAndCreateContract ==
  [from |-> {"ABSENT"}, to |-> "PROPOSED", task |-> "ASSIGNED",
   next |-> [status |-> "task", task |-> "done"]]

\* Mutant: the permissions are granted as soon as the terms are accepted.
MutantGrantOnAccept ==
  [from |-> {"PROPOSED"}, to |-> "ACCEPTED", next |-> [status |-> "grant", grant |-> "done"]]

acceptContract ==
  [from |-> {"PROPOSED"}, to |-> "ACCEPTED", next |-> [status |-> "done"]]

\* Mutant: the task is left as it was assigned.
MutantActivateSkipsTask ==
  [from |-> {"ACCEPTED"}, to |-> "ACTIVE", next |-> [status |-> "grant", grant |-> "done"]]

activateContract ==
  [from |-> {"ACCEPTED"}, to |-> "ACTIVE", task |-> "IN_PROGRESS",
   next |-> [status |-> "task", task |-> "grant", grant |-> "done"]]

\* Mutants: the guard admits a contract that is already complete, or one
\* that was only accepted.
MutantCompleteAgain ==
  [from |-> {"ACTIVE", "COMPLETED"}, to |-> "COMPLETED", task |-> "COMPLETED", outcome |-> "SUCCESS",
   next |-> [status |-> "task", task |-> "ledger", ledger |-> "revoke", revoke |-> "done"]]
MutantCompleteAccepted ==
  [from |-> {"ACTIVE", "ACCEPTED"}, to |-> "COMPLETED", task |-> "COMPLETED", outcome |-> "SUCCESS",
   next |-> [status |-> "task", task |-> "ledger", ledger |-> "revoke", revoke |-> "done"]]

completeContract ==
  [from |-> {"ACTIVE"}, to |-> "COMPLETED", task |-> "COMPLETED", outcome |-> "SUCCESS",
   next |-> [status |-> "task", task |-> "ledger", ledger |-> "revoke", revoke |-> "done"]]

\* Mutants: the penalty is never applied; it is recorded after the ledger
\* row; it is recorded after it was applied.
MutantBreachWithoutPenalty ==
  [from |-> {"ACTIVE"}, to |-> "BREACHED", task |-> "FAILED", outcome |-> "FAILURE",
   next |-> [status |-> "task", task |-> "penalty", penalty |-> "ledger",
             ledger |-> "revoke", revoke |-> "done"]]
MutantLedgerFirst ==
  [from |-> {"ACTIVE"}, to |-> "BREACHED", task |-> "FAILED", outcome |-> "FAILURE",
   next |-> [status |-> "task", task |-> "ledger", ledger |-> "penalty",
             penalty |-> "readAgent", readAgent |-> "writeAgent",
             writeAgent |-> "revoke", revoke |-> "done"]]
MutantApplyFirst ==
  [from |-> {"ACTIVE"}, to |-> "BREACHED", task |-> "FAILED", outcome |-> "FAILURE",
   next |-> [status |-> "task", task |-> "readAgent", readAgent |-> "writeAgent",
             writeAgent |-> "penalty", penalty |-> "ledger",
             ledger |-> "revoke", revoke |-> "done"]]

reportBreach ==
  [from |-> {"ACTIVE"}, to |-> "BREACHED", task |-> "FAILED", outcome |-> "FAILURE",
   next |-> [status |-> "task", task |-> "penalty", penalty |-> "ledger",
             ledger |-> "readAgent", readAgent |-> "writeAgent",
             writeAgent |-> "revoke", revoke |-> "done"]]

\* Mutants: a proposal can be terminated; the permissions stay.
MutantTerminateProposal ==
  [from |-> {"ACTIVE", "ACCEPTED", "PROPOSED"}, to |-> "TERMINATED", outcome |-> "PARTIAL",
   next |-> [status |-> "ledger", ledger |-> "revoke", revoke |-> "done"]]
MutantTerminateKeepsGrants ==
  [from |-> {"ACTIVE", "ACCEPTED"}, to |-> "TERMINATED", outcome |-> "PARTIAL",
   next |-> [status |-> "ledger", ledger |-> "done"]]

terminateContract ==
  [from |-> {"ACTIVE", "ACCEPTED"}, to |-> "TERMINATED", outcome |-> "PARTIAL",
   next |-> [status |-> "ledger", ledger |-> "revoke", revoke |-> "done"]]

Handler == [select |-> acceptBidAndCreateContract, accept |-> acceptContract,
            activate |-> activateContract, complete |-> completeContract,
            breach |-> reportBreach, terminate |-> terminateContract]

----------------------------------------------------------------------------
(* State functions of a request                                            *)

InFlight == {r \in Requests : pc[r] \in Statement}
Admitted == {r \in Requests : pc[r] \notin {"new", "refused"}}

HandlerOf(r) == Handler[call[r].op]
ContractOf(r) == call[r].contract
DelegateeOf(r) == AgentOf[ContractOf(r)]

At(r, s) == pc[r] = s
Await(r) == pc' = [pc EXCEPT ![r] = HandlerOf(r).next[pc[r]]]

\* A selection creates a row of its own: ids are fresh uuids.
Fresh(c) == ~\E r \in Admitted : call[r].op = "select" /\ ContractOf(r) = c

(* reportBreach: the reputation impact of a severity, in hundredths.       *)
ReputationImpact(severity) == CASE severity = "CRITICAL" -> 20
                                [] severity = "HIGH" -> 10
                                [] severity = "MEDIUM" -> 5
                                [] OTHER -> 2

\* Mutant: the impact is subtracted twice.
MutantDoubleImpact(score, impact) == IF score > 2 * impact THEN score - 2 * impact ELSE 0

(* applyReputationPenalty: Math.max(0, score - impact).                    *)
NewScore(score, impact) == IF score > impact THEN score - impact ELSE 0

circuitBreakerThreshold == 15

(* shouldDeactivate, newScore < 0.15.  The scores are doubles: one that    *)
(* stands for 0.15 exactly can have been rounded to either side of it.     *)
ShouldDeactivate(score, answer) ==
  /\ score < circuitBreakerThreshold => answer
  /\ score > circuitBreakerThreshold => ~answer

----------------------------------------------------------------------------
(* The statements.  Each is awaited by the handler whose "next" names it.  *)

\* findUniqueOrThrow and the guard: a request in the wrong state is refused.
Begin(r, op, c, severity) ==
  /\ At(r, "new")
  /\ Cardinality(InFlight) < MaxInFlight
  /\ \/ /\ contract[c].status \in Handler[op].from
        /\ op = "select" => Fresh(c)
        /\ pc' = [pc EXCEPT ![r] = "status"]
        /\ call' = [call EXCEPT ![r] = [op |-> op, contract |-> c, severity |-> severity]]
     \/ /\ contract[c].status \notin Handler[op].from
        /\ op # "select"
        /\ pc' = [pc EXCEPT ![r] = "refused"]
        /\ UNCHANGED call
  /\ UNCHANGED <<db, seen, charged>>

\* smartContract.create or smartContract.update: unconditional, by id.
WriteStatus(r) ==
  /\ At(r, "status")
  /\ contract' = [contract EXCEPT ![ContractOf(r)] =
       [status |-> HandlerOf(r).to,
        activated |-> @.activated \/ HandlerOf(r).to = "ACTIVE",
        completed |-> @.completed \/ HandlerOf(r).to \in EndedStatus]]
  /\ Await(r)
  /\ UNCHANGED <<task, agent, ledger, penalties, live, call, seen, charged>>

\* task.update: unconditional, by id; a selection sets the assignee too.
WriteTask(r) ==
  /\ At(r, "task")
  /\ task' = [task EXCEPT ![TaskOf[ContractOf(r)]] =
       [status |-> HandlerOf(r).task,
        assignee |-> IF call[r].op = "select" THEN DelegateeOf(r) ELSE @.assignee]]
  /\ Await(r)
  /\ UNCHANGED <<contract, agent, ledger, penalties, live, call, seen, charged>>

\* permissionGrant.createMany, when the contract grants any permission.
Grant(r) ==
  /\ At(r, "grant")
  /\ live' = live \union ({ContractOf(r)} \intersect Permitted)
  /\ Await(r)
  /\ UNCHANGED <<contract, task, agent, ledger, penalties, call, seen, charged>>

\* contractPenalty.create
RecordPenalty(r) ==
  /\ At(r, "penalty")
  /\ penalties' = penalties \union
       {[request |-> r, contract |-> ContractOf(r), severity |-> call[r].severity]}
  /\ Await(r)
  /\ UNCHANGED <<contract, task, agent, ledger, live, call, seen, charged>>

\* ledgerTransaction.create
RecordLedger(r) ==
  /\ At(r, "ledger")
  /\ ledger' = ledger \union
       {[request |-> r, contract |-> ContractOf(r), outcome |-> HandlerOf(r).outcome]}
  /\ Await(r)
  /\ UNCHANGED <<contract, task, agent, penalties, live, call, seen, charged>>

\* applyReputationPenalty: agent.findUniqueOrThrow
ReadAgent(r) ==
  /\ At(r, "readAgent")
  /\ seen' = [seen EXCEPT ![r] = agent[DelegateeOf(r)]]
  /\ Await(r)
  /\ UNCHANGED <<db, call, charged>>

\* Mutants: every penalty above the threshold activates the agent; the
\* breaker looks at the score before the penalty.
MutantReactivate(r) ==
  LET impact == ReputationImpact(call[r].severity)
      newScore == NewScore(seen[r].score, impact)
  IN
  /\ At(r, "writeAgent")
  /\ \E deactivate \in BOOLEAN :
       /\ ShouldDeactivate(newScore, deactivate)
       /\ agent' = [agent EXCEPT ![DelegateeOf(r)] =
            [score |-> newScore, active |-> ~deactivate]]
  /\ charged' = [charged EXCEPT ![DelegateeOf(r)] = @ + impact]
  /\ seen' = [seen EXCEPT ![r] = NoRow]
  /\ Await(r)
  /\ UNCHANGED <<contract, task, ledger, penalties, live, call>>

MutantBreakerOnOldScore(r) ==
  LET impact == ReputationImpact(call[r].severity)
      newScore == NewScore(seen[r].score, impact)
  IN
  /\ At(r, "writeAgent")
  /\ \E deactivate \in BOOLEAN :
       /\ ShouldDeactivate(seen[r].score, deactivate)
       /\ agent' = [agent EXCEPT ![DelegateeOf(r)] =
            [score |-> newScore, active |-> ~deactivate /\ seen[r].active]]
  /\ charged' = [charged EXCEPT ![DelegateeOf(r)] = @ + impact]
  /\ seen' = [seen EXCEPT ![r] = NoRow]
  /\ Await(r)
  /\ UNCHANGED <<contract, task, ledger, penalties, live, call>>

\* applyReputationPenalty: agent.update, score and activeStatus computed
\* from the row that was read.
WriteAgent(r) ==
  LET impact == ReputationImpact(call[r].severity)
      newScore == NewScore(seen[r].score, impact)
  IN
  /\ At(r, "writeAgent")
  /\ \E deactivate \in BOOLEAN :
       /\ ShouldDeactivate(newScore, deactivate)
       /\ agent' = [agent EXCEPT ![DelegateeOf(r)] =
            [score |-> newScore, active |-> ~deactivate /\ seen[r].active]]
  /\ charged' = [charged EXCEPT ![DelegateeOf(r)] = @ + impact]
  /\ seen' = [seen EXCEPT ![r] = NoRow]
  /\ Await(r)
  /\ UNCHANGED <<contract, task, ledger, penalties, live, call>>

\* revokePermissionsForTask: every unrevoked grant of the task.
Revoke(r) ==
  /\ At(r, "revoke")
  /\ live' = {c \in live : TaskOf[c] # TaskOf[ContractOf(r)]}
  /\ Await(r)
  /\ UNCHANGED <<contract, task, agent, ledger, penalties, call, seen, charged>>

\* The next statement throws or the process dies: the request is over, with
\* a 500 or no answer.  A crash of the server is a Fail of every request in
\* flight, since the server keeps nothing else in memory.
Fail(r) ==
  /\ pc[r] \in Statement
  /\ pc' = [pc EXCEPT ![r] = "failed"]
  /\ seen' = [seen EXCEPT ![r] = NoRow]
  /\ UNCHANGED <<db, call, charged>>

----------------------------------------------------------------------------
(* The specification                                                       *)

Init ==
  /\ contract = [c \in Contracts |->
       [status |-> IF c \in Opened THEN "ACTIVE" ELSE "ABSENT",
        activated |-> c \in Opened, completed |-> FALSE]]
  /\ \E unassigned \in {"PENDING", "BIDDING"} :
       task = [t \in Tasks |->
         IF \E c \in Opened : TaskOf[c] = t
         THEN [status |-> "IN_PROGRESS", assignee |-> AgentOf[CHOOSE c \in Opened : TaskOf[c] = t]]
         ELSE [status |-> unassigned, assignee |-> NoAgent]]
  /\ \E on \in SUBSET {a \in Agents : InitialScore[a] >= circuitBreakerThreshold} :
       agent = [a \in Agents |-> [score |-> InitialScore[a], active |-> a \in on]]
  /\ ledger = {} /\ penalties = {}
  /\ live = Opened \intersect Permitted
  /\ pc = [r \in Requests |-> "new"]
  /\ call = [r \in Requests |-> NoCall]
  /\ seen = [r \in Requests |-> NoRow]
  /\ charged = [a \in Agents |-> 0]

Step(r) == \/ WriteStatus(r) \/ WriteTask(r) \/ Grant(r) \/ RecordPenalty(r)
           \/ RecordLedger(r) \/ ReadAgent(r) \/ WriteAgent(r) \/ Revoke(r)

\* Only a breach report has a severity.
Severable(op) == IF op = "breach" THEN Severities ELSE {"NONE"}

Next == \E r \in Requests :
  \/ \E op \in Operation, c \in Contracts : \E severity \in Severable(op) :
       Begin(r, op, c, severity)
  \/ Step(r)
  \/ Fail(r)

Spec == Init /\ [][Next]_vars

\* The event loop runs every continuation and Postgres answers every
\* statement, so a request in flight goes on; nobody is bound to make one.
FairSpec == Spec /\ \A r \in Requests : WF_vars(Step(r) \/ Fail(r))

----------------------------------------------------------------------------
(* Properties                                                              *)

TypeOK ==
  /\ contract \in [Contracts -> ContractRow]
  /\ task \in [Tasks -> TaskRow]
  /\ agent \in [Agents -> AgentRow]
  /\ ledger \subseteq [request: Requests, contract: Contracts, outcome: Outcome]
  /\ penalties \subseteq [request: Requests, contract: Contracts, severity: Severities]
  /\ live \subseteq Permitted
  /\ pc \in [Requests -> Statement \union {"new", "done", "refused", "failed"}]
  /\ call \in [Requests -> Call \union {NoCall}]
  /\ seen \in [Requests -> AgentRow]
  /\ charged \in [Agents -> Nat]
  /\ \A r \in Admitted : call[r] \in Call
  /\ \A r \in InFlight : pc[r] \in DOMAIN HandlerOf(r).next

(* What holds however the requests interleave and wherever they fail.      *)

(* No agent below the circuit breaker's threshold is ever active, even     *)
(* when breach reports for it overwrite each other (applyReputationPenalty *)
(* writes the score and the status in one statement).                      *)
BreakerConsistent ==
  \A a \in Agents : agent[a].score < circuitBreakerThreshold => ~agent[a].active

(* A ledger row is only ever written about a contract that has ended, and  *)
(* a verdict on the work (SUCCESS, FAILURE) only about one that had been   *)
(* activated, whatever the other requests did to the contract since.       *)
LedgerTrail == \A l \in ledger :
  /\ contract[l.contract].completed
  /\ l.outcome # "PARTIAL" => contract[l.contract].activated

(* reportBreach writes the penalty before the ledger row, so a request     *)
(* that fails in between cannot leave a FAILURE that nobody was penalised  *)
(* for.                                                                    *)
FailureIsPenalised == \A l \in ledger : l.outcome = "FAILURE" =>
  \E p \in penalties : p.request = l.request /\ p.contract = l.contract

(* An agent's score differs from what it was only when a penalty is on     *)
(* record against one of the agent's contracts: a lost update can restore  *)
(* a score, never lower an innocent one.                                   *)
OnlyThePenalisedLose == \A a \in Agents : agent[a].score # InitialScore[a] =>
  \E p \in penalties : AgentOf[p.contract] = a

(* Interleaved read-modify-write cycles of the same score never take more  *)
(* from it than the penalties that were applied, nor add to it.            *)
ScoreWithinCharges == \A a \in Agents :
  InitialScore[a] - charged[a] <= agent[a].score /\ agent[a].score <= InitialScore[a]

(* A breach report can turn the circuit breaker off again, by writing back *)
(* the active status that it read before another report tripped the        *)
(* breaker, but only together with the score it read: an agent that comes  *)
(* back has lost less than it was charged, so some penalty is undone.  No  *)
(* other contract operation revives an agent.                              *)
RevivalUndoesAPenalty == [][\A a \in Agents : ~agent[a].active /\ agent'[a].active =>
  agent'[a].score > InitialScore[a] - charged'[a]]_agent

PenaltiesOf(a) == {p \in penalties : AgentOf[p.contract] = a}
Recorded(a) == MapThenSumSet(LAMBDA p : ReputationImpact(p.severity), PenaltiesOf(a))

(* Nothing is taken from a score before the penalty it stands for is on    *)
(* record.                                                                 *)
ChargesAreRecorded == \A a \in Agents : charged[a] <= Recorded(a)

(* Just-in-time permissions exist only for a contract that was activated.  *)
GrantsFollowActivation == \A c \in live : contract[c].activated

Failed(c) == \E r \in Admitted : At(r, "failed") /\ ContractOf(r) = c
Ledgered(c) == \E l \in ledger : l.contract = c

\* Some request is ending c, and none that was let in before it ended can
\* still write another status or grant anything.
BeingEnded(c) == \E r \in InFlight :
  ContractOf(r) = c /\ call[r].op \in {"complete", "breach", "terminate"}
Reviving(c) == \E r \in InFlight :
  ContractOf(r) = c /\ call[r].op \in {"accept", "activate"}

(* Under fairness, a contract that is being ended gets its ledger row and  *)
(* its permissions go for good, unless a request about it fails: whatever  *)
(* else ends or activates it, or another contract of its task, meanwhile.  *)
EndIsSettled == \A c \in Contracts :
  contract[c].status \in EndedStatus /\ BeingEnded(c) /\ ~Reviving(c) ~>
    (Ledgered(c) /\ [](c \notin live)) \/ Failed(c)

(* What holds when the requests come one after the other.                  *)

Lifecycle == INSTANCE ContractLifecycle WITH status <- [c \in Contracts |-> contract[c].status]

(* The status column moves along the edges of the documented lifecycle and *)
(* an ended contract stays ended.                                          *)
LifecycleSpec == Lifecycle!Spec

OutcomeOf(status) == CASE status = "COMPLETED" -> "SUCCESS"
                       [] status = "BREACHED" -> "FAILURE"
                       [] status = "TERMINATED" -> "PARTIAL"
                       [] OTHER -> "NONE"

(* The immutable ledger has at most one row about a contract and that row  *)
(* agrees with how the contract ended, also after failures and retries.    *)
LedgerIsConsistent == \A l \in ledger :
  /\ l.outcome = OutcomeOf(contract[l.contract].status)
  /\ \A m \in ledger : m.contract = l.contract => m = l

\* A request about the contract is under way or has failed.
Concerned(c) == \E r \in Admitted : ContractOf(r) = c /\ (r \in InFlight \/ At(r, "failed"))

(* A live grant of an ended contract is due to the request that ended it:  *)
(* it is still on its way to the revocation, or failed before it.          *)
EndedHoldsNoGrant == \A c \in live : contract[c].status \in EndedStatus => Concerned(c)

(* When no breach report is under way or has failed, every score is the    *)
(* initial one less the recorded penalties.                                *)
ScoreMatchesPenalties == \A a \in Agents :
  \/ \E r \in Admitted :
       /\ call[r].op = "breach" /\ DelegateeOf(r) = a
       /\ r \in InFlight \/ At(r, "failed")
  \/ agent[a].score = NewScore(InitialScore[a], Recorded(a))

TaskStatusFor(status) == CASE status \in {"PROPOSED", "ACCEPTED"} -> {"ASSIGNED"}
                           [] status = "ACTIVE" -> {"IN_PROGRESS"}
                           [] status = "COMPLETED" -> {"COMPLETED"}
                           [] status = "BREACHED" -> {"FAILED"}
                           [] status = "TERMINATED" -> {"ASSIGNED", "IN_PROGRESS"}
                           [] OTHER -> {}

\* The contracts that were made for a task: selection takes any number.
MadeFor(t) == {c \in Contracts : TaskOf[c] = t /\ contract[c].status # "ABSENT"}

GrantsAgree(c) ==
  /\ c \in live => contract[c].status = "ACTIVE"
  /\ contract[c].status = "ACTIVE" /\ c \in Permitted =>
       c \in live \/ \E d \in MadeFor(TaskOf[c]) : contract[d].status \in EndedStatus

Agreement(t) ==
  /\ MadeFor(t) = {} => task[t].status \in {"PENDING", "BIDDING"} /\ task[t].assignee = NoAgent
  /\ MadeFor(t) # {} => /\ \E c \in MadeFor(t) : task[t].status \in TaskStatusFor(contract[c].status)
                        /\ \E c \in MadeFor(t) : task[t].assignee = AgentOf[c]
  /\ \A c \in Contracts : TaskOf[c] = t => GrantsAgree(c)

(* A task that no unfinished or failed request is about stands where one   *)
(* of its contracts has taken it and belongs to the delegatee of one of    *)
(* them; the active ones, and no others, hold their permissions, unless    *)
(* the end of another one has revoked all permissions of the task.         *)
TaskAgrees == \A t \in Tasks :
  (\E c \in Contracts : TaskOf[c] = t /\ Concerned(c)) \/ Agreement(t)

============================================================================
