----------------------------- MODULE Delegator -----------------------------
(***************************************************************************)
(* The Python orchestrator (delegator.py): delegate() decomposes a task,   *)
(* executes every leaf of its registry on the market and verifies the      *)
(* result, over abstract protocols whose implementations are not in the    *)
(* repository.  Those are modelled by the effects their calls have here.   *)
(*                                                                         *)
(* A call of delegate() is suspended at an await: pc says which one.  A    *)
(* step is the effect of the awaited call and the code up to the next      *)
(* await.  Other calls on the same Delegator may run in between, and the   *)
(* awaited call may raise, which ends delegate() on the spot.              *)
(***************************************************************************)
EXTENDS Integers, FiniteSets

CONSTANTS
  Delegations,    \* bound: the calls of delegate() that are ever made
  Tasks,
  RootOf,         \* the task of every call
  PartsOf,        \* the sub-tasks that decompose() returns for every task
  Contracts,      \* bound: the contracts that are ever created
  TaskOf,         \* contract.task_id, of every contract
  NoTask, NoContract,
  MaxRunning      \* bound: how many calls run at the same time

ASSUME DelegatorAssumption ==
  /\ RootOf \in [Delegations -> Tasks]
  /\ PartsOf \in [Tasks -> SUBSET Tasks]
  /\ TaskOf \in [Contracts -> Tasks]
  /\ NoTask \notin Tasks /\ NoContract \notin Contracts
  /\ MaxRunning \in Nat

VARIABLES
  \* The Task objects: status, and the sub-tasks they have.
  status, subTasks,
  registry,   \* _task_registry
  \* The implementations of the protocols: contract statuses, for each task
  \* the contracts it has unrevoked grants for, the tasks that are
  \* monitored, the ledger.
  contract, grants, monitored, ledger,
  \* The calls: the await they are suspended at, the tasks decompose_recursive
  \* has yet to look at, the leaves that are left, the leaf and the contract
  \* at hand, and what the verifier said of it.
  pc, pending, left, leaf, mine, verdict,
  \* History: for each task the call that changed its status last, if any.
  writer

delegatorVars == <<status, subTasks, registry, contract, grants, monitored, ledger,
                   pc, pending, left, leaf, mine, verdict>>
vars == <<delegatorVars, writer>>

TaskStatus == {"PENDING", "BIDDING", "IN_PROGRESS", "PAUSED", "UNDER_VERIFICATION",
               "COMPLETED", "FAILED", "CANCELLED", "RE_DELEGATED"}
ContractStatus == {"ABSENT", "PROPOSED", "ACTIVE", "COMPLETED", "BREACHED", "TERMINATED"}
Await == {"decompose", "bids", "create", "activate", "grant", "start", "poll",
          "redelegate", "withdraw", "cancel", "verify", "close", "record", "revoke", "stop"}

Running == {d \in Delegations : pc[d] \in Await}
Goto(d, place) == pc' = [pc EXCEPT ![d] = place]
SetStatus(d, s) == status' = [status EXCEPT ![leaf[d]] = s]

----------------------------------------------------------------------------
(* delegate(): decomposition, the leaves, the end                          *)

Delegate(d) ==
  /\ pc[d] = "new"
  /\ Cardinality(Running) < MaxRunning
  /\ Goto(d, "decompose")
  /\ pending' = [pending EXCEPT ![d] = {RootOf[d]}]
  /\ UNCHANGED <<status, subTasks, registry, contract, grants, monitored, ledger,
                 left, leaf, mine, verdict>>

\* decompose_recursive: a task that is not verifiable gets the sub-tasks
\* that decompose() returns, which are looked at in their turn.
LookAt(d, t) == \E parts \in {{}, PartsOf[t]} :
  /\ subTasks' = [subTasks EXCEPT ![t] = @ \union parts]
  /\ pending' = [pending EXCEPT ![d] = (@ \ {t}) \union parts]

\* The leaves of the registry, not of the task.
LeavesIn(tasks, parts) == {t \in tasks : parts[t] = {}}

\* The head of the loop over the leaves: the next leaf is advertised, or the
\* root gets its verdict, from all the leaves there are.
NextLeaf(d, rest, now, leaves) ==
  \/ \E t \in rest :
       /\ leaf' = [leaf EXCEPT ![d] = t]
       /\ left' = [left EXCEPT ![d] = rest \ {t}]
       /\ status' = [now EXCEPT ![t] = "BIDDING"]
       /\ Goto(d, "bids")
  \/ /\ rest = {}
     /\ leaf' = [leaf EXCEPT ![d] = NoTask]
     /\ left' = [left EXCEPT ![d] = {}]
     /\ status' = [now EXCEPT ![RootOf[d]] =
          IF \A t \in leaves : now[t] = "COMPLETED" THEN "COMPLETED" ELSE "FAILED"]
     /\ Goto(d, "done")

Decompose(d) ==
  /\ pc[d] = "decompose"
  /\ \E t \in pending[d] : LookAt(d, t)
  /\ IF pending'[d] # {}
     THEN UNCHANGED <<registry, pc, left, leaf, status>>
     ELSE /\ registry' = registry \union {RootOf[d]}
          /\ LET leaves == LeavesIn(registry', subTasks')
             IN  NextLeaf(d, leaves, status, leaves)
  /\ UNCHANGED <<contract, grants, monitored, ledger, mine, verdict>>

----------------------------------------------------------------------------
(* _execute_leaf(): from the market to the start                           *)

\* Mutant: a leaf without bids waits for its turn again.
MutantAskAgain(d) ==
  /\ pc[d] = "bids"
  /\ NextLeaf(d, left[d] \union {leaf[d]}, status, LeavesIn(registry, subTasks))
  /\ UNCHANGED <<subTasks, registry, contract, grants, monitored, ledger, pending, mine, verdict>>

NoBids(d) ==
  /\ pc[d] = "bids"
  /\ NextLeaf(d, left[d], [status EXCEPT ![leaf[d]] = "FAILED"], LeavesIn(registry, subTasks))
  /\ UNCHANGED <<subTasks, registry, contract, grants, monitored, ledger, pending, mine, verdict>>

SelectBid(d) ==
  /\ pc[d] = "bids"
  /\ Goto(d, "create")
  /\ UNCHANGED <<status, subTasks, registry, contract, grants, monitored, ledger,
                 pending, left, leaf, mine, verdict>>

CreateContract(d) ==
  /\ pc[d] = "create"
  /\ \E c \in Contracts :
       /\ contract[c] = "ABSENT" /\ TaskOf[c] = leaf[d]
       /\ contract' = [contract EXCEPT ![c] = "PROPOSED"]
       /\ mine' = [mine EXCEPT ![d] = c]
  /\ Goto(d, "activate")
  /\ UNCHANGED <<status, subTasks, registry, grants, monitored, ledger,
                 pending, left, leaf, verdict>>

\* A call that moves the contract at hand.
Move(d, s) == contract' = [contract EXCEPT ![mine[d]] = s]

ActivateContract(d) ==
  /\ pc[d] = "activate"
  /\ Move(d, "ACTIVE")
  /\ Goto(d, "grant")
  /\ UNCHANGED <<status, subTasks, registry, grants, monitored, ledger,
                 pending, left, leaf, mine, verdict>>

\* One of the contract's permissions; there may be several, or none.
Grant(d) ==
  /\ pc[d] = "grant"
  /\ grants' = [grants EXCEPT ![leaf[d]] = @ \union {mine[d]}]
  /\ UNCHANGED <<status, subTasks, registry, contract, monitored, ledger,
                 pc, pending, left, leaf, mine, verdict>>

Assign(d) ==
  /\ pc[d] = "grant"
  /\ SetStatus(d, "IN_PROGRESS")
  /\ Goto(d, "start")
  /\ UNCHANGED <<subTasks, registry, contract, grants, monitored, ledger,
                 pending, left, leaf, mine, verdict>>

\* The condition of the coordination loop and the test after it.
LoopHead(s) == CASE s = "IN_PROGRESS" -> "poll"
                 [] s = "UNDER_VERIFICATION" -> "verify"
                 [] OTHER -> "revoke"

StartMonitoring(d) ==
  /\ pc[d] = "start"
  /\ monitored' = monitored \union {leaf[d]}
  /\ Goto(d, LoopHead(status[leaf[d]]))
  /\ UNCHANGED <<status, subTasks, registry, contract, grants, ledger,
                 pending, left, leaf, mine, verdict>>

----------------------------------------------------------------------------
(* _coordination_loop(): what the coordinator decides about the events     *)

\* The statuses that decisions write without awaiting anything: CONTINUE with
\* a completion event, PAUSE, RESUME.  Any other CONTINUE and INTERVENE leave
\* the status as it is.
Decided(s) == {"UNDER_VERIFICATION", "PAUSED", "IN_PROGRESS", s}

Decide(d) ==
  /\ pc[d] = "poll"
  /\ \E s \in Decided(status[leaf[d]]) : SetStatus(d, s) /\ Goto(d, LoopHead(s))
  /\ UNCHANGED <<subTasks, registry, contract, grants, monitored, ledger,
                 pending, left, leaf, mine, verdict>>

DecideToEnd(d) ==
  /\ pc[d] = "poll"
  /\ \E place \in {"redelegate", "cancel"} : Goto(d, place)
  /\ UNCHANGED <<status, subTasks, registry, contract, grants, monitored, ledger,
                 pending, left, leaf, mine, verdict>>

\* Mutant: a cancelled task keeps its contract.
MutantCancelKeepsContract(d) ==
  /\ pc[d] = "cancel"
  /\ SetStatus(d, "CANCELLED")
  /\ Goto(d, "revoke")
  /\ UNCHANGED <<subTasks, registry, contract, grants, monitored, ledger,
                 pending, left, leaf, mine, verdict>>

Cancel(d) ==
  /\ pc[d] = "cancel"
  /\ Move(d, "TERMINATED")
  /\ SetStatus(d, "CANCELLED")
  /\ Goto(d, "revoke")
  /\ UNCHANGED <<subTasks, registry, grants, monitored, ledger,
                 pending, left, leaf, mine, verdict>>

Redelegate(d) ==
  /\ pc[d] = "redelegate"
  /\ Move(d, "TERMINATED")
  /\ Goto(d, "withdraw")
  /\ UNCHANGED <<status, subTasks, registry, grants, monitored, ledger,
                 pending, left, leaf, mine, verdict>>

RevokeAll(d) == grants' = [grants EXCEPT ![leaf[d]] = {}]

Withdraw(d) ==
  /\ pc[d] = "withdraw"
  /\ RevokeAll(d)
  /\ SetStatus(d, "RE_DELEGATED")
  /\ Goto(d, "revoke")
  /\ UNCHANGED <<subTasks, registry, contract, monitored, ledger,
                 pending, left, leaf, mine, verdict>>

----------------------------------------------------------------------------
(* _execute_leaf(): verification and the end                               *)

\* Mutant: whatever the verifier says, the task is done.
MutantVerifyNothing(d) ==
  /\ pc[d] = "verify"
  /\ \E v \in {"SUCCESS", "FAILURE"} : verdict' = [verdict EXCEPT ![d] = v]
  /\ SetStatus(d, "COMPLETED")
  /\ Goto(d, "close")
  /\ UNCHANGED <<subTasks, registry, contract, grants, monitored, ledger,
                 pending, left, leaf, mine>>

Verify(d) ==
  /\ pc[d] = "verify"
  /\ \E v \in {"SUCCESS", "FAILURE"} :
       /\ verdict' = [verdict EXCEPT ![d] = v]
       /\ SetStatus(d, IF v = "SUCCESS" THEN "COMPLETED" ELSE "FAILED")
  /\ Goto(d, "close")
  /\ UNCHANGED <<subTasks, registry, contract, grants, monitored, ledger,
                 pending, left, leaf, mine>>

\* complete_contract or report_breach; and its mutant, which goes on without
\* the record of a breach.
MutantBreachOffLedger(d) ==
  /\ pc[d] = "close"
  /\ Move(d, IF verdict[d] = "SUCCESS" THEN "COMPLETED" ELSE "BREACHED")
  /\ Goto(d, IF verdict[d] = "SUCCESS" THEN "record" ELSE "revoke")
  /\ UNCHANGED <<status, subTasks, registry, grants, monitored, ledger,
                 pending, left, leaf, mine, verdict>>
Close(d) ==
  /\ pc[d] = "close"
  /\ Move(d, IF verdict[d] = "SUCCESS" THEN "COMPLETED" ELSE "BREACHED")
  /\ Goto(d, "record")
  /\ UNCHANGED <<status, subTasks, registry, grants, monitored, ledger,
                 pending, left, leaf, mine, verdict>>

Record(d) ==
  /\ pc[d] = "record"
  /\ ledger' = ledger \union {[contract |-> mine[d], outcome |-> verdict[d]]}
  /\ Goto(d, "revoke")
  /\ UNCHANGED <<status, subTasks, registry, contract, grants, monitored,
                 pending, left, leaf, mine, verdict>>

\* Mutant: only what was verified is revoked.
MutantRevokeVerified(d) ==
  /\ pc[d] = "revoke"
  /\ IF verdict[d] = "NONE" THEN UNCHANGED grants ELSE RevokeAll(d)
  /\ Goto(d, "stop")
  /\ UNCHANGED <<status, subTasks, registry, contract, monitored, ledger,
                 pending, left, leaf, mine, verdict>>
Revoke(d) ==
  /\ pc[d] = "revoke"
  /\ RevokeAll(d)
  /\ Goto(d, "stop")
  /\ UNCHANGED <<status, subTasks, registry, contract, monitored, ledger,
                 pending, left, leaf, mine, verdict>>

\* stop_monitoring, and on to the next leaf.
StopMonitoring(d) ==
  /\ pc[d] = "stop"
  /\ monitored' = monitored \ {leaf[d]}
  /\ mine' = [mine EXCEPT ![d] = NoContract]
  /\ verdict' = [verdict EXCEPT ![d] = "NONE"]
  /\ NextLeaf(d, left[d], status, LeavesIn(registry, subTasks))
  /\ UNCHANGED <<subTasks, registry, contract, grants, ledger, pending>>

\* The awaited call raises and nothing in delegate() catches it.
Raise(d) ==
  /\ pc[d] \in Await
  /\ Goto(d, "raised")
  /\ UNCHANGED <<status, subTasks, registry, contract, grants, monitored, ledger,
                 pending, left, leaf, mine, verdict>>

----------------------------------------------------------------------------
(* The specification                                                       *)

Init ==
  /\ status = [t \in Tasks |-> "PENDING"]
  /\ subTasks = [t \in Tasks |-> {}]
  /\ registry = {}
  /\ contract = [c \in Contracts |-> "ABSENT"]
  /\ grants = [t \in Tasks |-> {}]
  /\ monitored = {}
  /\ ledger = {}
  /\ pc = [d \in Delegations |-> "new"]
  /\ pending = [d \in Delegations |-> {}]
  /\ left = [d \in Delegations |-> {}]
  /\ leaf = [d \in Delegations |-> NoTask]
  /\ mine = [d \in Delegations |-> NoContract]
  /\ verdict = [d \in Delegations |-> "NONE"]
  /\ writer = [t \in Tasks |-> {}]

\* Whatever a call does by itself, but for what the coordinator decides.
Proceed(d) ==
  \/ Decompose(d)
  \/ NoBids(d) \/ SelectBid(d) \/ CreateContract(d) \/ ActivateContract(d)
  \/ Grant(d) \/ Assign(d) \/ StartMonitoring(d)
  \/ Cancel(d) \/ Redelegate(d) \/ Withdraw(d)
  \/ Verify(d) \/ Close(d) \/ Record(d) \/ Revoke(d) \/ StopMonitoring(d)

\* History: which call wrote what a step of d changed.
Written(d) == writer' = [t \in Tasks |-> IF status'[t] = status[t] THEN writer[t] ELSE {d}]

Next == \E d \in Delegations :
  /\ Delegate(d) \/ Proceed(d) \/ Decide(d) \/ DecideToEnd(d) \/ Raise(d)
  /\ Written(d)

Spec == Init /\ [][Next]_vars

\* Awaited calls return or raise; the events need not ever say anything.
FairSpec == Spec /\ \A d \in Delegations : WF_delegatorVars(Proceed(d) \/ (pc[d] # "poll" /\ Raise(d)))

----------------------------------------------------------------------------
(* Properties                                                              *)

DelegatorTypeOK ==
  /\ status \in [Tasks -> TaskStatus]
  /\ subTasks \in [Tasks -> SUBSET Tasks]
  /\ registry \subseteq Tasks
  /\ contract \in [Contracts -> ContractStatus]
  /\ grants \in [Tasks -> SUBSET Contracts]
  /\ monitored \subseteq Tasks
  /\ ledger \subseteq [contract: Contracts, outcome: {"SUCCESS", "FAILURE"}]
  /\ pc \in [Delegations -> Await \union {"new", "done", "raised"}]
  /\ pending \in [Delegations -> SUBSET Tasks]
  /\ left \in [Delegations -> SUBSET Tasks]
  /\ leaf \in [Delegations -> Tasks \union {NoTask}]
  /\ mine \in [Delegations -> Contracts \union {NoContract}]
  /\ verdict \in [Delegations -> {"NONE", "SUCCESS", "FAILURE"}]
  /\ writer \in [Tasks -> SUBSET Delegations]

(* What holds however calls interleave and whatever they raise.            *)

\* From the first grant to the last revocation, or for good after a raise.
Holding == {"grant", "start", "poll", "redelegate", "withdraw", "cancel",
            "verify", "close", "record", "revoke", "raised"}
Watching == (Holding \ {"grant", "start"}) \union {"stop"}

(* Permissions are "revoked upon completion or termination": a grant       *)
(* outlives the execution it was made for only when that execution was     *)
(* ended by an exception, although revocation goes by task and two calls   *)
(* may execute one task.  So does the monitoring.                          *)
ExecutionCleansUp ==
  /\ \A t \in Tasks : \A c \in grants[t] :
       \E d \in Delegations : mine[d] = c /\ leaf[d] = t /\ pc[d] \in Holding
  /\ \A t \in monitored : \E d \in Delegations : leaf[d] = t /\ pc[d] \in Watching

(* "Every completed (or failed) task results in a permanent record": the   *)
(* ledger says of a contract what became of it, and a contract that was    *)
(* completed or breached is on it unless an exception came first.          *)
VerifiedIsRecorded ==
  /\ \A rec \in ledger : contract[rec.contract] =
       IF rec.outcome = "SUCCESS" THEN "COMPLETED" ELSE "BREACHED"
  /\ \A c \in Contracts : contract[c] \in {"COMPLETED", "BREACHED"} =>
       \/ \E rec \in ledger : rec.contract = c
       \/ \E d \in Delegations : mine[d] = c /\ pc[d] \in {"record", "raised"}

(* "complete_contract should only be called after the task's verification  *)
(* criteria have been satisfied", and delegate() writes COMPLETED into a   *)
(* task of its own accord: a registered leaf is COMPLETED only when the    *)
(* verifier passed it in some call.                                        *)
CompletedIsVerified == \A t \in LeavesIn(registry, subTasks) : status[t] = "COMPLETED" =>
  \/ \E rec \in ledger : TaskOf[rec.contract] = t /\ rec.outcome = "SUCCESS"
  \/ \E d \in Delegations :
       leaf[d] = t /\ verdict[d] = "SUCCESS" /\ pc[d] \in {"close", "record", "raised"}

(* An execution that ends without an exception leaves its contract active  *)
(* only when the coordinator paused it, which nobody can resume, or when   *)
(* another call has rewritten the status of that very leaf since this one  *)
(* did: the loop tests a Task object that it shares.                       *)
OnlyPauseAbandons == [][\A d \in Delegations :
  pc[d] = "stop" /\ pc'[d] \notin {"stop", "raised"} /\ contract[mine[d]] = "ACTIVE" =>
    status[leaf[d]] = "PAUSED" \/ \E e \in Delegations \ {d} : e \in writer[leaf[d]]]_delegatorVars

(* Every call ends, by a result or by an exception, or waits for what the  *)
(* coordinator decides; the retries of leaves of earlier calls included.   *)
DelegationEnds == \A d \in Delegations :
  pc[d] \in Await ~> pc[d] \in {"done", "raised", "poll"}

(* "For each leaf task: advertise, collect bids, assign": a task that is   *)
(* delegated with success has all its leaf sub-tasks completed.            *)
SuccessIsExecuted == \A d \in Delegations :
  pc[d] = "done" /\ status[RootOf[d]] = "COMPLETED" =>
    \A t \in LeavesIn(subTasks[RootOf[d]], subTasks) : status[t] = "COMPLETED"

=============================================================================
