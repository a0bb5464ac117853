----------------------------- MODULE MarketHub -----------------------------
(***************************************************************************)
(* The task market on top of the contract service: bids come in by         *)
(* POST /market/:taskId/bids (routes/market.routes.ts) and through the     *)
(* OpenClaw adapter (submitBidForAgent), a selected bid becomes a contract *)
(* (acceptBidAndCreateContract, in ContractService), and both parts write  *)
(* task.status and read agent.activeStatus in the same database.           *)
(*                                                                         *)
(* A submission is a request of its own and is, like those of the contract *)
(* service, a sequence of statements that others interleave with.          *)
(***************************************************************************)
EXTENDS ContractService

CONSTANTS
  Bids,       \* bound: the bid submissions that are ever made, one row each
  BidTask,    \* bid.taskId
  BidAgent,   \* bid.agentId
  BidOf,      \* contract.bidId, of every contract
  Path        \* the endpoint every bid is submitted to

ASSUME MarketAssumption ==
  /\ IsFiniteSet(Bids)
  /\ BidTask \in [Bids -> Tasks]
  /\ BidAgent \in [Bids -> Agents]
  /\ BidOf \in [Contracts -> Bids]
  /\ Path \in [Bids -> {"market", "openclaw"}]
  /\ \A c \in Contracts : TaskOf[c] = BidTask[BidOf[c]] /\ AgentOf[c] = BidAgent[BidOf[c]]

VARIABLES
  bids,       \* Bid rows
  bidPc,      \* the next statement of every submission
  taskSeen    \* the task status it read

bidVars == <<bids, bidPc, taskSeen>>
marketVars == <<vars, bidVars>>

BidStatement == {"agent", "create", "open"}
Bidding == {b \in Bids : bidPc[b] \in BidStatement}
Biddable == {"PENDING", "BIDDING"}

\* Whether one more request may be in flight.
FreeSlot == Cardinality(InFlight) + Cardinality(Bidding) < MaxInFlight

TaskOfBid(b) == task[BidTask[b]]

----------------------------------------------------------------------------
(* The statements of a submission                                          *)

Goto(b, s) == bidPc' = [bidPc EXCEPT ![b] = s]

\* Mutant: the status that was read is not checked.
MutantReadAnyTask(b) ==
  /\ Path[b] = "market" /\ bidPc[b] = "new" /\ FreeSlot
  /\ Goto(b, "agent")
  /\ taskSeen' = [taskSeen EXCEPT ![b] = TaskOfBid(b).status]
  /\ UNCHANGED <<vars, bids>>

\* market.routes.ts only: the task is read and must accept bids.
ReadTask(b) ==
  /\ Path[b] = "market" /\ bidPc[b] = "new" /\ FreeSlot
  /\ \/ TaskOfBid(b).status \in Biddable /\ Goto(b, "agent")
     \/ TaskOfBid(b).status \notin Biddable /\ Goto(b, "refused")
  /\ taskSeen' = [taskSeen EXCEPT ![b] = TaskOfBid(b).status]
  /\ UNCHANGED <<vars, bids>>

\* The agent is read and must be active: the adapter starts here.
CheckAgent(b) ==
  /\ \/ bidPc[b] = "agent"
     \/ Path[b] = "openclaw" /\ bidPc[b] = "new" /\ FreeSlot
  /\ \/ agent[BidAgent[b]].active /\ Goto(b, "create")
     \/ ~agent[BidAgent[b]].active /\ Goto(b, "refused")
  /\ UNCHANGED <<vars, bids, taskSeen>>

\* Mutant: the market forgets to open the task.
MutantMarketNeverOpens(b) == Path[b] = "openclaw"

\* Whether the submission goes on to the task: the adapter always does, the
\* market when the task it read was PENDING.
Opens(b) == Path[b] = "openclaw" \/ taskSeen[b] = "PENDING"

CreateBid(b) ==
  /\ bidPc[b] = "create"
  /\ bids' = bids \union {b}
  /\ Goto(b, IF Opens(b) THEN "open" ELSE "done")
  /\ UNCHANGED <<vars, taskSeen>>

\* Mutant: the adapter's update loses its condition.
MutantAlwaysWritten(b) == TRUE

\* updateMany of the adapter is conditional on PENDING, task.update of the
\* market is not.
Writes(b) == Path[b] = "openclaw" => TaskOfBid(b).status = "PENDING"

OpenTask(b) ==
  /\ bidPc[b] = "open"
  /\ task' = IF Writes(b) THEN [task EXCEPT ![BidTask[b]].status = "BIDDING"] ELSE task
  /\ Goto(b, "done")
  /\ UNCHANGED <<contract, agent, ledger, penalties, live, pc, call, seen, charged, bids, taskSeen>>

\* A statement throws, or the process dies.
FailBid(b) ==
  /\ b \in Bidding
  /\ Goto(b, "failed")
  /\ UNCHANGED <<vars, bids, taskSeen>>

----------------------------------------------------------------------------
(* The specification                                                       *)

\* Mutant: the bid is not looked up.
MutantAnyBid(op, c) == TRUE

\* acceptBidAndCreateContract loads the bid first.
BidOnRecord(op, c) == op = "select" => BidOf[c] \in bids

ContractStep ==
  /\ \E r \in Requests :
       \/ \E op \in Operation, c \in Contracts : \E severity \in Severable(op) :
            FreeSlot /\ BidOnRecord(op, c) /\ Begin(r, op, c, severity)
       \/ Step(r)
       \/ Fail(r)
  /\ UNCHANGED bidVars

BidStep(b) == CheckAgent(b) \/ CreateBid(b) \/ OpenTask(b)

\* Tasks are published PENDING; the bids of opened contracts are on record.
MarketInit ==
  /\ Init
  /\ \A t \in Tasks : task[t].status \in {"PENDING", "IN_PROGRESS"}
  /\ bids = {BidOf[c] : c \in Opened}
  /\ bidPc = [b \in Bids |-> IF b \in bids THEN "done" ELSE "new"]
  /\ taskSeen = [b \in Bids |-> "PENDING"]

MarketNext == ContractStep \/ \E b \in Bids : ReadTask(b) \/ BidStep(b) \/ FailBid(b)

MarketSpec == MarketInit /\ [][MarketNext]_marketVars

----------------------------------------------------------------------------
(* Properties                                                              *)

MarketTypeOK ==
  /\ TypeOK
  /\ bids \subseteq Bids
  /\ bidPc \in [Bids -> BidStatement \union {"new", "done", "refused", "failed"}]
  /\ taskSeen \in [Bids -> TaskStatus]

(* What holds however submissions, selections and contract operations      *)
(* interleave and wherever they fail.                                      *)

(* A task that left PENDING has a bid on record, and its assignee is one   *)
(* of its bidders: the bid row is written before the task row, and the     *)
(* contract operations only touch tasks a bid was selected for.            *)
TasksStandOnBids == \A t \in Tasks :
  /\ task[t].status # "PENDING" => \E b \in bids : BidTask[b] = t
  /\ task[t].assignee # NoAgent =>
       \E b \in bids : BidTask[b] = t /\ BidAgent[b] = task[t].assignee

(* A task with a bid stays PENDING only while a submission for it is under *)
(* way or because one failed: whichever of several first bids was the one  *)
(* to open it.                                                             *)
BidsOpenTheTask == \A b \in bids : TaskOfBid(b).status = "PENDING" =>
  \E d \in Bids : BidTask[d] = BidTask[b] /\ bidPc[d] \in {"open", "failed"}

(* What holds when the requests come one after the other.                  *)

Order(status) == CASE status = "PENDING" -> 0
                   [] status = "BIDDING" -> 1
                   [] status = "ASSIGNED" -> 2
                   [] status = "IN_PROGRESS" -> 3
                   [] OTHER -> 4

\* How far a contract can have taken its task.
Reach(status) == CASE status = "ABSENT" -> 0
                   [] status \in {"PROPOSED", "ACCEPTED"} -> 2
                   [] status \in {"ACTIVE", "TERMINATED"} -> 3
                   [] OTHER -> 4

(* A task goes PENDING, BIDDING, ASSIGNED, IN_PROGRESS, COMPLETED or       *)
(* FAILED, although two components write the column and neither checks it  *)
(* when it does.  It only goes back by the request of one contract after   *)
(* another contract of the same task has taken it there, as when a second  *)
(* bid is selected: no submission, and no operation on a task's only       *)
(* contract, ever takes a task back.                                       *)
TaskMovesForward ==
  [][\A t \in Tasks : Order(task'[t].status) < Order(task[t].status) =>
       \E r \in InFlight : \E c \in Contracts \ {ContractOf(r)} :
         /\ At(r, "task") /\ TaskOf[ContractOf(r)] = t
         /\ TaskOf[c] = t /\ Order(task[t].status) <= Reach(contract[c].status)]_task

(* "Task is in ${task.status} state and is not accepting bids", "Agent is  *)
(* deactivated (circuit breaker triggered)": no bid gets in from an agent  *)
(* the breaker has deactivated, and the market takes none for a task that  *)
(* has been assigned, although it reads the task two statements before it  *)
(* creates the bid.  The adapter does not read the task and does take such *)
(* bids.                                                                   *)
BidsAreAdmitted == [][\A b \in bids' \ bids :
  /\ agent[BidAgent[b]].active
  /\ Path[b] = "market" => TaskOfBid(b).assignee = NoAgent]_bids

============================================================================
