-------------------------- MODULE MarketHubProofs --------------------------
(***************************************************************************)
(* Proofs about MarketHub, for any number of tasks, bids, contracts and    *)
(* requests.  The steps of the contract service keep their type invariant  *)
(* by ContractServiceProofs; what is new is the task row, which both parts *)
(* write.                                                                  *)
(***************************************************************************)
EXTENDS MarketHub, ContractServiceProofs

----------------------------------------------------------------------------
(* Types                                                                   *)

LEMMA InitMarketTypeOK == MarketInit => MarketTypeOK
<1> SUFFICES ASSUME MarketInit PROVE MarketTypeOK
  OBVIOUS
<1>1. TypeOK
  BY InitTypeOK DEF MarketInit
<1>2. bids \subseteq Bids
  BY ConstantsAssumption, MarketAssumption DEF MarketInit
<1>3. QED
  BY <1>1, <1>2 DEF MarketInit, MarketTypeOK, BidStatement, TaskStatus

LEMMA ContractStepIsNext == ContractStep => Next /\ UNCHANGED bidVars
<1> SUFFICES ASSUME ContractStep PROVE Next /\ UNCHANGED bidVars
  OBVIOUS
<1>1. PICK r \in Requests :
        \/ \E op \in Operation, c \in Contracts : \E severity \in Severable(op) :
             FreeSlot /\ BidOnRecord(op, c) /\ Begin(r, op, c, severity)
        \/ Step(r)
        \/ Fail(r)
  BY DEF ContractStep
<1>2. Next
  BY <1>1 DEF Next
<1>3. QED
  BY <1>2 DEF ContractStep

LEMMA NextMarketTypeOK == MarketTypeOK /\ [MarketNext]_marketVars => MarketTypeOK'
<1> SUFFICES ASSUME MarketTypeOK, [MarketNext]_marketVars PROVE MarketTypeOK'
  OBVIOUS
<1> USE DEF MarketTypeOK
<1>1. CASE ContractStep
  BY <1>1, ContractStepIsNext, NextTypeOK DEF bidVars
<1>2. ASSUME NEW b \in Bids, ReadTask(b) \/ CheckAgent(b) \/ CreateBid(b) \/ FailBid(b)
      PROVE  MarketTypeOK'
  <2>1. UNCHANGED vars
    BY <1>2 DEF ReadTask, CheckAgent, CreateBid, FailBid
  <2>2. TypeOK'
    BY <2>1, NextTypeOK
  <2>3. TaskOfBid(b).status \in TaskStatus
    BY MarketAssumption DEF TaskOfBid, TypeOK, TaskRow
  <2>4. QED
    BY <1>2, <2>2, <2>3 DEF ReadTask, CheckAgent, CreateBid, FailBid, Goto, BidStatement
<1>3. ASSUME NEW b \in Bids, OpenTask(b)
      PROVE  MarketTypeOK'
  <2>1. task' \in [Tasks -> TaskRow]
    BY <1>3 DEF OpenTask, TypeOK, TaskRow, TaskStatus
  <2>2. TypeOK'
    BY <1>3, <2>1 DEF OpenTask, TypeOK, Admitted, InFlight, HandlerOf
  <2>3. QED
    BY <1>3, <2>2 DEF OpenTask, Goto, BidStatement
<1>4. CASE UNCHANGED marketVars
  <2>1. TypeOK'
    BY <1>4, NextTypeOK DEF marketVars
  <2>2. QED
    BY <1>4, <2>1 DEF marketVars, bidVars
<1>5. QED
  BY <1>1, <1>2, <1>3, <1>4 DEF MarketNext, BidStep

\* Types of the market and the contract service together.
THEOREM MarketTypeCorrect == MarketSpec => []MarketTypeOK
<1>1. QED
  BY InitMarketTypeOK, NextMarketTypeOK, PTL DEF MarketSpec

----------------------------------------------------------------------------
(* The inductive invariant: whatever is about to write a task row stands   *)
(* on a bid that is on record already.                                     *)

Stands(c) == BidOf[c] \in bids

ContractsStand == \A c \in Contracts : contract[c].status # "ABSENT" => Stands(c)
RequestsStand == \A r \in InFlight : Stands(ContractOf(r))
OpenersStand == \A b \in Bids : bidPc[b] = "open" => b \in bids

\* What a submission remembers as open has not become PENDING since.
SeenOpen == \A b \in Bids : Path[b] = "market" /\ bidPc[b] \in {"agent", "create"} =>
  taskSeen[b] = "PENDING" \/ TaskOfBid(b).status # "PENDING"

MarketInv == /\ ContractsStand /\ RequestsStand /\ OpenersStand /\ SeenOpen
             /\ TasksStandOnBids /\ BidsOpenTheTask

LEMMA InitMarketInv == MarketInit => MarketInv
<1> SUFFICES ASSUME MarketInit PROVE MarketInv
  OBVIOUS
<1> USE ConstantsAssumption, MarketAssumption
<1>1. bids = {BidOf[c] : c \in Opened} /\ InFlight = {}
  BY DEF MarketInit, Init, InFlight, Statement
<1>2. ContractsStand
  BY <1>1 DEF MarketInit, Init, ContractsStand, Stands
<1>3. \A b \in Bids : bidPc[b] \in {"done", "new"}
  BY DEF MarketInit
<1>4. \A b \in bids : TaskOfBid(b).status = "IN_PROGRESS"
  BY <1>1 DEF MarketInit, Init, TaskOfBid
<1>5. ASSUME NEW t \in Tasks
      PROVE  /\ task[t].status # "PENDING" => \E b \in bids : BidTask[b] = t
             /\ task[t].assignee # NoAgent =>
                  \E b \in bids : BidTask[b] = t /\ BidAgent[b] = task[t].assignee
  <2>1. CASE \E c \in Opened : TaskOf[c] = t
    <3> DEFINE d == CHOOSE c \in Opened : TaskOf[c] = t
    <3>1. d \in Opened /\ TaskOf[d] = t
      BY <2>1
    <3>2. task[t].assignee = AgentOf[d]
      BY <2>1 DEF MarketInit, Init
    <3> HIDE DEF d
    <3>3. BidOf[d] \in bids /\ BidTask[BidOf[d]] = t /\ BidAgent[BidOf[d]] = AgentOf[d]
      BY <1>1, <3>1
    <3>4. QED
      BY <3>2, <3>3
  <2>2. CASE ~\E c \in Opened : TaskOf[c] = t
    <3>1. task[t].assignee = NoAgent /\ task[t].status \in {"PENDING", "BIDDING"}
      BY <2>2 DEF MarketInit, Init
    <3>2. QED
      BY <3>1 DEF MarketInit
  <2>3. QED
    BY <2>1, <2>2
<1>6. QED
  BY <1>1, <1>2, <1>3, <1>4, <1>5
     DEF MarketInv, RequestsStand, OpenersStand, SeenOpen, TasksStandOnBids, BidsOpenTheTask

\* The one statement of the contract service that writes a task leaves it
\* ASSIGNED or later, and assigns it to nobody but its own delegatee.
LEMMA ContractTaskWrite ==
  ASSUME TypeOK, NEW r \in Requests, RequestStep(r)
  PROVE  \/ UNCHANGED task
         \/ /\ r \in InFlight /\ ContractOf(r) \in Contracts
            /\ \A t \in Tasks \ {TaskOf[ContractOf(r)]} : task'[t] = task[t]
            /\ task'[TaskOf[ContractOf(r)]].status \notin Biddable
            /\ task'[TaskOf[ContractOf(r)]].assignee \in
                 {DelegateeOf(r), task[TaskOf[ContractOf(r)]].assignee}
<1>1. ASSUME WriteTask(r)
      PROVE  /\ r \in InFlight /\ ContractOf(r) \in Contracts
             /\ \A t \in Tasks \ {TaskOf[ContractOf(r)]} : task'[t] = task[t]
             /\ task'[TaskOf[ContractOf(r)]].status \notin Biddable
             /\ task'[TaskOf[ContractOf(r)]].assignee \in
                  {DelegateeOf(r), task[TaskOf[ContractOf(r)]].assignee}
  <2>1. r \in InFlight /\ Await(r) /\ call' = call
    BY <1>1 DEF WriteTask, At, InFlight, Statement
  <2>2. /\ ContractOf(r) \in Contracts /\ call[r].op \in Operation
        /\ "task" \in DOMAIN HandlerOf(r).next
    BY <1>1, <2>1, AwaitType DEF WriteTask, At
  <2>3. HandlerOf(r).task \notin Biddable
    BY <2>2 DEF Biddable, HandlerOf, Handler, Operation, acceptBidAndCreateContract, acceptContract,
                activateContract, completeContract, reportBreach, terminateContract
  <2>4. QED
    BY <1>1, <2>1, <2>2, <2>3, ConstantsAssumption DEF WriteTask, TypeOK
<1>2. ~WriteTask(r) => UNCHANGED task
  BY DEF RequestStep, Step, Begin, Fail, WriteStatus, Grant, RecordPenalty, RecordLedger,
         ReadAgent, WriteAgent, Revoke, db
<1>3. QED
  BY <1>1, <1>2

\* A contract comes into being by a request that stands on a bid.
LEMMA ContractsComeFromRequests ==
  ASSUME TypeOK, NEW r \in Requests, RequestStep(r), NEW c \in Contracts
  PROVE  \/ contract'[c] = contract[c]
         \/ r \in InFlight /\ c = ContractOf(r)
  BY DEF TypeOK, RequestStep, Step, Begin, Fail, WriteStatus, WriteTask, Grant, RecordPenalty,
         RecordLedger, ReadAgent, WriteAgent, Revoke, db, InFlight, At, Statement

LEMMA ContractStepMarketInv ==
  ASSUME MarketTypeOK, MarketInv, ContractStep
  PROVE  MarketInv'
<1> USE ConstantsAssumption, MarketAssumption
<1>1. PICK r \in Requests :
        \/ \E op \in Operation, c \in Contracts : \E severity \in Severable(op) :
             FreeSlot /\ BidOnRecord(op, c) /\ Begin(r, op, c, severity)
        \/ Step(r)
        \/ Fail(r)
  BY DEF ContractStep
<1>2. RequestStep(r)
  BY <1>1 DEF RequestStep
<1>3. UNCHANGED <<bids, bidPc, taskSeen>> /\ TypeOK
  BY DEF ContractStep, bidVars, MarketTypeOK
<1>4. ContractsStand'
  BY <1>2, <1>3, ContractsComeFromRequests DEF MarketInv, ContractsStand, RequestsStand, Stands
<1>5. RequestsStand'
  <2> SUFFICES ASSUME NEW q \in InFlight' PROVE Stands(ContractOf(q))'
    BY DEF RequestsStand
  <2> q \in Requests
    BY DEF InFlight
  <2>1. CASE q # r
    BY <1>2, <1>3, <2>1, Frame DEF MarketInv, RequestsStand, Stands, InFlight, ContractOf
  <2>2. ASSUME q = r, NEW op \in Operation, NEW c \in Contracts, NEW severity \in Severable(op),
               BidOnRecord(op, c), Begin(r, op, c, severity)
        PROVE  Stands(ContractOf(q))'
    <3>1. contract[c].status \in Handler[op].from /\ ContractOf(q)' = c
      BY <1>3, <2>2 DEF Begin, TypeOK, InFlight, ContractOf, Statement
    <3>2. op # "select" => contract[c].status # "ABSENT"
      BY <3>1 DEF Handler, Operation, acceptContract, activateContract, completeContract,
                  reportBreach, terminateContract
    <3>3. QED
      BY <1>3, <2>2, <3>1, <3>2 DEF BidOnRecord, MarketInv, ContractsStand, Stands
  <2>3. CASE q = r /\ (Step(r) \/ Fail(r))
    <3>1. r \in InFlight /\ call' = call
      BY <2>3 DEF Step, Fail, InFlight, At, Statement, WriteStatus, WriteTask, Grant,
                  RecordPenalty, RecordLedger, ReadAgent, WriteAgent, Revoke
    <3>2. QED
      BY <1>3, <2>3, <3>1 DEF MarketInv, RequestsStand, Stands, ContractOf
  <2>4. QED
    BY <1>1, <2>1, <2>2, <2>3
<1>6. \A t \in Tasks : task[t].status # "PENDING" => task'[t].status # "PENDING"
  BY <1>2, <1>3, ContractTaskWrite DEF Biddable
<1>7. OpenersStand' /\ SeenOpen' /\ BidsOpenTheTask'
  BY <1>3, <1>6 DEF MarketInv, MarketTypeOK, OpenersStand, SeenOpen, BidsOpenTheTask, TaskOfBid
<1>8. TasksStandOnBids'
  <2> SUFFICES ASSUME NEW t \in Tasks
               PROVE  /\ task'[t].status # "PENDING" => \E b \in bids : BidTask[b] = t
                      /\ task'[t].assignee # NoAgent =>
                           \E b \in bids : BidTask[b] = t /\ BidAgent[b] = task'[t].assignee
    BY <1>3 DEF TasksStandOnBids
  <2>1. CASE task'[t] = task[t]
    BY <2>1 DEF MarketInv, TasksStandOnBids
  <2>2. CASE task'[t] # task[t]
    <3>1. /\ r \in InFlight /\ ContractOf(r) \in Contracts /\ t = TaskOf[ContractOf(r)]
          /\ task'[t].assignee \in {DelegateeOf(r), task[t].assignee}
      BY <1>2, <1>3, <2>2, ContractTaskWrite
    <3>2. BidOf[ContractOf(r)] \in bids
      BY <3>1 DEF MarketInv, RequestsStand, Stands
    <3>3. QED
      BY <3>1, <3>2 DEF MarketInv, TasksStandOnBids, DelegateeOf
  <2>3. QED
    BY <2>1, <2>2
<1>9. QED
  BY <1>4, <1>5, <1>7, <1>8 DEF MarketInv

\* A statement of a submission other than the last leaves the rows of the
\* contract service alone.
LEMMA SubmissionMarketInv ==
  ASSUME MarketTypeOK, MarketInv, NEW b \in Bids,
         ReadTask(b) \/ CheckAgent(b) \/ CreateBid(b) \/ FailBid(b)
  PROVE  MarketInv'
<1> USE MarketAssumption
<1>1. UNCHANGED vars /\ bids \subseteq bids'
  BY DEF ReadTask, CheckAgent, CreateBid, FailBid
<1>2. ContractsStand' /\ RequestsStand' /\ TasksStandOnBids'
  BY <1>1 DEF vars, MarketInv, ContractsStand, RequestsStand, TasksStandOnBids, Stands,
              InFlight, ContractOf
<1>3. \A d \in Bids \ {b} : bidPc'[d] = bidPc[d] /\ taskSeen'[d] = taskSeen[d]
  BY DEF ReadTask, CheckAgent, CreateBid, FailBid, Goto, MarketTypeOK
<1>4. OpenersStand'
  BY <1>1, <1>3 DEF MarketInv, OpenersStand, MarketTypeOK, ReadTask, CheckAgent, CreateBid,
                    FailBid, Goto, BidStatement
<1>5. SeenOpen'
  BY <1>1, <1>3 DEF vars, MarketInv, SeenOpen, MarketTypeOK, TaskOfBid, ReadTask, CheckAgent,
                    CreateBid, FailBid, Goto, Biddable, BidStatement
<1>6. BidsOpenTheTask'
  <2> SUFFICES ASSUME NEW e \in bids', TaskOfBid(e)'.status = "PENDING"
               PROVE  \E d \in Bids : BidTask[d] = BidTask[e] /\ bidPc'[d] \in {"open", "failed"}
    BY DEF BidsOpenTheTask
  <2>1. CASE e \in bids
    <3>1. PICK d \in Bids : BidTask[d] = BidTask[e] /\ bidPc[d] \in {"open", "failed"}
      BY <1>1, <2>1 DEF vars, MarketInv, BidsOpenTheTask, TaskOfBid
    <3>2. bidPc'[d] \in {"open", "failed"}
      BY <1>3, <3>1 DEF MarketTypeOK, ReadTask, CheckAgent, CreateBid, FailBid, Goto, BidStatement
    <3>3. QED
      BY <3>1, <3>2
  <2>2. CASE e \notin bids
    <3>1. e = b /\ CreateBid(b)
      BY <2>2 DEF ReadTask, CheckAgent, CreateBid, FailBid
    <3>2. Path[b] = "market" \/ Path[b] = "openclaw"
      OBVIOUS
    <3>3. Opens(b)
      BY <1>1, <3>1, <3>2 DEF vars, MarketInv, SeenOpen, CreateBid, Opens, TaskOfBid
    <3>4. bidPc'[b] = "open"
      BY <3>1, <3>3 DEF CreateBid, Goto, MarketTypeOK
    <3>5. QED
      BY <3>1, <3>4
  <2>3. QED
    BY <2>1, <2>2
<1>7. QED
  BY <1>2, <1>4, <1>5, <1>6 DEF MarketInv

LEMMA OpenTaskMarketInv ==
  ASSUME MarketTypeOK, MarketInv, NEW b \in Bids, OpenTask(b)
  PROVE  MarketInv'
<1> USE MarketAssumption
<1>1. UNCHANGED <<contract, pc, call, bids, taskSeen>>
  BY DEF OpenTask
<1>2. b \in bids /\ bidPc[b] = "open"
  BY DEF OpenTask, MarketInv, OpenersStand
<1>3. /\ \A t \in Tasks \ {BidTask[b]} : task'[t] = task[t]
      /\ \A t \in Tasks : task'[t].assignee = task[t].assignee
      /\ task'[BidTask[b]].status # "PENDING"
  <2>1. CASE Writes(b)
    BY <2>1 DEF OpenTask, MarketTypeOK, TypeOK, TaskRow
  <2>2. CASE ~Writes(b)
    BY <2>2 DEF OpenTask, Writes, TaskOfBid
  <2>3. QED
    BY <2>1, <2>2
<1>4. /\ bidPc'[b] = "done"
      /\ \A d \in Bids \ {b} : bidPc'[d] = bidPc[d]
  BY DEF OpenTask, Goto, MarketTypeOK
<1>5. ContractsStand' /\ RequestsStand' /\ OpenersStand'
  BY <1>1, <1>4 DEF MarketInv, ContractsStand, RequestsStand, OpenersStand, Stands,
                    InFlight, ContractOf
<1>6. SeenOpen'
  BY <1>1, <1>3, <1>4 DEF MarketInv, SeenOpen, TaskOfBid
<1>7. TasksStandOnBids'
  BY <1>1, <1>2, <1>3 DEF MarketInv, TasksStandOnBids
<1>8. BidsOpenTheTask'
  <2> SUFFICES ASSUME NEW e \in bids, TaskOfBid(e)'.status = "PENDING"
               PROVE  \E d \in Bids : BidTask[d] = BidTask[e] /\ bidPc'[d] \in {"open", "failed"}
    BY <1>1 DEF BidsOpenTheTask
  <2>1. e \in Bids /\ BidTask[e] # BidTask[b] /\ TaskOfBid(e).status = "PENDING"
    BY <1>3 DEF MarketTypeOK, TaskOfBid
  <2>2. QED
    BY <1>4, <2>1 DEF MarketInv, BidsOpenTheTask
<1>9. QED
  BY <1>5, <1>6, <1>7, <1>8 DEF MarketInv

LEMMA NextMarketInv == MarketTypeOK /\ MarketInv /\ [MarketNext]_marketVars => MarketInv'
<1> SUFFICES ASSUME MarketTypeOK, MarketInv, [MarketNext]_marketVars PROVE MarketInv'
  OBVIOUS
<1>1. CASE MarketNext
  BY <1>1, ContractStepMarketInv, SubmissionMarketInv, OpenTaskMarketInv DEF MarketNext, BidStep
<1>2. CASE UNCHANGED marketVars
  BY <1>2 DEF marketVars, vars, bidVars, MarketInv, ContractsStand, RequestsStand, OpenersStand,
              SeenOpen, TasksStandOnBids, BidsOpenTheTask, Stands, InFlight, ContractOf, TaskOfBid
<1>3. QED
  BY <1>1, <1>2

THEOREM MarketInvariant == MarketSpec => []MarketInv
<1>1. QED
  BY InitMarketInv, NextMarketInv, MarketTypeCorrect, PTL DEF MarketSpec

\* However submissions, selections and contract operations interleave, no
\* task leaves PENDING and none is assigned without a bid to show for it.
THEOREM TasksAreBidFor == MarketSpec => []TasksStandOnBids
<1>1. MarketInv => TasksStandOnBids
  BY DEF MarketInv
<1>2. QED
  BY <1>1, MarketInvariant, PTL

\* A recorded bid opens its task, however several first bids race to do so.
THEOREM BidsOpen == MarketSpec => []BidsOpenTheTask
<1>1. MarketInv => BidsOpenTheTask
  BY DEF MarketInv
<1>2. QED
  BY <1>1, MarketInvariant, PTL

----------------------------------------------------------------------------
(* One request at a time.  A submission acts on what is there: the task    *)
(* is as it read it, and its agent still active.                           *)

OneAtWork ==
  /\ InFlight = {} \/ Bidding = {}
  /\ \A b, d \in Bidding : b = d

SeenIsCurrent == \A b \in Bidding :
  /\ bidPc[b] = "create" => agent[BidAgent[b]].active
  /\ Path[b] = "market" => TaskOfBid(b).status \in Biddable /\ taskSeen[b] = TaskOfBid(b).status
  /\ bidPc[b] = "open" => Opens(b)

BiddableIsFree == \A t \in Tasks : task[t].status \in Biddable => task[t].assignee = NoAgent

AdmissionInv == OneAtWork /\ SeenIsCurrent /\ BiddableIsFree

LEMMA NobodyAtWork ==
  ASSUME MaxInFlight = 1, FreeSlot
  PROVE  InFlight = {} /\ Bidding = {}
<1>1. IsFiniteSet(InFlight) /\ IsFiniteSet(Bidding)
  BY ConstantsAssumption, MarketAssumption, FS_Subset DEF InFlight, Bidding
<1>2. Cardinality(InFlight) \in Nat /\ Cardinality(Bidding) \in Nat
  BY <1>1, FS_CardinalityType
<1>3. Cardinality(InFlight) = 0 /\ Cardinality(Bidding) = 0
  BY <1>2 DEF FreeSlot
<1>4. QED
  BY <1>1, <1>3, FS_EmptySet

\* No submission is under way while a contract operation is.
LEMMA ContractsWorkAlone ==
  ASSUME MaxInFlight = 1, MarketTypeOK, OneAtWork, ContractStep
  PROVE  /\ Bidding = {} /\ Bidding' = {} /\ UNCHANGED <<bids, bidPc, taskSeen>>
         /\ \E r \in Requests : RequestStep(r)
<1>1. PICK r \in Requests :
        \/ \E op \in Operation, c \in Contracts : \E severity \in Severable(op) :
             FreeSlot /\ BidOnRecord(op, c) /\ Begin(r, op, c, severity)
        \/ Step(r)
        \/ Fail(r)
  BY DEF ContractStep
<1>2. Step(r) \/ Fail(r) => r \in InFlight
  BY DEF Step, Fail, WriteStatus, WriteTask, Grant, RecordPenalty, RecordLedger, ReadAgent,
         WriteAgent, Revoke, At, InFlight, Statement
<1>3. Bidding = {}
  BY <1>1, <1>2, NobodyAtWork DEF OneAtWork
<1>4. UNCHANGED <<bids, bidPc, taskSeen>>
  BY DEF ContractStep, bidVars
<1>5. QED
  BY <1>1, <1>3, <1>4 DEF Bidding, RequestStep

\* A submission only starts when nobody is at work, and others stay away
\* until it is over.
LEMMA SubmissionsWorkAlone ==
  ASSUME MaxInFlight = 1, MarketTypeOK, OneAtWork, NEW b \in Bids,
         ReadTask(b) \/ BidStep(b) \/ FailBid(b)
  PROVE  /\ InFlight = {} /\ InFlight' = {} /\ Bidding \subseteq {b} /\ Bidding' \subseteq {b}
         /\ UNCHANGED <<contract, agent, ledger, penalties, live, pc, call, seen, charged>>
         /\ OneAtWork'
<1>1. UNCHANGED <<contract, agent, ledger, penalties, live, pc, call, seen, charged>>
  BY DEF ReadTask, BidStep, CheckAgent, CreateBid, OpenTask, FailBid, vars
<1>2. FreeSlot \/ b \in Bidding
  BY DEF ReadTask, BidStep, CheckAgent, CreateBid, OpenTask, FailBid, Bidding, BidStatement
<1>3. InFlight = {} /\ Bidding \subseteq {b}
  BY <1>2, NobodyAtWork DEF OneAtWork
<1>4. \A d \in Bids \ {b} : bidPc'[d] = bidPc[d]
  BY DEF ReadTask, BidStep, CheckAgent, CreateBid, OpenTask, FailBid, Goto, MarketTypeOK
<1>5. InFlight' = {} /\ Bidding' \subseteq {b}
  BY <1>1, <1>3, <1>4 DEF InFlight, Bidding
<1>6. QED
  BY <1>1, <1>3, <1>5 DEF OneAtWork

LEMMA SubmissionAdmissionInv ==
  ASSUME MaxInFlight = 1, MarketTypeOK, AdmissionInv, NEW b \in Bids,
         ReadTask(b) \/ BidStep(b) \/ FailBid(b)
  PROVE  AdmissionInv'
<1> USE MarketAssumption DEF AdmissionInv
<1>1. /\ Bidding \subseteq {b} /\ Bidding' \subseteq {b} /\ agent' = agent /\ OneAtWork'
  BY SubmissionsWorkAlone
<1>2. CASE OpenTask(b)
  <2>1. Bidding' = {}
    BY <1>1, <1>2 DEF OpenTask, Goto, Bidding, BidStatement, MarketTypeOK
  <2>2. b \in Bidding
    BY <1>2 DEF OpenTask, Bidding, BidStatement
  <2>3. Writes(b) => TaskOfBid(b).status \in Biddable
    BY <2>2 DEF Writes, SeenIsCurrent, Biddable
  <2>4. \A t \in Tasks : /\ task'[t].assignee = task[t].assignee
                         /\ task'[t].status \in Biddable => task[t].status \in Biddable
    BY <1>2, <2>3 DEF OpenTask, MarketTypeOK, TypeOK, TaskRow, TaskOfBid
  <2>5. QED
    BY <1>1, <2>1, <2>4 DEF SeenIsCurrent, BiddableIsFree
<1>3. CASE ~OpenTask(b)
  <2>1. task' = task
    BY <1>3 DEF ReadTask, BidStep, CheckAgent, CreateBid, FailBid, vars
  <2>2. SeenIsCurrent'
    <3> SUFFICES ASSUME b \in Bidding'
                 PROVE  /\ bidPc'[b] = "create" => agent[BidAgent[b]].active
                        /\ Path[b] = "market" =>
                             /\ TaskOfBid(b).status \in Biddable
                             /\ taskSeen'[b] = TaskOfBid(b).status
                        /\ bidPc'[b] = "open" => Opens(b)'
      BY <1>1, <2>1 DEF SeenIsCurrent, TaskOfBid
    <3>1. CASE ReadTask(b)
      BY <3>1 DEF ReadTask, Goto, MarketTypeOK, Bidding, BidStatement
    <3>2. CASE CheckAgent(b)
      BY <3>2 DEF CheckAgent, Goto, MarketTypeOK, Bidding, BidStatement, SeenIsCurrent
    <3>3. CASE CreateBid(b)
      BY <3>3 DEF CreateBid, Goto, MarketTypeOK, Bidding, BidStatement, SeenIsCurrent, Opens
    <3>4. CASE FailBid(b)
      BY <3>4 DEF FailBid, Goto, MarketTypeOK, Bidding, BidStatement
    <3>5. QED
      BY <1>3, <3>1, <3>2, <3>3, <3>4 DEF BidStep
  <2>3. QED
    BY <1>1, <2>1, <2>2 DEF BiddableIsFree
<1>4. QED
  BY <1>2, <1>3

LEMMA ContractAdmissionInv ==
  ASSUME MaxInFlight = 1, MarketTypeOK, AdmissionInv, ContractStep
  PROVE  AdmissionInv'
<1> USE DEF AdmissionInv
<1>1. PICK r \in Requests : RequestStep(r)
  BY ContractsWorkAlone
<1>2. Bidding' = {}
  BY ContractsWorkAlone
<1>3. BiddableIsFree'
  BY <1>1, ContractTaskWrite DEF BiddableIsFree, MarketTypeOK
<1>4. QED
  BY <1>2, <1>3 DEF OneAtWork, SeenIsCurrent

LEMMA AdmissionInvariant ==
  ASSUME MaxInFlight = 1
  PROVE  MarketSpec => []AdmissionInv
<1>1. MarketInit => AdmissionInv
  <2> SUFFICES ASSUME MarketInit PROVE AdmissionInv
    OBVIOUS
  <2>1. InFlight = {} /\ Bidding = {}
    BY DEF MarketInit, Init, InFlight, Bidding, Statement, BidStatement
  <2>2. BiddableIsFree
    BY DEF MarketInit, Init, BiddableIsFree, Biddable
  <2>3. QED
    BY <2>1, <2>2 DEF AdmissionInv, OneAtWork, SeenIsCurrent
<1>2. MarketTypeOK /\ AdmissionInv /\ [MarketNext]_marketVars => AdmissionInv'
  <2> SUFFICES ASSUME MarketTypeOK, AdmissionInv, [MarketNext]_marketVars PROVE AdmissionInv'
    OBVIOUS
  <2>1. CASE MarketNext
    BY <2>1, ContractAdmissionInv, SubmissionAdmissionInv DEF MarketNext
  <2>2. CASE UNCHANGED marketVars
    BY <2>2 DEF marketVars, vars, bidVars, AdmissionInv, OneAtWork, SeenIsCurrent, BiddableIsFree,
                InFlight, Bidding, TaskOfBid, Opens
  <2>3. QED
    BY <2>1, <2>2
<1>3. QED
  BY <1>1, <1>2, MarketTypeCorrect, PTL DEF MarketSpec

----------------------------------------------------------------------------
(* The contract service in the market.  A submission writes nothing of     *)
(* what the service works on but the status of a task, so the invariants   *)
(* of the service that do not speak of tasks hold in the market too.       *)

serviceVars == <<contract, agent, ledger, penalties, live, pc, call, seen, charged>>

LEMMA MarketStepOfService == [MarketNext]_marketVars => [Next]_vars \/ UNCHANGED serviceVars
<1> SUFFICES ASSUME [MarketNext]_marketVars PROVE [Next]_vars \/ UNCHANGED serviceVars
  OBVIOUS
<1>1. CASE ContractStep
  BY <1>1, ContractStepIsNext
<1>2. ASSUME NEW b \in Bids, ReadTask(b) \/ BidStep(b) \/ FailBid(b)
      PROVE  UNCHANGED serviceVars
  BY <1>2 DEF ReadTask, BidStep, CheckAgent, CreateBid, OpenTask, FailBid, vars, serviceVars
<1>3. CASE UNCHANGED marketVars
  BY <1>3 DEF marketVars
<1>4. QED
  BY <1>1, <1>2, <1>3 DEF MarketNext

ServiceInv == RecordsInv /\ ReputationInv /\ PenaltyInv /\ ChargesWithinApplied

LEMMA NextServiceInv == MarketTypeOK /\ ServiceInv /\ [MarketNext]_marketVars => ServiceInv'
<1> SUFFICES ASSUME MarketTypeOK, ServiceInv, [MarketNext]_marketVars PROVE ServiceInv'
  OBVIOUS
<1> USE DEF ServiceInv
<1>1. CASE [Next]_vars
  BY <1>1, NextRecordsInv, NextReputationInv, NextPenaltyInv DEF MarketTypeOK
<1>2. CASE UNCHANGED serviceVars
  <2> USE <1>2 DEF serviceVars, InFlight, At, ContractOf
  <2>1. RecordsInv'
    BY DEF RecordsInv, ActiveWasActivated, Progress, LedgerTrail, FailureIsPenalised,
           GrantsFollowActivation, Penalised
  <2>2. ReputationInv'
    BY DEF ReputationInv, ReadWithinCharges, ScoreWithinCharges, BreakerConsistent,
           OnlyThePenalisedLose, Within, DelegateeOf
  <2>3. PenaltyInv' /\ ChargesWithinApplied'
    BY DEF PenaltyInv, ChargesWithinApplied, Applied, PenaltiesOf, PenaltyRow
  <2>4. QED
    BY <2>1, <2>2, <2>3
<1>3. QED
  BY <1>1, <1>2, MarketStepOfService

THEOREM ServiceInvariant == MarketSpec => []ServiceInv
<1>1. MarketInit => ServiceInv
  BY InitRecordsInv, InitReputationInv, InitPenaltyInv DEF MarketInit, ServiceInv
<1>2. QED
  BY <1>1, NextServiceInv, MarketTypeCorrect, PTL DEF MarketSpec

\* However submissions, selections and contract operations interleave, the
\* ledger, the penalties, the grants and the scores are worth what they are
\* without a market: verdicts only on work that had begun, no failure
\* without its penalty, no charge without a record, no active agent below
\* the threshold.
THEOREM MarketKeepsTheRecords ==
  MarketSpec => [](/\ LedgerTrail /\ FailureIsPenalised /\ GrantsFollowActivation
                   /\ BreakerConsistent /\ ScoreWithinCharges /\ ChargesAreRecorded)
<1>1. MarketTypeOK /\ ServiceInv =>
        /\ LedgerTrail /\ FailureIsPenalised /\ GrantsFollowActivation
        /\ BreakerConsistent /\ ScoreWithinCharges /\ ChargesAreRecorded
  BY AppliedAreRecorded DEF ServiceInv, RecordsInv, ReputationInv, MarketTypeOK
<1>2. QED
  BY <1>1, ServiceInvariant, MarketTypeCorrect, PTL

SerialServiceInv == SerialInv /\ SettledInv /\ ReadIsCurrent /\ ScoreInv

LEMMA NextSerialServiceInv ==
  ASSUME MaxInFlight = 1
  PROVE  MarketTypeOK /\ ServiceInv /\ SerialServiceInv /\ [MarketNext]_marketVars => SerialServiceInv'
<1> SUFFICES ASSUME MarketTypeOK, ServiceInv, SerialServiceInv, [MarketNext]_marketVars
             PROVE  SerialServiceInv'
  OBVIOUS
<1> USE DEF SerialServiceInv
<1>1. CASE [Next]_vars
  BY <1>1, NextSerialInv, NextSettledInv, NextReadIsCurrent, NextScoreInv DEF MarketTypeOK, ServiceInv
<1>2. CASE UNCHANGED serviceVars
  <2> USE <1>2 DEF serviceVars, InFlight, Admitted, At, ContractOf, HandlerOf, DelegateeOf
  <2>1. SerialInv'
    BY DEF SerialInv, OneInFlight, GuardStillHolds
  <2>2. SettledInv'
    BY DEF SettledInv, StatusWritten, LedgerAhead, LedgerIsConsistent, EndedHoldsNoGrant,
           Concerned, Ledgered
  <2>3. ReadIsCurrent'
    BY DEF ReadIsCurrent
  <2>4. ScoreInv'
    BY DEF ScoreInv, FailedBreach, Applied, PenaltiesOf
  <2>5. QED
    BY <2>1, <2>2, <2>3, <2>4
<1>3. QED
  BY <1>1, <1>2, MarketStepOfService

LEMMA SerialServiceInvariant ==
  ASSUME MaxInFlight = 1
  PROVE  MarketSpec => []SerialServiceInv
<1>1. MarketInit => SerialServiceInv
  <2> SUFFICES ASSUME MarketInit PROVE SerialServiceInv
    OBVIOUS
  <2>1. Init /\ InFlight = {}
    BY DEF MarketInit, Init, InFlight, Statement
  <2>2. SerialInv /\ ReadIsCurrent
    BY <2>1 DEF SerialInv, OneInFlight, GuardStillHolds, ReadIsCurrent
  <2>3. QED
    BY <2>1, <2>2, InitSettledInv, InitScoreInv DEF SerialServiceInv
<1>2. QED
  BY <1>1, NextSerialServiceInv, ServiceInvariant, MarketTypeCorrect, PTL DEF MarketSpec

\* One request at a time, submissions included: the ledger has at most one
\* row about a contract, which agrees with how it ended.
THEOREM SerialMarketLedgerIsConsistent ==
  ASSUME MaxInFlight = 1
  PROVE  MarketSpec => []LedgerIsConsistent
<1>1. SerialServiceInv => LedgerIsConsistent
  BY DEF SerialServiceInv, SettledInv
<1>2. QED
  BY <1>1, SerialServiceInvariant, PTL

\* One request at a time, submissions included: an ended contract holds
\* grants only on account of a request that has not reached the revocation.
THEOREM SerialMarketEndRevokes ==
  ASSUME MaxInFlight = 1
  PROVE  MarketSpec => []EndedHoldsNoGrant
<1>1. SerialServiceInv => EndedHoldsNoGrant
  BY DEF SerialServiceInv, SettledInv
<1>2. QED
  BY <1>1, SerialServiceInvariant, PTL

\* One request at a time, submissions included: a score is the initial one
\* less the recorded penalties, once every breach report has come to its end.
THEOREM SerialMarketScoresMatch ==
  ASSUME MaxInFlight = 1
  PROVE  MarketSpec => []ScoreMatchesPenalties
<1>1. MarketTypeOK /\ ServiceInv /\ SerialServiceInv => ScoreMatchesPenalties
  BY ScoresAreUpToDate DEF SerialServiceInv, ServiceInv, MarketTypeOK
<1>2. QED
  BY <1>1, SerialServiceInvariant, ServiceInvariant, MarketTypeCorrect, PTL

\* One request at a time, the market and the contract service together
\* implement the documented lifecycle, and no bid moves a contract.
THEOREM SerialMarketImplementsLifecycle ==
  ASSUME MaxInFlight = 1
  PROVE  MarketSpec => LifecycleSpec
<1>1. MarketInit => Lifecycle!Init
  BY DEF MarketInit, Init, Lifecycle!Init
<1>2. MarketTypeOK /\ SerialServiceInv /\ [MarketNext]_marketVars =>
        [Lifecycle!Next]_([c \in Contracts |-> contract[c].status])
  <2> SUFFICES ASSUME MarketTypeOK, SerialServiceInv, [MarketNext]_marketVars
               PROVE  [Lifecycle!Next]_([c \in Contracts |-> contract[c].status])
    OBVIOUS
  <2>1. CASE [Next]_vars
    BY <2>1, NextFollowsLifecycle DEF MarketTypeOK, SerialServiceInv
  <2>2. CASE UNCHANGED serviceVars
    BY <2>2 DEF serviceVars
  <2>3. QED
    BY <2>1, <2>2, MarketStepOfService
<1>3. QED
  BY <1>1, <1>2, SerialServiceInvariant, MarketTypeCorrect, PTL
     DEF MarketSpec, LifecycleSpec, Lifecycle!Spec

\* One request at a time: task, assignee and live grants agree with the
\* contracts made for the task, however many, unless a request about one of
\* them is under way or has failed, although submissions open tasks as well.
THEOREM SerialMarketTaskAgrees ==
  ASSUME MaxInFlight = 1
  PROVE  MarketSpec => []TaskAgrees
<1>1. MarketInit => TaskInv
  BY InitTaskInv DEF MarketInit
<1>2. /\ MarketTypeOK /\ AdmissionInv /\ SerialServiceInv /\ TaskInv
      /\ [MarketNext]_marketVars
      => TaskInv'
  <2> SUFFICES ASSUME MarketTypeOK, AdmissionInv, SerialServiceInv, TaskInv,
                      [MarketNext]_marketVars
               PROVE  TaskInv'
    OBVIOUS
  <2>1. CASE [Next]_vars
    BY <2>1, NextTaskInv DEF MarketTypeOK, SerialServiceInv
  <2>2. ASSUME NEW b \in Bids, OpenTask(b)
        PROVE  TaskInv'
    <3>1. /\ UNCHANGED <<contract, agent, ledger, penalties, live, pc, call, seen, charged>>
          /\ InFlight = {} /\ InFlight' = {}
      BY <2>2, SubmissionsWorkAlone DEF BidStep, AdmissionInv
    <3>2. Writes(b) => TaskOfBid(b).status = "PENDING"
      BY <2>2, MarketAssumption
         DEF OpenTask, Writes, AdmissionInv, SeenIsCurrent, Opens, Bidding, BidStatement
    <3>3. \A t \in Tasks : /\ task'[t].assignee = task[t].assignee
                           /\ \/ task'[t].status = task[t].status
                              \/ task[t].status = "PENDING" /\ task'[t].status = "BIDDING"
      BY <2>2, <3>2, MarketAssumption DEF OpenTask, TaskOfBid, MarketTypeOK, TypeOK, TaskRow
    <3>4. \A s \in ContractStatus : "PENDING" \notin TaskStatusFor(s)
      BY DEF TaskStatusFor, ContractStatus, EndedStatus
    <3>5. ASSUME NEW t \in Tasks, Agreement(t)
          PROVE  Agreement(t)'
      <4>1. /\ MadeFor(t)' = MadeFor(t)
            /\ \A c \in MadeFor(t) : contract[c].status \in ContractStatus
        BY <3>1 DEF MadeFor, MarketTypeOK, TypeOK, ContractRow
      <4>2. \A c \in Contracts : TaskOf[c] = t => GrantsAgree(c)'
        BY <3>1, <3>5 DEF Agreement, GrantsAgree, MadeFor
      <4>3. MadeFor(t) # {} => task'[t].status = task[t].status
        BY <3>3, <3>4, <3>5, <4>1 DEF Agreement
      <4>4. QED
        BY <3>1, <3>3, <3>5, <4>1, <4>2, <4>3 DEF Agreement
    <3>6. \A t \in Tasks : FailedTask(t) => FailedTask(t)'
      BY <3>1 DEF FailedTask, Failed, Admitted, At, ContractOf
    <3>7. QED
      BY <3>1, <3>5, <3>6 DEF TaskInv, Accounted
  <2>3. ASSUME NEW b \in Bids, ReadTask(b) \/ BidStep(b) \/ FailBid(b), ~OpenTask(b)
        PROVE  UNCHANGED vars
    BY <2>3 DEF ReadTask, BidStep, CheckAgent, CreateBid, FailBid, vars
  <2>4. QED
    BY <2>1, <2>2, <2>3, ContractStepIsNext DEF MarketNext, BidStep, marketVars
<1>3. MarketTypeOK /\ TaskInv => TaskAgrees
  BY AccountedTasksAgree DEF MarketTypeOK
<1>4. QED
  BY <1>1, <1>2, <1>3, AdmissionInvariant, SerialServiceInvariant, MarketTypeCorrect,
     PTL DEF MarketSpec

----------------------------------------------------------------------------
(* How far a task can have come: no further than bids take it, or than one *)
(* of its contracts can have.                                              *)

Backed(t) ==
  \/ Order(task[t].status) <= 1
  \/ \E c \in Contracts : TaskOf[c] = t /\ Order(task[t].status) <= Reach(contract[c].status)

TasksAreBacked == \A t \in Tasks : Backed(t)

ProgressInv == SerialInv /\ SettledInv /\ AdmissionInv /\ TasksAreBacked

\* A handler takes its contract further, and its statement about the task,
\* if it has one, takes the task as far.
LEMMA HandlerReach ==
  ASSUME NEW op \in Operation
  PROVE  /\ \A s \in Handler[op].from : Reach(s) <= Reach(Handler[op].to)
         /\ "task" \in DOMAIN Handler[op].next => Order(Handler[op].task) = Reach(Handler[op].to)
<1>1. /\ Reach("ABSENT") = 0 /\ Reach("PROPOSED") = 2 /\ Reach("ACCEPTED") = 2
      /\ Reach("ACTIVE") = 3 /\ Reach("TERMINATED") = 3
      /\ Reach("COMPLETED") = 4 /\ Reach("BREACHED") = 4
  BY DEF Reach
<1>2. /\ Order("ASSIGNED") = 2 /\ Order("IN_PROGRESS") = 3
      /\ Order("COMPLETED") = 4 /\ Order("FAILED") = 4
  BY DEF Order
<1>3. QED
  BY <1>1, <1>2 DEF Operation, Handler, acceptBidAndCreateContract, acceptContract, activateContract,
                    completeContract, reportBreach, terminateContract

LEMMA OrderTypes ==
  /\ \A s \in TaskStatus : Order(s) \in 0..4
  /\ \A s \in ContractStatus : Reach(s) \in 0..4
  BY DEF Order, Reach

TakenBackByAnother(t) ==
  \E r \in InFlight : \E c \in Contracts \ {ContractOf(r)} :
    /\ At(r, "task") /\ TaskOf[ContractOf(r)] = t
    /\ TaskOf[c] = t /\ Order(task[t].status) <= Reach(contract[c].status)

Forward == \A t \in Tasks :
  Order(task'[t].status) < Order(task[t].status) => TakenBackByAnother(t)

LEMMA ContractStepForward ==
  ASSUME MaxInFlight = 1, MarketTypeOK, ProgressInv, ContractStep
  PROVE  Forward /\ TasksAreBacked'
<1>1. TypeOK /\ SerialInv /\ SettledInv /\ TasksAreBacked
  BY DEF MarketTypeOK, ProgressInv
<1>2. PICK r \in Requests : RequestStep(r)
  BY ContractsWorkAlone DEF ProgressInv, AdmissionInv
<1>3. \A t \in Tasks : Order(task[t].status) \in 0..4
  BY <1>1, OrderTypes DEF TypeOK, TaskRow
<1>4. \A c \in Contracts : TaskOf[c] \in Tasks /\ Reach(contract[c].status) \in 0..4
  BY <1>1, OrderTypes, ConstantsAssumption DEF TypeOK, ContractRow
<1>5. CASE ~Step(r)
  <2>1. task' = task /\ contract' = contract
    BY <1>1, <1>2, <1>5, RunsAlone DEF db
  <2>2. QED
    BY <1>1, <1>3, <2>1 DEF Forward, TasksAreBacked, Backed
<1>6. CASE Step(r)
  <2> DEFINE d == ContractOf(r)
  <2>1. /\ r \in InFlight /\ d \in Contracts /\ call[r].op \in Operation
        /\ HandlerOf(r) = Handler[call[r].op] /\ pc[r] \in DOMAIN HandlerOf(r).next
    BY <1>1, <1>6, StepGoesOn
  <2> HIDE DEF d
  <2>2. CASE pc[r] = "status"
    <3>1. task' = task
      BY <1>1, <1>6, <2>2, StepWrites
    <3>2. contract[d].status \in HandlerOf(r).from
      BY <1>1, <2>1, <2>2 DEF SerialInv, GuardStillHolds, At, d
    <3>3. /\ contract'[d].status = HandlerOf(r).to
          /\ \A c \in Contracts \ {d} : contract'[c] = contract[c]
      BY <1>1, <1>6, <2>1, <2>2, StepWrites DEF WriteStatus, TypeOK, d
    <3>4. Reach(contract[d].status) <= Reach(contract'[d].status)
      BY <2>1, <3>2, <3>3, HandlerReach
    <3>5. Reach(contract'[d].status) \in 0..4
      BY <2>1, <3>3, HandlerTasks, OrderTypes
    <3>6. \A c \in Contracts : /\ Reach(contract[c].status) <= Reach(contract'[c].status)
                               /\ Reach(contract'[c].status) \in 0..4
      BY <1>4, <3>3, <3>4, <3>5
    <3>7. ASSUME NEW t \in Tasks PROVE Backed(t)'
      <4>1. CASE Order(task[t].status) <= 1
        BY <3>1, <4>1 DEF Backed
      <4>2. CASE ~(Order(task[t].status) <= 1)
        <5>1. PICK c \in Contracts : TaskOf[c] = t /\ Order(task[t].status) <= Reach(contract[c].status)
          BY <1>1, <4>2 DEF TasksAreBacked, Backed
        <5>2. Order(task[t].status) <= Reach(contract'[c].status)
          BY <1>3, <1>4, <3>6, <5>1
        <5>3. QED
          BY <3>1, <5>1, <5>2 DEF Backed
      <4>3. QED
        BY <4>1, <4>2
    <3>8. QED
      BY <1>3, <3>1, <3>7 DEF Forward, TasksAreBacked
  <2>3. CASE pc[r] = "task"
    <3>1. contract' = contract /\ contract[d].status = HandlerOf(r).to
      BY <1>1, <1>6, <2>1, <2>3, StepWrites DEF SettledInv, StatusWritten, At, d
    <3>2. /\ task'[TaskOf[d]].status = HandlerOf(r).task
          /\ \A t \in Tasks \ {TaskOf[d]} : task'[t] = task[t]
      <4>1. task \in [Tasks -> TaskRow] /\ TaskOf[d] \in Tasks
        BY <1>1, <1>4, <2>1 DEF TypeOK
      <4>2. WriteTask(r)
        BY <1>1, <1>6, <2>3, StepWrites
      <4>3. \E assignee : task' = [task EXCEPT ![TaskOf[d]] = [status |-> HandlerOf(r).task,
                                                               assignee |-> assignee]]
        BY <4>2 DEF WriteTask, d
      <4>4. QED
        BY <4>1, <4>3
    <3>3. Order(task'[TaskOf[d]].status) = Reach(contract[d].status)
      BY <2>1, <2>3, <3>1, <3>2, HandlerReach
    <3>4. Reach(contract[d].status) \in 2..4
      <4>1. contract[d].status \in ContractStatus \ {"ABSENT"}
        BY <2>1, <3>1, HandlerTasks
      <4>2. QED
        BY <4>1 DEF Reach, ContractStatus, EndedStatus
    <3>5. ASSUME NEW t \in Tasks, Order(task'[t].status) < Order(task[t].status)
          PROVE  TakenBackByAnother(t)
      <4>1. t = TaskOf[d]
        BY <1>3, <3>2, <3>5
      <4>2. Order(task[t].status) > Reach(contract[d].status) /\ ~(Order(task[t].status) <= 1)
        BY <1>3, <3>3, <3>4, <3>5, <4>1
      <4>3. PICK c \in Contracts : TaskOf[c] = t /\ Order(task[t].status) <= Reach(contract[c].status)
        BY <1>1, <4>2 DEF TasksAreBacked, Backed
      <4>4. c # d
        BY <1>3, <1>4, <4>2, <4>3
      <4>5. QED
        BY <2>1, <2>3, <4>1, <4>3, <4>4 DEF TakenBackByAnother, At, d
    <3>6. ASSUME NEW t \in Tasks PROVE Backed(t)'
      <4>1. CASE t = TaskOf[d]
        <5>1. Order(task'[t].status) <= Reach(contract'[d].status)
          BY <3>1, <3>3, <3>4, <4>1
        <5>2. QED
          BY <2>1, <4>1, <5>1 DEF Backed
      <4>2. CASE t # TaskOf[d]
        BY <1>1, <3>1, <3>2, <4>2 DEF TasksAreBacked, Backed
      <4>3. QED
        BY <4>1, <4>2
    <3>7. QED
      BY <3>5, <3>6 DEF Forward, TasksAreBacked
  <2>4. CASE pc[r] \notin {"status", "task"}
    <3>1. task' = task /\ contract' = contract
      BY <1>1, <1>6, <2>4, StepWrites
    <3>2. QED
      BY <1>1, <1>3, <3>1 DEF Forward, TasksAreBacked, Backed
  <2>5. QED
    BY <2>2, <2>3, <2>4
<1>7. QED
  BY <1>5, <1>6

LEMMA SubmissionForward ==
  ASSUME MaxInFlight = 1, MarketTypeOK, ProgressInv, NEW b \in Bids,
         ReadTask(b) \/ BidStep(b) \/ FailBid(b)
  PROVE  Forward /\ TasksAreBacked'
<1> USE MarketAssumption
<1>1. TypeOK /\ TasksAreBacked /\ AdmissionInv
  BY DEF MarketTypeOK, ProgressInv
<1>2. contract' = contract
  BY <1>1, SubmissionsWorkAlone DEF AdmissionInv
<1>3. \A t \in Tasks : Order(task[t].status) \in 0..4
  BY <1>1, OrderTypes DEF TypeOK, TaskRow
<1>4. CASE OpenTask(b)
  <2>1. Writes(b) => TaskOfBid(b).status = "PENDING"
    BY <1>1, <1>4 DEF OpenTask, Writes, AdmissionInv, SeenIsCurrent, Opens, Bidding, BidStatement
  <2>2. \A t \in Tasks : \/ task'[t] = task[t]
                         \/ task[t].status = "PENDING" /\ task'[t].status = "BIDDING"
    BY <1>1, <1>4, <2>1 DEF OpenTask, TaskOfBid, TypeOK, TaskRow
  <2>3. Order("PENDING") = 0 /\ Order("BIDDING") = 1
    BY DEF Order
  <2>4. \A t \in Tasks : ~(Order(task'[t].status) < Order(task[t].status))
    BY <1>3, <2>2, <2>3
  <2>5. \A t \in Tasks : task'[t] = task[t] \/ Order(task'[t].status) <= 1
    BY <2>2, <2>3
  <2>6. QED
    BY <1>1, <1>2, <2>4, <2>5 DEF Forward, TasksAreBacked, Backed
<1>5. CASE ~OpenTask(b)
  <2>1. task' = task
    BY <1>5 DEF ReadTask, BidStep, CheckAgent, CreateBid, FailBid, vars
  <2>2. QED
    BY <1>1, <1>2, <1>3, <2>1 DEF Forward, TasksAreBacked, Backed
<1>6. QED
  BY <1>4, <1>5

LEMMA InitTasksAreBacked == MarketInit => TasksAreBacked
<1> SUFFICES ASSUME MarketInit, NEW t \in Tasks PROVE Backed(t)
  BY DEF TasksAreBacked
<1>1. CASE \E c \in Opened : TaskOf[c] = t
  <2>1. PICK c \in Opened : TaskOf[c] = t
    BY <1>1
  <2>2. c \in Contracts /\ contract[c].status = "ACTIVE" /\ task[t].status = "IN_PROGRESS"
    BY <2>1, ConstantsAssumption DEF MarketInit, Init
  <2>3. Order("IN_PROGRESS") <= Reach("ACTIVE")
    BY DEF Order, Reach
  <2>4. QED
    BY <2>1, <2>2, <2>3 DEF Backed
<1>2. CASE ~\E c \in Opened : TaskOf[c] = t
  <2>1. task[t].status \in {"PENDING", "BIDDING"}
    BY <1>2 DEF MarketInit, Init
  <2>2. QED
    BY <2>1 DEF Order, Backed
<1>3. QED
  BY <1>1, <1>2

\* One request at a time: a task's status only goes back by the request of
\* one contract after another contract of the task has taken it there,
\* although two components write it and neither looks.
THEOREM SerialTaskMovesForward ==
  ASSUME MaxInFlight = 1
  PROVE  MarketSpec => TaskMovesForward
<1>1. MarketTypeOK /\ AdmissionInv /\ SerialServiceInv /\ TasksAreBacked /\ [MarketNext]_marketVars
        => TasksAreBacked' /\ [Forward]_task
  <2> SUFFICES ASSUME MarketTypeOK, AdmissionInv, SerialServiceInv, TasksAreBacked,
                      [MarketNext]_marketVars
               PROVE  TasksAreBacked' /\ [Forward]_task
    OBVIOUS
  <2>1. ProgressInv
    BY DEF ProgressInv, SerialServiceInv
  <2>2. CASE MarketNext
    BY <2>1, <2>2, ContractStepForward, SubmissionForward DEF MarketNext
  <2>3. CASE UNCHANGED marketVars
    BY <2>3 DEF marketVars, vars, TasksAreBacked, Backed
  <2>4. QED
    BY <2>2, <2>3
<1>2. MarketInit => TasksAreBacked
  BY InitTasksAreBacked
<1>3. MarketSpec => [][Forward]_task
  BY <1>1, <1>2, AdmissionInvariant, SerialServiceInvariant, MarketTypeCorrect, PTL DEF MarketSpec
<1>4. QED
  BY <1>3 DEF TaskMovesForward, Forward, TakenBackByAnother

============================================================================
