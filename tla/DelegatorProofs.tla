-------------------------- MODULE DelegatorProofs --------------------------
(***************************************************************************)
(* Theorems about Delegator, for any number of calls on any tasks, however *)
(* they interleave and whatever they raise.                                *)
(***************************************************************************)
EXTENDS Delegator, TLAPS

(***************************************************************************)
(* The invariant.  A call that is suspended in a leaf has that leaf in     *)
(* the registry, and from the creation of its contract on it alone has     *)
(* that contract, in the status that the place it is suspended at implies. *)
(***************************************************************************)
InLeaf == Await \ {"decompose"}
WithContract == InLeaf \ {"bids", "create"}

AtHand == \A d \in Delegations :
  /\ left[d] \subseteq registry
  /\ pc[d] \in InLeaf => leaf[d] \in registry /\ RootOf[d] \in registry
  /\ pc[d] \in WithContract => mine[d] \in Contracts
  /\ pc[d] \in {"close", "record"} => verdict[d] # "NONE"

TypeInv == DelegatorTypeOK /\ AtHand

\* Only a call changes the status of a task, and only of registered ones.
UnregisteredIsPending == \A t \in Tasks \ registry : status[t] = "PENDING"

Owners ==
  /\ \A d \in Delegations : mine[d] # NoContract =>
       contract[mine[d]] # "ABSENT" /\ leaf[d] = TaskOf[mine[d]]
  /\ \A d, e \in Delegations : mine[d] = mine[e] /\ mine[d] # NoContract => d = e
  /\ \A d \in Delegations : pc[d] \in {"new", "decompose", "bids", "create", "done"} =>
       mine[d] = NoContract

InStep == \A d \in Delegations :
  /\ pc[d] = "activate" => contract[mine[d]] = "PROPOSED"
  /\ pc[d] \in {"grant", "start", "poll", "redelegate", "cancel", "verify", "close"} =>
       contract[mine[d]] = "ACTIVE"
  /\ pc[d] = "record" =>
       contract[mine[d]] = IF verdict[d] = "SUCCESS" THEN "COMPLETED" ELSE "BREACHED"

DelegatorInv ==
  /\ TypeInv
  /\ UnregisteredIsPending
  /\ Owners
  /\ InStep
  /\ ExecutionCleansUp
  /\ VerifiedIsRecorded
  /\ CompletedIsVerified

----------------------------------------------------------------------------
(* Types                                                                   *)

\* The loop either goes on, or its end is verified, or the leaf is over.
LEMMA LoopHeadIsAPlace == \A s : LoopHead(s) \in {"poll", "verify", "revoke"}
BY DEF LoopHead

\* What a pass of the head of the loop over the leaves leaves behind.
Advanced(d) ==
  /\ status' \in [Tasks -> TaskStatus]
  /\ pc' \in [Delegations -> Await \union {"new", "done", "raised"}]
  /\ left' \in [Delegations -> SUBSET Tasks]
  /\ leaf' \in [Delegations -> Tasks \union {NoTask}]
  /\ left'[d] \subseteq registry'
  /\ pc'[d] \in {"bids", "done"}
  /\ pc'[d] = "bids" => leaf'[d] \in registry'
  /\ \A e \in Delegations \ {d} : pc'[e] = pc[e] /\ left'[e] = left[e] /\ leaf'[e] = leaf[e]

\* The head of the loop keeps the types of what it writes.
LEMMA NextLeafTypes ==
  ASSUME TypeInv, NEW d \in Delegations, NEW now \in [Tasks -> TaskStatus],
         NEW leaves \in SUBSET Tasks, registry' \in SUBSET Tasks,
         RootOf[d] \in registry', registry \subseteq registry',
         NEW rest \in SUBSET registry', NextLeaf(d, rest, now, leaves)
  PROVE  Advanced(d)
<1> USE DEF TypeInv, DelegatorTypeOK, Advanced
<1>1. RootOf[d] \in Tasks /\ "BIDDING" \in TaskStatus /\ "COMPLETED" \in TaskStatus
      /\ "FAILED" \in TaskStatus /\ "bids" \in Await
  BY DelegatorAssumption DEF TaskStatus, Await
<1>2. CASE rest = {}
  BY <1>1, <1>2 DEF NextLeaf, Goto
<1>3. ASSUME NEW t \in rest,
             leaf' = [leaf EXCEPT ![d] = t], left' = [left EXCEPT ![d] = rest \ {t}],
             status' = [now EXCEPT ![t] = "BIDDING"], Goto(d, "bids")
      PROVE  Advanced(d)
  BY <1>1, <1>3 DEF Goto
<1>4. QED
  BY <1>2, <1>3 DEF NextLeaf

LEMMA InitTypeInv == Init => TypeInv
BY DelegatorAssumption
   DEF Init, TypeInv, DelegatorTypeOK, AtHand, TaskStatus, ContractStatus, InLeaf, WithContract, Await

LEMMA NextTypeInv == TypeInv /\ [Next]_vars => TypeInv'
<1> SUFFICES ASSUME TypeInv, [Next]_vars PROVE TypeInv'
  OBVIOUS
<1> USE DEF TypeInv, DelegatorTypeOK, AtHand, InLeaf, WithContract, Await, Goto
<1>0. writer' \in [Tasks -> SUBSET Delegations]
  BY DEF Next, Written, vars
<1> USE <1>0
<1>1. CASE UNCHANGED vars
  BY <1>1 DEF vars, delegatorVars
<1>2. ASSUME NEW d \in Delegations, Delegate(d) PROVE TypeInv'
  <2>1. RootOf[d] \in Tasks
    BY DelegatorAssumption
  <2>2. pending' \in [Delegations -> SUBSET Tasks] /\ pc' \in [Delegations -> Await \union {"new", "done", "raised"}]
    BY <1>2, <2>1 DEF Delegate
  <2>3. QED
    BY <1>2, <2>2 DEF Delegate
<1>3. ASSUME NEW d \in Delegations, Decompose(d) PROVE TypeInv'
  <2>1. subTasks' \in [Tasks -> SUBSET Tasks] /\ pending' \in [Delegations -> SUBSET Tasks]
    <3>1. PICK t \in pending[d] : LookAt(d, t)
      BY <1>3 DEF Decompose
    <3>2. PICK parts \in SUBSET Tasks :
            /\ subTasks' = [subTasks EXCEPT ![t] = @ \union parts]
            /\ pending' = [pending EXCEPT ![d] = (@ \ {t}) \union parts]
      BY <3>1, DelegatorAssumption DEF LookAt
    <3>3. QED
      BY <3>2
  <2>2. CASE pending'[d] # {}
    BY <1>3, <2>1, <2>2 DEF Decompose
  <2>3. CASE pending'[d] = {}
    <3>1. registry' = registry \union {RootOf[d]} /\ RootOf[d] \in Tasks
      BY <1>3, <2>3, DelegatorAssumption DEF Decompose
    <3>2. PICK leaves \in SUBSET registry' : NextLeaf(d, leaves, status, leaves)
      BY <1>3, <2>3 DEF Decompose, LeavesIn
    <3>3. Advanced(d)
      BY <3>1, <3>2, NextLeafTypes
    <3>4. QED
      BY <1>3, <2>1, <3>1, <3>3 DEF Decompose, Advanced
  <2>4. QED
    BY <2>2, <2>3
<1>4. ASSUME NEW d \in Delegations, NoBids(d) PROVE TypeInv'
  <2>1. [status EXCEPT ![leaf[d]] = "FAILED"] \in [Tasks -> TaskStatus]
    BY DEF TaskStatus
  <2>2. LeavesIn(registry, subTasks) \in SUBSET Tasks
    BY DEF LeavesIn
  <2>3. registry' = registry /\ RootOf[d] \in registry /\ left[d] \subseteq registry
    BY <1>4 DEF NoBids
  <2>4. Advanced(d)
    BY <1>4, <2>1, <2>2, <2>3, NextLeafTypes DEF NoBids
  <2>5. QED
    BY <1>4, <2>3, <2>4 DEF NoBids, Advanced
<1>5. ASSUME NEW d \in Delegations, SelectBid(d) PROVE TypeInv'
  BY <1>5 DEF SelectBid
<1>6. ASSUME NEW d \in Delegations, CreateContract(d) PROVE TypeInv'
  BY <1>6 DEF CreateContract, ContractStatus
<1>7. ASSUME NEW d \in Delegations, ActivateContract(d) PROVE TypeInv'
  BY <1>7 DEF ActivateContract, Move, ContractStatus
<1>8. ASSUME NEW d \in Delegations, Grant(d) PROVE TypeInv'
  BY <1>8 DEF Grant
<1>9. ASSUME NEW d \in Delegations, Assign(d) PROVE TypeInv'
  BY <1>9 DEF Assign, SetStatus, TaskStatus
<1>10. ASSUME NEW d \in Delegations, StartMonitoring(d) PROVE TypeInv'
  BY <1>10, LoopHeadIsAPlace DEF StartMonitoring
<1>11. ASSUME NEW d \in Delegations, Decide(d) PROVE TypeInv'
  <2>1. PICK s \in Decided(status[leaf[d]]) : SetStatus(d, s) /\ Goto(d, LoopHead(s))
    BY <1>11 DEF Decide
  <2>2. s \in TaskStatus
    BY <1>11 DEF Decide, Decided, TaskStatus
  <2>3. QED
    BY <1>11, <2>1, <2>2, LoopHeadIsAPlace DEF Decide, SetStatus
<1>12. ASSUME NEW d \in Delegations, DecideToEnd(d) PROVE TypeInv'
  BY <1>12 DEF DecideToEnd
<1>13. ASSUME NEW d \in Delegations, Cancel(d) PROVE TypeInv'
  BY <1>13 DEF Cancel, Move, SetStatus, TaskStatus, ContractStatus
<1>14. ASSUME NEW d \in Delegations, Redelegate(d) PROVE TypeInv'
  BY <1>14 DEF Redelegate, Move, ContractStatus
<1>15. ASSUME NEW d \in Delegations, Withdraw(d) PROVE TypeInv'
  BY <1>15 DEF Withdraw, RevokeAll, SetStatus, TaskStatus
<1>16. ASSUME NEW d \in Delegations, Verify(d) PROVE TypeInv'
  BY <1>16 DEF Verify, SetStatus, TaskStatus
<1>17. ASSUME NEW d \in Delegations, Close(d) PROVE TypeInv'
  BY <1>17 DEF Close, Move, ContractStatus
<1>18. ASSUME NEW d \in Delegations, Record(d) PROVE TypeInv'
  BY <1>18 DEF Record
<1>19. ASSUME NEW d \in Delegations, Revoke(d) PROVE TypeInv'
  BY <1>19 DEF Revoke, RevokeAll
<1>20. ASSUME NEW d \in Delegations, StopMonitoring(d) PROVE TypeInv'
  <2>1. LeavesIn(registry, subTasks) \in SUBSET Tasks
    BY DEF LeavesIn
  <2>2. registry' = registry /\ RootOf[d] \in registry /\ left[d] \subseteq registry
    BY <1>20 DEF StopMonitoring
  <2>3. Advanced(d)
    BY <1>20, <2>1, <2>2, NextLeafTypes DEF StopMonitoring
  <2>4. QED
    BY <1>20, <2>2, <2>3 DEF StopMonitoring, Advanced
<1>21. ASSUME NEW d \in Delegations, Raise(d) PROVE TypeInv'
  BY <1>21 DEF Raise
<1>22. QED
  BY <1>1, <1>2, <1>3, <1>4, <1>5, <1>6, <1>7, <1>8, <1>9, <1>10, <1>11, <1>12, <1>13, <1>14,
     <1>15, <1>16, <1>17, <1>18, <1>19, <1>20, <1>21 DEF Next, Proceed

\* Every call, task, contract and record has its type, and a call that is
\* suspended in a leaf has a registered leaf and, once created, a contract.
THEOREM DelegatorTypeCorrect == Spec => []DelegatorTypeOK
<1>1. TypeInv => DelegatorTypeOK
  BY DEF TypeInv
<1>2. QED
  BY <1>1, InitTypeInv, NextTypeInv, PTL DEF Spec

----------------------------------------------------------------------------
(* Steps of one call                                                       *)

StepOf(d) == Delegate(d) \/ Proceed(d) \/ Decide(d) \/ DecideToEnd(d) \/ Raise(d)

\* A step of one call leaves the others where they are, with what they have.
LEMMA OthersStay ==
  ASSUME TypeInv, NEW d \in Delegations, StepOf(d), NEW e \in Delegations, e # d
  PROVE  pc'[e] = pc[e] /\ leaf'[e] = leaf[e] /\ mine'[e] = mine[e] /\ verdict'[e] = verdict[e]
<1> USE DEF TypeInv, DelegatorTypeOK, Goto
<1>1. ASSUME NEW rest, NEW now, NEW leaves, NextLeaf(d, rest, now, leaves)
      PROVE  pc'[e] = pc[e] /\ leaf'[e] = leaf[e]
  BY <1>1 DEF NextLeaf
<1>2. CASE Delegate(d) \/ Decompose(d) \/ NoBids(d) \/ StopMonitoring(d)
  BY <1>1, <1>2 DEF Delegate, Decompose, NoBids, StopMonitoring
<1>3. CASE SelectBid(d) \/ CreateContract(d) \/ ActivateContract(d) \/ Grant(d) \/ Assign(d)
           \/ StartMonitoring(d) \/ Decide(d) \/ DecideToEnd(d)
  BY <1>3 DEF SelectBid, CreateContract, ActivateContract, Grant, Assign, StartMonitoring,
     Decide, DecideToEnd
<1>4. CASE Cancel(d) \/ Redelegate(d) \/ Withdraw(d) \/ Verify(d) \/ Close(d) \/ Record(d)
           \/ Revoke(d) \/ Raise(d)
  BY <1>4 DEF Cancel, Redelegate, Withdraw, Verify, Close, Record, Revoke, Raise
<1>5. QED
  BY <1>2, <1>3, <1>4 DEF StepOf, Proceed

\* The statuses a pass of the head of the loop writes: the next leaf becomes
\* BIDDING, or the root COMPLETED when all leaves are, else FAILED.
LEMMA NextLeafStatus ==
  ASSUME TypeInv, NEW d \in Delegations, NEW now \in [Tasks -> TaskStatus], NEW leaves,
         NEW rest \in SUBSET registry', NextLeaf(d, rest, now, leaves)
  PROVE  /\ \A t \in Tasks : status'[t] # now[t] => t \in registry' \/ t = RootOf[d]
         /\ \A t \in leaves \intersect Tasks : status'[t] = "COMPLETED" => now[t] = "COMPLETED"
<1> USE DEF TypeInv, DelegatorTypeOK
<1>1. ASSUME NEW t \in rest, status' = [now EXCEPT ![t] = "BIDDING"]
      PROVE  /\ \A s \in Tasks : status'[s] # now[s] => s = t
             /\ \A s \in Tasks : status'[s] = "COMPLETED" => now[s] = "COMPLETED"
  BY <1>1
<1>2. ASSUME status' = [now EXCEPT ![RootOf[d]] =
               IF \A t \in leaves : now[t] = "COMPLETED" THEN "COMPLETED" ELSE "FAILED"]
      PROVE  /\ \A s \in Tasks : status'[s] # now[s] => s = RootOf[d]
             /\ \A s \in leaves \intersect Tasks : status'[s] = "COMPLETED" => now[s] = "COMPLETED"
  BY <1>2
<1>3. QED
  BY <1>1, <1>2 DEF NextLeaf

----------------------------------------------------------------------------
(* The parts of the invariant                                              *)

LEMMA KeepsUnregistered ==
  ASSUME TypeInv, UnregisteredIsPending, NEW d \in Delegations, StepOf(d)
  PROVE  UnregisteredIsPending'
<1> USE DEF TypeInv, DelegatorTypeOK, AtHand, UnregisteredIsPending, InLeaf, Await
<1>1. CASE Decompose(d)
  <2>1. CASE pending'[d] # {}
    BY <1>1, <2>1 DEF Decompose
  <2>2. CASE pending'[d] = {}
    <3>1. registry' = registry \union {RootOf[d]}
      BY <1>1, <2>2 DEF Decompose
    <3>2. PICK leaves \in SUBSET registry' : NextLeaf(d, leaves, status, leaves)
      BY <1>1, <2>2 DEF Decompose, LeavesIn
    <3>3. QED
      BY <3>1, <3>2, NextLeafStatus
  <2>3. QED
    BY <2>1, <2>2
<1>2. CASE NoBids(d)
  <2> DEFINE now == [status EXCEPT ![leaf[d]] = "FAILED"]
  <2>1. now \in [Tasks -> TaskStatus] /\ \A t \in Tasks \ {leaf[d]} : now[t] = status[t]
    BY DEF TaskStatus
  <2>2. registry' = registry /\ leaf[d] \in registry /\ RootOf[d] \in registry
        /\ left[d] \subseteq registry
    BY <1>2 DEF NoBids
  <2>3. NextLeaf(d, left[d], now, LeavesIn(registry, subTasks))
    BY <1>2 DEF NoBids
  <2> HIDE DEF now
  <2>4. \A t \in Tasks : status'[t] # now[t] => t \in registry' \/ t = RootOf[d]
    BY <2>1, <2>2, <2>3, NextLeafStatus
  <2>5. QED
    BY <2>1, <2>2, <2>4
<1>3. CASE StopMonitoring(d)
  <2>1. registry' = registry /\ RootOf[d] \in registry /\ left[d] \subseteq registry
    BY <1>3 DEF StopMonitoring
  <2>2. QED
    BY <1>3, <2>1, NextLeafStatus DEF StopMonitoring
<1>4. CASE Assign(d) \/ Decide(d) \/ Cancel(d) \/ Withdraw(d) \/ Verify(d)
  <2>1. leaf[d] \in registry /\ registry' = registry
    BY <1>4 DEF Assign, Decide, Cancel, Withdraw, Verify
  <2>2. \A t \in Tasks \ {leaf[d]} : status'[t] = status[t]
    BY <1>4 DEF Assign, Decide, Cancel, Withdraw, Verify, SetStatus
  <2>3. QED
    BY <2>1, <2>2
<1>5. CASE Delegate(d) \/ SelectBid(d) \/ CreateContract(d) \/ ActivateContract(d) \/ Grant(d)
           \/ StartMonitoring(d) \/ DecideToEnd(d) \/ Redelegate(d) \/ Close(d) \/ Record(d)
           \/ Revoke(d) \/ Raise(d)
  BY <1>5 DEF Delegate, SelectBid, CreateContract, ActivateContract, Grant, StartMonitoring,
     DecideToEnd, Redelegate, Close, Record, Revoke, Raise
<1>6. QED
  BY <1>1, <1>2, <1>3, <1>4, <1>5 DEF StepOf, Proceed

\* A call that moves its contract, and no other, moves nobody else's.
LEMMA MovesItsOwn ==
  ASSUME TypeInv, Owners, NEW d \in Delegations, NEW s, Move(d, s),
         pc[d] \in WithContract
  PROVE  /\ contract'[mine[d]] = s
         /\ \A c \in Contracts : c # mine[d] => contract'[c] = contract[c]
         /\ \A e \in Delegations : e # d => mine[e] # mine[d]
BY DelegatorAssumption DEF TypeInv, DelegatorTypeOK, AtHand, Owners, Move

LEMMA KeepsOwners ==
  ASSUME TypeInv, Owners, NEW d \in Delegations, StepOf(d)
  PROVE  Owners'
<1> USE DEF TypeInv, DelegatorTypeOK, AtHand, Owners, InLeaf, WithContract, Await
<1>1. CASE CreateContract(d)
  BY <1>1, DelegatorAssumption DEF CreateContract, Goto
<1>2. CASE StopMonitoring(d)
  <2>1. \A e \in Delegations \ {d} : leaf'[e] = leaf[e] /\ mine'[e] = mine[e] /\ pc'[e] = pc[e]
    BY OthersStay
  <2>2. mine'[d] = NoContract /\ contract' = contract
    BY <1>2 DEF StopMonitoring
  <2>3. QED
    BY <2>1, <2>2
<1>3. CASE Decompose(d) \/ NoBids(d)
  <2>1. \A e \in Delegations \ {d} : leaf'[e] = leaf[e] /\ mine'[e] = mine[e] /\ pc'[e] = pc[e]
    BY OthersStay
  <2>2. mine' = mine /\ contract' = contract /\ mine[d] = NoContract
    BY <1>3 DEF Decompose, NoBids
  <2>3. QED
    BY <2>1, <2>2
<1>4. CASE \/ ActivateContract(d) \/ Cancel(d) \/ Redelegate(d) \/ Close(d)
  <2>1. PICK s \in ContractStatus \ {"ABSENT"} : Move(d, s)
    BY <1>4 DEF ActivateContract, Cancel, Redelegate, Close, ContractStatus
  <2>2. pc[d] \in WithContract /\ mine' = mine /\ leaf' = leaf
        /\ pc'[d] \in WithContract /\ \A e \in Delegations \ {d} : pc'[e] = pc[e]
    BY <1>4 DEF ActivateContract, Cancel, Redelegate, Close, Goto
  <2>3. QED
    BY <2>1, <2>2, MovesItsOwn
<1>5. CASE \/ Delegate(d) \/ SelectBid(d) \/ Grant(d) \/ Assign(d) \/ StartMonitoring(d)
           \/ Decide(d) \/ DecideToEnd(d) \/ Withdraw(d) \/ Verify(d) \/ Record(d)
           \/ Revoke(d) \/ Raise(d)
  <2>1. mine' = mine /\ contract' = contract /\ leaf' = leaf
    BY <1>5 DEF Delegate, SelectBid, Grant, Assign, StartMonitoring, Decide, DecideToEnd,
       Withdraw, Verify, Record, Revoke, Raise
  <2>2. pc'[d] \in {"new", "decompose", "bids", "create", "done"} => mine[d] = NoContract
    BY <1>5, LoopHeadIsAPlace DEF Delegate, SelectBid, Grant, Assign, StartMonitoring, Decide,
       DecideToEnd, Withdraw, Verify, Record, Revoke, Raise, Goto
  <2>3. QED
    BY <2>1, <2>2, OthersStay
<1>6. QED
  BY <1>1, <1>2, <1>3, <1>4, <1>5 DEF StepOf, Proceed

LEMMA KeepsInStep ==
  ASSUME TypeInv, Owners, InStep, NEW d \in Delegations, StepOf(d)
  PROVE  InStep'
<1> USE DEF TypeInv, DelegatorTypeOK, AtHand, InStep, InLeaf, WithContract, Await
<1>1. CASE CreateContract(d)
  BY <1>1, DelegatorAssumption DEF CreateContract, Goto, Owners
<1>2. CASE \/ ActivateContract(d) \/ Cancel(d) \/ Redelegate(d) \/ Close(d)
  <2>1. PICK s : Move(d, s)
    BY <1>2 DEF ActivateContract, Cancel, Redelegate, Close
  <2>2. pc[d] \in WithContract /\ mine' = mine /\ verdict' = verdict
    BY <1>2 DEF ActivateContract, Cancel, Redelegate, Close
  <2>3. ASSUME NEW e \in Delegations \ {d}, pc[e] \in WithContract
        PROVE  contract'[mine'[e]] = contract[mine[e]]
    BY <2>1, <2>2, <2>3, MovesItsOwn
  <2>4. /\ pc'[d] = "activate" => contract'[mine[d]] = "PROPOSED"
        /\ pc'[d] \in {"grant", "start", "poll", "redelegate", "cancel", "verify", "close"} =>
             contract'[mine[d]] = "ACTIVE"
        /\ pc'[d] = "record" =>
             contract'[mine[d]] = IF verdict[d] = "SUCCESS" THEN "COMPLETED" ELSE "BREACHED"
    BY <1>2, <2>2 DEF ActivateContract, Cancel, Redelegate, Close, Goto, Move
  <2>5. QED
    BY <2>2, <2>3, <2>4, OthersStay
<1>3. CASE Decompose(d) \/ NoBids(d) \/ StopMonitoring(d)
  <2>1. pc'[d] \in {"decompose", "bids", "done"} /\ contract' = contract
    BY <1>3 DEF Decompose, NoBids, StopMonitoring, NextLeaf, Goto
  <2>2. QED
    BY <2>1, OthersStay
<1>4. CASE \/ Delegate(d) \/ SelectBid(d) \/ Grant(d) \/ Assign(d) \/ StartMonitoring(d)
           \/ Decide(d) \/ DecideToEnd(d)
  <2>1. contract' = contract /\ mine' = mine /\ verdict' = verdict
    BY <1>4 DEF Delegate, SelectBid, Grant, Assign, StartMonitoring, Decide, DecideToEnd
  <2>2. /\ pc'[d] \notin {"activate", "record"}
        /\ pc'[d] \in {"grant", "start", "poll", "redelegate", "cancel", "verify", "close"} =>
             contract[mine[d]] = "ACTIVE"
    BY <1>4, LoopHeadIsAPlace
       DEF Delegate, SelectBid, Grant, Assign, StartMonitoring, Decide, DecideToEnd, Goto
  <2>3. QED
    BY <2>1, <2>2, OthersStay
<1>5. CASE \/ Withdraw(d) \/ Verify(d) \/ Record(d) \/ Revoke(d) \/ Raise(d)
  <2>1. contract' = contract /\ mine' = mine
    BY <1>5 DEF Withdraw, Verify, Record, Revoke, Raise
  <2>2. /\ pc'[d] \in {"revoke", "stop", "raised", "close"}
        /\ pc'[d] = "close" => contract[mine[d]] = "ACTIVE"
    BY <1>5 DEF Withdraw, Verify, Record, Revoke, Raise, Goto
  <2>3. QED
    BY <2>1, <2>2, OthersStay
<1>6. QED
  BY <1>1, <1>2, <1>3, <1>4, <1>5 DEF StepOf, Proceed

\* The two parts of ExecutionCleansUp.
GrantsAreHeld == \A t \in Tasks : \A c \in grants[t] :
  \E d \in Delegations : mine[d] = c /\ leaf[d] = t /\ pc[d] \in Holding
MonitoredAreWatched ==
  \A t \in monitored : \E d \in Delegations : leaf[d] = t /\ pc[d] \in Watching

LEMMA KeepsGrantsHeld ==
  ASSUME TypeInv, GrantsAreHeld, NEW d \in Delegations, StepOf(d)
  PROVE  GrantsAreHeld'
<1> USE DEF TypeInv, DelegatorTypeOK, AtHand, InLeaf, WithContract, Await, GrantsAreHeld, Holding, Goto
<1>1. CASE Revoke(d)
  <2>1. leaf' = leaf /\ mine' = mine /\ grants' = [grants EXCEPT ![leaf[d]] = {}]
    BY <1>1 DEF Revoke, RevokeAll
  <2>2. SUFFICES ASSUME NEW t \in Tasks, NEW c \in grants'[t]
                 PROVE  \E e \in Delegations : mine'[e] = c /\ leaf'[e] = t /\ pc'[e] \in Holding
    OBVIOUS
  <2>3. t # leaf[d] /\ c \in grants[t]
    BY <1>1, <2>1 DEF Revoke
  <2>4. PICK e \in Delegations : mine[e] = c /\ leaf[e] = t /\ pc[e] \in Holding
    BY <2>3
  <2>5. QED
    BY <2>3, <2>4, OthersStay
<1>2. CASE Grant(d)
  <2>1. /\ grants' = [grants EXCEPT ![leaf[d]] = @ \union {mine[d]}]
        /\ leaf' = leaf /\ mine' = mine /\ pc' = pc /\ pc[d] \in Holding
    BY <1>2 DEF Grant
  <2>2. \A t \in Tasks : \A c \in grants'[t] : c \in grants[t] \/ (c = mine[d] /\ t = leaf[d])
    BY <2>1
  <2>3. QED
    BY <2>1, <2>2
<1>3. CASE \/ Delegate(d) \/ Decompose(d) \/ NoBids(d) \/ SelectBid(d) \/ CreateContract(d)
           \/ ActivateContract(d) \/ StopMonitoring(d)
  <2>1. grants' = grants /\ pc[d] \notin Holding
    BY <1>3 DEF Delegate, Decompose, NoBids, SelectBid, CreateContract, ActivateContract, StopMonitoring
  <2>2. QED
    BY <2>1, OthersStay
<1>4. CASE \/ Assign(d) \/ StartMonitoring(d) \/ Decide(d) \/ DecideToEnd(d) \/ Cancel(d)
           \/ Redelegate(d) \/ Withdraw(d) \/ Verify(d) \/ Close(d) \/ Record(d) \/ Raise(d)
  <2>1. leaf' = leaf /\ mine' = mine /\ pc'[d] \in Holding
    BY <1>4, LoopHeadIsAPlace DEF Assign, StartMonitoring, Decide, DecideToEnd, Cancel, Redelegate,
       Withdraw, Verify, Close, Record, Raise
  <2>2. \A t \in Tasks : grants'[t] \subseteq grants[t]
    BY <1>4 DEF Assign, StartMonitoring, Decide, DecideToEnd, Cancel, Redelegate, Withdraw,
       RevokeAll, Verify, Close, Record, Raise
  <2>3. QED
    BY <2>1, <2>2, OthersStay
<1>5. QED
  BY <1>1, <1>2, <1>3, <1>4 DEF StepOf, Proceed

LEMMA KeepsWatched ==
  ASSUME TypeInv, MonitoredAreWatched, NEW d \in Delegations, StepOf(d)
  PROVE  MonitoredAreWatched'
<1> USE DEF TypeInv, DelegatorTypeOK, AtHand, InLeaf, WithContract, Await, MonitoredAreWatched,
        Holding, Watching, Goto
<1>1. CASE StopMonitoring(d)
  <2>1. SUFFICES ASSUME NEW t \in monitored'
                 PROVE  \E e \in Delegations : leaf'[e] = t /\ pc'[e] \in Watching
    OBVIOUS
  <2>2. t \in monitored /\ t # leaf[d]
    BY <1>1 DEF StopMonitoring
  <2>3. PICK e \in Delegations : leaf[e] = t /\ pc[e] \in Watching
    BY <2>2
  <2>4. QED
    BY <2>2, <2>3, OthersStay
<1>2. CASE StartMonitoring(d)
  <2>1. monitored' = monitored \union {leaf[d]} /\ leaf' = leaf /\ pc'[d] \in Watching
    BY <1>2, LoopHeadIsAPlace DEF StartMonitoring
  <2>2. QED
    BY <2>1, OthersStay
<1>3. CASE \/ Delegate(d) \/ Decompose(d) \/ NoBids(d) \/ SelectBid(d) \/ CreateContract(d)
           \/ ActivateContract(d) \/ Grant(d) \/ Assign(d)
  <2>1. monitored' = monitored /\ pc[d] \notin Watching
    BY <1>3 DEF Delegate, Decompose, NoBids, SelectBid, CreateContract, ActivateContract, Grant, Assign
  <2>2. QED
    BY <2>1, OthersStay
<1>4. CASE \/ Decide(d) \/ DecideToEnd(d) \/ Cancel(d) \/ Redelegate(d) \/ Withdraw(d)
           \/ Verify(d) \/ Close(d) \/ Record(d) \/ Revoke(d) \/ Raise(d)
  <2>1. leaf' = leaf /\ monitored' = monitored /\ pc'[d] \in Watching
    BY <1>4, LoopHeadIsAPlace DEF Decide, DecideToEnd, Cancel, Redelegate, Withdraw, Verify, Close,
       Record, Revoke, Raise
  <2>2. QED
    BY <2>1, OthersStay
<1>5. QED
  BY <1>1, <1>2, <1>3, <1>4 DEF StepOf, Proceed

LEMMA KeepsRecorded ==
  ASSUME TypeInv, Owners, InStep, VerifiedIsRecorded, NEW d \in Delegations, StepOf(d)
  PROVE  VerifiedIsRecorded'
<1> USE DEF TypeInv, DelegatorTypeOK, AtHand, InLeaf, WithContract, Await, VerifiedIsRecorded, Goto
<1>1. CASE CreateContract(d)
  <2>1. PICK c \in Contracts : contract[c] = "ABSENT" /\ contract' = [contract EXCEPT ![c] = "PROPOSED"]
    BY <1>1 DEF CreateContract
  <2>2. pc[d] = "create" /\ ledger' = ledger
    BY <1>1 DEF CreateContract
  <2>3. \A b \in Contracts : contract'[b] \in {"COMPLETED", "BREACHED"} => contract'[b] = contract[b]
    BY <2>1
  <2>4. \A rec \in ledger : rec.contract \in Contracts /\ contract'[rec.contract] = contract[rec.contract]
    BY <2>1
  <2>5. QED
    BY <2>2, <2>3, <2>4, OthersStay
<1>2. CASE \/ ActivateContract(d) \/ Cancel(d) \/ Redelegate(d) \/ Close(d)
  <2>1. PICK s : Move(d, s) /\ (s \in {"COMPLETED", "BREACHED"} => pc'[d] = "record")
    BY <1>2 DEF ActivateContract, Cancel, Redelegate, Close
  <2>2. /\ pc[d] \in WithContract /\ contract[mine[d]] \in {"PROPOSED", "ACTIVE"}
        /\ pc[d] \notin {"record", "raised"} /\ mine' = mine /\ ledger' = ledger
    BY <1>2 DEF ActivateContract, Cancel, Redelegate, Close, InStep
  <2>3. \A rec \in ledger : rec.contract \in Contracts /\ rec.contract # mine[d]
    BY <2>2
  <2>4. \A c \in Contracts \ {mine[d]} : contract'[c] = contract[c]
    BY <2>1, <2>2, MovesItsOwn
  <2>5. contract'[mine[d]] \in {"COMPLETED", "BREACHED"} => pc'[d] = "record"
    BY <2>1, <2>2, MovesItsOwn
  <2>6. QED
    BY <2>2, <2>3, <2>4, <2>5, OthersStay
<1>3. CASE Record(d)
  <2>1. /\ ledger' = ledger \union {[contract |-> mine[d], outcome |-> verdict[d]]}
        /\ contract' = contract /\ mine' = mine
        /\ contract[mine[d]] = IF verdict[d] = "SUCCESS" THEN "COMPLETED" ELSE "BREACHED"
    BY <1>3 DEF Record, InStep
  <2>2. PICK new \in ledger' : new.contract = mine[d] /\ new.outcome = verdict[d]
                              /\ ledger' = ledger \union {new}
    BY <2>1
  <2>3. \A rec \in ledger' : contract'[rec.contract] =
          IF rec.outcome = "SUCCESS" THEN "COMPLETED" ELSE "BREACHED"
    BY <2>1, <2>2
  <2>4. ASSUME NEW c \in Contracts, contract'[c] \in {"COMPLETED", "BREACHED"}
        PROVE  \/ \E rec \in ledger' : rec.contract = c
               \/ \E e \in Delegations : mine'[e] = c /\ pc'[e] \in {"record", "raised"}
    BY <2>1, <2>2, <2>4, OthersStay
  <2>5. QED
    BY <2>3, <2>4
<1>4. CASE \/ Delegate(d) \/ Decompose(d) \/ NoBids(d) \/ SelectBid(d) \/ Grant(d) \/ Assign(d)
           \/ StartMonitoring(d) \/ Decide(d) \/ DecideToEnd(d) \/ Withdraw(d) \/ Verify(d)
           \/ Revoke(d) \/ StopMonitoring(d)
  <2>1. contract' = contract /\ ledger' = ledger /\ pc[d] \notin {"record", "raised"}
    BY <1>4 DEF Delegate, Decompose, NoBids, SelectBid, Grant, Assign, StartMonitoring, Decide,
       DecideToEnd, Withdraw, Verify, Revoke, StopMonitoring
  <2>2. QED
    BY <2>1, OthersStay
<1>5. CASE Raise(d)
  BY <1>5 DEF Raise
<1>6. QED
  BY <1>1, <1>2, <1>3, <1>4, <1>5 DEF StepOf, Proceed

\* The verifier has passed the leaf in some call.
Verified(t) ==
  \/ \E rec \in ledger : TaskOf[rec.contract] = t /\ rec.outcome = "SUCCESS"
  \/ \E d \in Delegations :
       leaf[d] = t /\ verdict[d] = "SUCCESS" /\ pc[d] \in {"close", "record", "raised"}

LEMMA VerifiedForGood ==
  ASSUME TypeInv, Owners, NEW d \in Delegations, StepOf(d), NEW t \in Tasks, Verified(t)
  PROVE  Verified(t)'
<1> USE DEF TypeInv, DelegatorTypeOK, AtHand, InLeaf, WithContract, Await, Verified, Goto
<1>1. ledger \subseteq ledger'
  BY DEF StepOf, Proceed, Delegate, Decompose, NoBids, SelectBid, CreateContract, ActivateContract,
     Grant, Assign, StartMonitoring, Decide, DecideToEnd, Cancel, Redelegate, Withdraw, Verify,
     Close, Record, Revoke, StopMonitoring, Raise
<1>2. CASE \E rec \in ledger : TaskOf[rec.contract] = t /\ rec.outcome = "SUCCESS"
  BY <1>1, <1>2
<1>3. ASSUME NEW e \in Delegations,
             leaf[e] = t, verdict[e] = "SUCCESS", pc[e] \in {"close", "record", "raised"}
      PROVE  Verified(t)'
  <2>1. CASE e # d
    BY <1>3, <2>1, OthersStay
  <2>2. CASE e = d /\ (Close(d) \/ Raise(d))
    BY <1>3, <2>2 DEF Close, Raise
  <2>3. CASE e = d /\ Record(d)
    <3>1. [contract |-> mine[d], outcome |-> verdict[d]] \in ledger'
      BY <2>3 DEF Record
    <3>2. mine[d] \in Contracts
      BY <2>3 DEF Record
    <3>3. TaskOf[mine[d]] = t
      BY <1>3, <2>3, <3>2, DelegatorAssumption DEF Owners
    <3>4. QED
      BY <1>3, <2>3, <3>1, <3>3
  <2>4. CASE e = d /\ ~(Close(d) \/ Raise(d) \/ Record(d))
    BY <1>3, <2>4 DEF StepOf, Proceed, Delegate, Decompose, NoBids, SelectBid, CreateContract,
       ActivateContract, Grant, Assign, StartMonitoring, Decide, DecideToEnd, Cancel, Redelegate,
       Withdraw, Verify, Revoke, StopMonitoring
  <2>5. QED
    BY <2>1, <2>2, <2>3, <2>4
<1>4. QED
  BY <1>2, <1>3

\* A leaf that a step completes is one that the verifier has passed in it.
LEMMA CompletesVerified ==
  ASSUME TypeInv, UnregisteredIsPending, NEW d \in Delegations, StepOf(d),
         NEW t \in LeavesIn(registry', subTasks'), t \in Tasks, status'[t] = "COMPLETED"
  PROVE  (t \in LeavesIn(registry, subTasks) /\ status[t] = "COMPLETED") \/ Verified(t)'
<1> USE DEF TypeInv, DelegatorTypeOK, AtHand, InLeaf, WithContract, Await, LeavesIn, Goto,
        UnregisteredIsPending
<1>1. CASE Decompose(d)
  <2>1. PICK s \in pending[d] : LookAt(d, s)
    BY <1>1 DEF Decompose
  <2>2. subTasks[t] = {}
    <3>1. PICK parts \in {{}, PartsOf[s]} : subTasks' = [subTasks EXCEPT ![s] = @ \union parts]
      BY <2>1 DEF LookAt
    <3>2. QED
      BY <3>1
  <2>3. status[t] = "COMPLETED"
    <3>1. CASE pending'[d] # {}
      BY <1>1, <3>1 DEF Decompose
    <3>2. CASE pending'[d] = {}
      <4>1. PICK leaves \in SUBSET registry' :
              leaves = LeavesIn(registry', subTasks') /\ NextLeaf(d, leaves, status, leaves)
        BY <1>1, <3>2 DEF Decompose
      <4>2. QED
        BY <4>1, NextLeafStatus
    <3>3. QED
      BY <3>1, <3>2
  <2>4. QED
    BY <2>2, <2>3
<1>2. CASE NoBids(d)
  <2> DEFINE now == [status EXCEPT ![leaf[d]] = "FAILED"]
  <2>1. /\ now \in [Tasks -> TaskStatus]
        /\ \A s \in Tasks : now[s] = "COMPLETED" => status[s] = "COMPLETED"
    BY DEF TaskStatus
  <2>2. registry' = registry /\ subTasks' = subTasks /\ left[d] \subseteq registry
    BY <1>2 DEF NoBids
  <2>3. NextLeaf(d, left[d], now, LeavesIn(registry, subTasks))
    BY <1>2 DEF NoBids
  <2> HIDE DEF now
  <2>4. now[t] = "COMPLETED"
    BY <2>1, <2>2, <2>3, NextLeafStatus
  <2>5. QED
    BY <2>1, <2>2, <2>4
<1>3. CASE StopMonitoring(d)
  <2>1. registry' = registry /\ subTasks' = subTasks /\ left[d] \subseteq registry
        /\ NextLeaf(d, left[d], status, LeavesIn(registry, subTasks))
    BY <1>3 DEF StopMonitoring
  <2>2. QED
    BY <2>1, NextLeafStatus
<1>4. CASE Verify(d)
  BY <1>4 DEF Verify, SetStatus, Verified
<1>5. CASE Decide(d)
  BY <1>5 DEF Decide, Decided, SetStatus
<1>6. CASE \/ Delegate(d) \/ SelectBid(d) \/ CreateContract(d) \/ ActivateContract(d) \/ Grant(d)
           \/ Assign(d) \/ StartMonitoring(d) \/ DecideToEnd(d) \/ Cancel(d) \/ Redelegate(d)
           \/ Withdraw(d) \/ Close(d) \/ Record(d) \/ Revoke(d) \/ Raise(d)
  BY <1>6 DEF Delegate, SelectBid, CreateContract, ActivateContract, Grant, Assign, StartMonitoring,
     DecideToEnd, Cancel, Redelegate, Withdraw, SetStatus, Close, Record, Revoke, Raise
<1>7. QED
  BY <1>1, <1>2, <1>3, <1>4, <1>5, <1>6 DEF StepOf, Proceed

LEMMA KeepsCompleted ==
  ASSUME TypeInv, UnregisteredIsPending, Owners, CompletedIsVerified, TypeInv',
         NEW d \in Delegations, StepOf(d)
  PROVE  CompletedIsVerified'
<1>1. SUFFICES ASSUME NEW t \in LeavesIn(registry', subTasks'), status'[t] = "COMPLETED"
               PROVE  Verified(t)'
  BY DEF CompletedIsVerified, Verified
<1>2. t \in Tasks
  BY DEF LeavesIn, TypeInv, DelegatorTypeOK
<1>3. (t \in LeavesIn(registry, subTasks) /\ status[t] = "COMPLETED") => Verified(t)
  BY DEF CompletedIsVerified, Verified
<1>4. QED
  BY <1>1, <1>2, <1>3, CompletesVerified, VerifiedForGood

----------------------------------------------------------------------------
(* The invariant and the theorems                                          *)

LEMMA InitDelegatorInv == Init => DelegatorInv
BY InitTypeInv DEF Init, DelegatorInv, UnregisteredIsPending, Owners, InStep, ExecutionCleansUp,
   VerifiedIsRecorded, CompletedIsVerified, LeavesIn

LEMMA NextDelegatorInv == DelegatorInv /\ [Next]_vars => DelegatorInv'
<1> SUFFICES ASSUME DelegatorInv, [Next]_vars PROVE DelegatorInv'
  OBVIOUS
<1>1. TypeInv'
  BY NextTypeInv DEF DelegatorInv
<1>2. CASE UNCHANGED vars
  BY <1>1, <1>2 DEF vars, delegatorVars, DelegatorInv, UnregisteredIsPending, Owners, InStep,
     ExecutionCleansUp, VerifiedIsRecorded, CompletedIsVerified, LeavesIn
<1>3. ASSUME NEW d \in Delegations, StepOf(d)
      PROVE  DelegatorInv'
  <2>1. UnregisteredIsPending' /\ Owners' /\ InStep'
    BY <1>3, KeepsUnregistered, KeepsOwners, KeepsInStep DEF DelegatorInv
  <2>2. ExecutionCleansUp <=> GrantsAreHeld /\ MonitoredAreWatched
    BY DEF ExecutionCleansUp, GrantsAreHeld, MonitoredAreWatched
  <2>3. ExecutionCleansUp' <=> GrantsAreHeld' /\ MonitoredAreWatched'
    BY DEF ExecutionCleansUp, GrantsAreHeld, MonitoredAreWatched
  <2>4. ExecutionCleansUp'
    BY <1>3, <2>2, <2>3, KeepsGrantsHeld, KeepsWatched DEF DelegatorInv
  <2>5. VerifiedIsRecorded' /\ CompletedIsVerified'
    BY <1>1, <1>3, KeepsRecorded, KeepsCompleted DEF DelegatorInv
  <2>6. QED
    BY <1>1, <2>1, <2>4, <2>5 DEF DelegatorInv
<1>4. QED
  BY <1>2, <1>3 DEF Next, StepOf

LEMMA DelegatorInvariant == Spec => []DelegatorInv
BY InitDelegatorInv, NextDelegatorInv, PTL DEF Spec

\* A grant of a task, and its monitoring, outlive the execution they were
\* made for only when an exception ended it.
THEOREM ExecutionsCleanUp == Spec => []ExecutionCleansUp
<1>1. DelegatorInv => ExecutionCleansUp
  BY DEF DelegatorInv
<1>2. QED
  BY <1>1, DelegatorInvariant, PTL

\* The ledger and the contracts agree, and a completed or breached contract
\* is on the ledger unless an exception came first.
THEOREM VerificationsAreRecorded == Spec => []VerifiedIsRecorded
<1>1. DelegatorInv => VerifiedIsRecorded
  BY DEF DelegatorInv
<1>2. QED
  BY <1>1, DelegatorInvariant, PTL

\* A registered leaf is COMPLETED only when the verifier passed it.
THEOREM CompletionsAreVerified == Spec => []CompletedIsVerified
<1>1. DelegatorInv => CompletedIsVerified
  BY DEF DelegatorInv
<1>2. QED
  BY <1>1, DelegatorInvariant, PTL

----------------------------------------------------------------------------
(* Contracts that stay active.                                             *)

\* The loop is entered, and goes on, with a task IN_PROGRESS, unless another
\* call has written its status since; what leaves it for the revocation is
\* paused, or has moved its contract, or found what another call wrote.
Rewritten(d) == \E e \in Delegations \ {d} : e \in writer[leaf[d]]

PausedOrEnded(d) ==
  /\ pc[d] \in {"start", "poll"} => status[leaf[d]] = "IN_PROGRESS" \/ Rewritten(d)
  /\ pc[d] = "withdraw" => contract[mine[d]] # "ACTIVE"
  /\ pc[d] \in {"revoke", "stop"} =>
       status[leaf[d]] = "PAUSED" \/ Rewritten(d) \/ contract[mine[d]] # "ACTIVE"

LoopInv == \A d \in Delegations : PausedOrEnded(d)

\* A step of the call itself.
LEMMA StepPausedOrEnded ==
  ASSUME TypeInv, InStep, NEW d \in Delegations, PausedOrEnded(d), StepOf(d), Written(d)
  PROVE  PausedOrEnded(d)'
<1> USE DEF TypeInv, DelegatorTypeOK, AtHand, InLeaf, WithContract, Await, PausedOrEnded
<1>1. CASE Delegate(d) \/ Decompose(d) \/ NoBids(d) \/ StopMonitoring(d)
  <2>1. pc'[d] \in {"decompose", "bids", "done"}
    BY <1>1 DEF Delegate, Decompose, NoBids, StopMonitoring, NextLeaf, Goto
  <2>2. QED
    BY <2>1
<1>2. CASE SelectBid(d) \/ CreateContract(d) \/ ActivateContract(d) \/ DecideToEnd(d) \/ Verify(d)
           \/ Close(d) \/ Raise(d) \/ Grant(d)
  <2>1. pc'[d] \in {"create", "activate", "grant", "redelegate", "cancel", "close", "record", "raised"}
    BY <1>2 DEF SelectBid, CreateContract, ActivateContract, DecideToEnd, Verify, Close, Raise, Grant,
                Goto
  <2>2. QED
    BY <2>1
<1>3. CASE Assign(d)
  <2>1. pc'[d] = "start" /\ status'[leaf[d]] = "IN_PROGRESS" /\ leaf' = leaf
    BY <1>3 DEF Assign, SetStatus, Goto
  <2>2. QED
    BY <2>1
<1>4. CASE StartMonitoring(d)
  <2>1. /\ pc[d] = "start" /\ pc'[d] = LoopHead(status[leaf[d]])
        /\ status' = status /\ leaf' = leaf /\ leaf[d] \in Tasks
    BY <1>4 DEF StartMonitoring, Goto
  <2>2. Rewritten(d) => Rewritten(d)'
    BY <2>1 DEF Rewritten, Written
  <2>3. status[leaf[d]] = "IN_PROGRESS" => pc'[d] = "poll"
    BY <2>1 DEF LoopHead
  <2>4. pc'[d] \in {"poll", "verify", "revoke"}
    BY <2>1, LoopHeadIsAPlace
  <2>5. QED
    BY <2>1, <2>2, <2>3, <2>4
<1>5. CASE Decide(d)
  <2>1. PICK s \in Decided(status[leaf[d]]) : SetStatus(d, s) /\ Goto(d, LoopHead(s))
    BY <1>5 DEF Decide
  <2>2. /\ pc[d] = "poll" /\ pc'[d] = LoopHead(s) /\ status'[leaf[d]] = s /\ leaf' = leaf
        /\ leaf[d] \in Tasks
    BY <1>5, <2>1 DEF Decide, SetStatus, Goto
  <2>3. CASE s \in {"UNDER_VERIFICATION", "PAUSED", "IN_PROGRESS"}
    <3>1. \/ s = "UNDER_VERIFICATION" /\ LoopHead(s) = "verify"
          \/ s = "PAUSED" /\ LoopHead(s) = "revoke"
          \/ s = "IN_PROGRESS" /\ LoopHead(s) = "poll"
      BY <2>3 DEF LoopHead
    <3>2. QED
      BY <2>2, <3>1
  <2>4. CASE s = status[leaf[d]] /\ s # "IN_PROGRESS"
    <3>1. Rewritten(d)
      BY <2>2, <2>4
    <3>2. Rewritten(d)'
      BY <2>2, <2>4, <3>1 DEF Rewritten, Written
    <3>3. pc'[d] \in {"poll", "verify", "revoke"}
      BY <2>2, LoopHeadIsAPlace
    <3>4. QED
      BY <3>2, <3>3
  <2>5. QED
    BY <2>1, <2>3, <2>4 DEF Decided
<1>6. CASE Cancel(d) \/ Redelegate(d)
  <2>1. pc'[d] \in {"revoke", "withdraw"} /\ contract'[mine[d]] = "TERMINATED" /\ mine' = mine
    BY <1>6 DEF Cancel, Redelegate, Move, Goto
  <2>2. QED
    BY <2>1
<1>7. CASE Withdraw(d)
  <2>1. pc'[d] = "revoke" /\ contract' = contract /\ mine' = mine /\ pc[d] = "withdraw"
    BY <1>7 DEF Withdraw, Goto
  <2>2. QED
    BY <2>1
<1>8. CASE Record(d)
  <2>1. pc'[d] = "revoke" /\ contract' = contract /\ mine' = mine /\ pc[d] = "record"
    BY <1>8 DEF Record, Goto
  <2>2. contract[mine[d]] # "ACTIVE"
    BY <2>1 DEF InStep
  <2>3. QED
    BY <2>1, <2>2
<1>9. CASE Revoke(d)
  <2>1. /\ pc[d] = "revoke" /\ pc'[d] = "stop" /\ leaf[d] \in Tasks
        /\ UNCHANGED <<contract, mine, status, leaf>>
    BY <1>9 DEF Revoke, Goto
  <2>2. Rewritten(d) => Rewritten(d)'
    BY <2>1 DEF Rewritten, Written
  <2>3. QED
    BY <2>1, <2>2
<1>10. QED
  BY <1>1, <1>2, <1>3, <1>4, <1>5, <1>6, <1>7, <1>8, <1>9 DEF StepOf, Proceed

\* A step of another call: it leaves the status of the leaf as it is, or is
\* the one that wrote it last.
LEMMA OthersRewrite ==
  ASSUME TypeInv, Owners, NEW d \in Delegations, StepOf(d), Written(d),
         NEW e \in Delegations \ {d}, PausedOrEnded(e)
  PROVE  PausedOrEnded(e)'
<1> USE DEF TypeInv, DelegatorTypeOK, AtHand, InLeaf, WithContract, Await, PausedOrEnded
<1>1. pc'[e] = pc[e] /\ leaf'[e] = leaf[e] /\ mine'[e] = mine[e]
  BY OthersStay
<1>2. SUFFICES ASSUME pc[e] \in {"start", "poll", "withdraw", "revoke", "stop"} PROVE PausedOrEnded(e)'
  BY <1>1
<1>3. leaf[e] \in Tasks /\ mine[e] \in Contracts
  BY <1>2
<1>4. status'[leaf[e]] # status[leaf[e]] => Rewritten(e)'
  BY <1>1, <1>3 DEF Written, Rewritten
<1>5. status'[leaf[e]] = status[leaf[e]] /\ Rewritten(e) => Rewritten(e)'
  BY <1>1, <1>3 DEF Written, Rewritten
<1>6. contract[mine[e]] # "ACTIVE" => contract'[mine[e]] # "ACTIVE"
  <2>1. CASE ActivateContract(d)
    <3>1. mine[e] # NoContract
      BY <1>3, DelegatorAssumption
    <3>2. mine[d] # mine[e]
      BY <3>1 DEF Owners
    <3>3. contract' = [contract EXCEPT ![mine[d]] = "ACTIVE"]
      BY <2>1 DEF ActivateContract, Move
    <3>4. QED
      BY <1>3, <3>2, <3>3
  <2>2. CASE ~ActivateContract(d)
    BY <1>3, <2>2 DEF StepOf, Proceed, Delegate, Decompose, NoBids, SelectBid, CreateContract, Grant,
       Assign, StartMonitoring, Decide, DecideToEnd, Cancel, Redelegate, Withdraw, Verify, Close, Record,
       Revoke, StopMonitoring, Raise, Move
  <2>3. QED
    BY <2>1, <2>2
<1>7. QED
  BY <1>1, <1>2, <1>4, <1>5, <1>6

LEMMA NextLoopInv == DelegatorInv /\ LoopInv /\ [Next]_vars => LoopInv'
<1> SUFFICES ASSUME DelegatorInv, LoopInv, [Next]_vars PROVE LoopInv'
  OBVIOUS
<1> USE DEF DelegatorInv
<1>1. CASE UNCHANGED vars
  BY <1>1 DEF vars, delegatorVars, LoopInv, PausedOrEnded, Rewritten
<1>2. ASSUME NEW d \in Delegations, StepOf(d), Written(d), NEW e \in Delegations PROVE PausedOrEnded(e)'
  <2>1. CASE e = d
    BY <1>2, <2>1, StepPausedOrEnded DEF LoopInv
  <2>2. CASE e # d
    BY <1>2, <2>2, OthersRewrite DEF LoopInv
  <2>3. QED
    BY <2>1, <2>2
<1>3. QED
  BY <1>1, <1>2 DEF Next, StepOf, LoopInv

\* However calls interleave, an execution that ends without an exception
\* leaves its contract active only when it was paused or when the status of
\* its leaf was last written by another call.
THEOREM OnlyPausesAbandon == Spec => OnlyPauseAbandons
<1> DEFINE Abandons(d) == pc[d] = "stop" /\ pc'[d] \notin {"stop", "raised"} /\ contract[mine[d]] = "ACTIVE"
           Excused(d) == status[leaf[d]] = "PAUSED" \/ \E e \in Delegations \ {d} : e \in writer[leaf[d]]
<1>1. Init => LoopInv
  BY DEF Init, LoopInv, PausedOrEnded
<1>2. LoopInv => \A d \in Delegations : pc[d] = "stop" /\ contract[mine[d]] = "ACTIVE" => Excused(d)
  BY DEF LoopInv, PausedOrEnded, Rewritten
<1>3. LoopInv => [\A d \in Delegations : Abandons(d) => Excused(d)]_delegatorVars
  BY <1>2
<1>4. QED
  BY <1>1, <1>3, NextLoopInv, DelegatorInvariant, PTL DEF Spec, OnlyPauseAbandons

=============================================================================
