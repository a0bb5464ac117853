------------------------- MODULE PermissionGateway -------------------------
(***************************************************************************)
(* Access checks on top of the contract service: requirePermission         *)
(* (middleware/permission-gateway.ts) and checkToolPermission              *)
(* (adapters/openclaw-gateway.ts).  Both read the contract, await, and     *)
(* then read a permission grant of the same agent and task.  The grants    *)
(* are the rows that activateContract creates and that the ends of         *)
(* contracts revoke, and they run out while everything else goes on.       *)
(***************************************************************************)
EXTENDS ContractService, SequencesExt

CONSTANTS
  Checks,         \* bound: the access checks that are ever made
  Scope,          \* scopes: sequences of levels, "*" among them
  Required,       \* the scopes that are asked for
  ScopesOf,       \* contract.permissionsGranted, of every contract
  Duration,       \* contract.slaMaxDurationSeconds; 0 counts as none
  Tokens,         \* the capability tokens that requests carry
  NoToken,        \* a request without the x-dct header
  MaxTime         \* bound: the clock stops here

Never == MaxTime + 1

VARIABLES
  now,            \* the clock
  begun,          \* the "now" of every request of the contract service
  activatedAt,    \* contract.activatedAt
  grants,         \* the unrevoked PermissionGrant rows, per contract
  check,          \* the access checks
  overlapped      \* History: the contracts two requests worked on at once

accessVars == <<now, begun, activatedAt, grants, check, overlapped>>
gatewayVars == <<vars, accessVars>>

Token == [agent: Agents, task: Tasks, scopes: SUBSET Scope,
          issued: 0..MaxTime, expires: 0..MaxTime, signed: BOOLEAN]

\* A check that has begun, and the two ways in.
Entrance == {"gateway", "openclaw"}
Access == [pc: {"grant", "allowed", "denied", "failed"}, via: Entrance, agent: Agents, task: Tasks,
           scope: Required, token: Tokens \union {NoToken}]
NewCheck == [pc |-> "new"]

ASSUME GatewayAssumption ==
  /\ MaxTime \in Nat
  /\ Duration \in [Contracts -> Nat]
  /\ ScopesOf \in [Contracts -> SUBSET Scope]
  /\ Permitted = {c \in Contracts : ScopesOf[c] # {}}
  /\ Scope \subseteq Seq(STRING) /\ Required \subseteq Scope
  /\ Tokens \subseteq Token /\ NoToken \notin Tokens

----------------------------------------------------------------------------
(* Scopes                                                                  *)

\* Mutant: a scope covers what covers it.
MutantCoversEither(granted, required) ==
  IsPrefix(granted, required) \/ IsPrefix(required, granted)

\* A granted scope covers a required one when they agree up to the first
\* "*" of the granted one, or up to its end.
scopeCovers(granted, required) ==
  \/ granted = required
  \/ \E n \in 0..Len(granted) :
       /\ n = Len(granted) \/ granted[n + 1] = "*"
       /\ IsPrefix(SubSeq(granted, 1, n), required)

validateDCT(token, agentId, taskId, scope) ==
  /\ token.agent = agentId
  /\ token.task = taskId
  /\ now < token.expires /\ token.issued <= now
  /\ \E s \in token.scopes : scopeCovers(s, scope)
  /\ token.signed

----------------------------------------------------------------------------
(* The contract service's statements and the grant rows they write         *)

Until(from, c) ==
  IF Duration[c] = 0 \/ from + Duration[c] > MaxTime THEN Never ELSE from + Duration[c]

\* Mutant: the time runs from the moment the grants are created.
MutantUntilFromGrant(r) ==
  LET c == ContractOf(r) IN [contract |-> c, until |-> Until(now, c)]

\* activateContract: expiresAt counts from the time of the activation.
GrantRow(r) == LET c == ContractOf(r) IN [contract |-> c, until |-> Until(begun[r], c)]

\* revokePermissionsForTask: the rows that stay.
Unrevoked(r) == {g \in grants : TaskOf[g.contract] # TaskOf[ContractOf(r)]}

ServiceBegin(r, op, c, severity) ==
  /\ Begin(r, op, c, severity)
  /\ begun' = [begun EXCEPT ![r] = now]
  /\ overlapped' = overlapped \union
       {d \in {c} : At(r, "status")' /\ \E q \in InFlight : ContractOf(q) = d}
  /\ UNCHANGED <<now, activatedAt, grants, check>>

ServiceStep(r) ==
  /\ Step(r)
  /\ activatedAt' = IF At(r, "status") /\ HandlerOf(r).to = "ACTIVE"
                    THEN [activatedAt EXCEPT ![ContractOf(r)] = begun[r]] ELSE activatedAt
  /\ grants' = IF At(r, "grant") /\ ContractOf(r) \in Permitted THEN grants \union {GrantRow(r)}
               ELSE IF At(r, "revoke") THEN Unrevoked(r)
               ELSE grants
  /\ UNCHANGED <<now, begun, check, overlapped>>

ServiceFail(r) == Fail(r) /\ UNCHANGED accessVars

Tick ==
  /\ now < MaxTime
  /\ now' = now + 1
  /\ UNCHANGED <<vars, begun, activatedAt, grants, check, overlapped>>

----------------------------------------------------------------------------
(* An access check                                                         *)

\* smartContract.findFirst: any ACTIVE contract of the agent for the task.
HasActive(a, t) ==
  \E c \in Contracts : contract[c].status = "ACTIVE" /\ AgentOf[c] = a /\ TaskOf[c] = t

ReadContract(k, via, a, t, scope, token) ==
  /\ check[k].pc = "new"
  /\ via = "openclaw" => token = NoToken
  /\ check' = [check EXCEPT ![k] =
       [pc |-> IF HasActive(a, t) THEN "grant" ELSE "denied",
        via |-> via, agent |-> a, task |-> t, scope |-> scope, token |-> token]]
  /\ UNCHANGED <<vars, now, begun, activatedAt, grants, overlapped>>

\* Mutants: anyone's grant for the task will do; a grant runs out one tick
\* before its time.
MutantGrantOfTask(k) ==
  {g \in grants : TaskOf[g.contract] = check[k].task /\ now < g.until}
MutantExpiresEarly(k) ==
  {g \in grants : TaskOf[g.contract] = check[k].task /\ AgentOf[g.contract] = check[k].agent
                  /\ now + 1 < g.until}

\* The agent's unrevoked, unexpired grants for the task.
Usable(k) ==
  {g \in grants : TaskOf[g.contract] = check[k].task /\ AgentOf[g.contract] = check[k].agent
                  /\ now < g.until}

\* requirePermission asks the database for the very scope and then looks at
\* the token.
GatewayAllows(k) ==
  /\ \E g \in Usable(k) : check[k].scope \in ScopesOf[g.contract]
  /\ check[k].token # NoToken =>
       validateDCT(check[k].token, check[k].agent, check[k].task, check[k].scope)

\* checkToolPermission asks the database for any grant at all and compares
\* the scope of the row it happens to get.
OpenClawAnswers(k) ==
  IF Usable(k) = {} THEN {FALSE}
  ELSE {scopeCovers(s, check[k].scope) : s \in UNION {ScopesOf[g.contract] : g \in Usable(k)}}

ReadGrant(k) ==
  /\ check[k].pc = "grant"
  /\ \E allowed \in IF check[k].via = "gateway" THEN {GatewayAllows(k)} ELSE OpenClawAnswers(k) :
       check' = [check EXCEPT ![k].pc = IF allowed THEN "allowed" ELSE "denied"]
  /\ UNCHANGED <<vars, now, begun, activatedAt, grants, overlapped>>

\* The query throws: PERM_INTERNAL_ERROR.
FailCheck(k) ==
  /\ check[k].pc = "grant"
  /\ check' = [check EXCEPT ![k].pc = "failed"]
  /\ UNCHANGED <<vars, now, begun, activatedAt, grants, overlapped>>

----------------------------------------------------------------------------
(* The specification                                                       *)

GatewayInit ==
  /\ Init
  /\ now = 0
  /\ begun = [r \in Requests |-> 0]
  /\ activatedAt = [c \in Contracts |-> 0]
  /\ grants = {[contract |-> c, until |-> Until(0, c)] : c \in live}
  /\ check = [k \in Checks |-> NewCheck]
  /\ overlapped = {}

ServiceNext == \E r \in Requests :
  \/ \E op \in Operation, c \in Contracts : \E severity \in Severable(op) :
       ServiceBegin(r, op, c, severity)
  \/ ServiceStep(r)
  \/ ServiceFail(r)

CheckNext == \E k \in Checks :
  \/ \E via \in Entrance, a \in Agents, t \in Tasks, scope \in Required,
        token \in Tokens \union {NoToken} : ReadContract(k, via, a, t, scope, token)
  \/ ReadGrant(k)
  \/ FailCheck(k)

GatewayNext == ServiceNext \/ CheckNext \/ Tick

GatewaySpec == GatewayInit /\ [][GatewayNext]_gatewayVars

----------------------------------------------------------------------------
(* Properties                                                              *)

GatewayTypeOK ==
  /\ TypeOK
  /\ now \in 0..MaxTime
  /\ begun \in [Requests -> 0..MaxTime]
  /\ activatedAt \in [Contracts -> 0..MaxTime]
  /\ grants \subseteq [contract: Permitted, until: 1..Never]
  /\ check \in [Checks -> Access \union {NewCheck}]
  /\ overlapped \subseteq Contracts

(* What holds however checks and contract operations interleave.           *)

(* A check is only allowed when a contract of that agent for that task was *)
(* activated and granted a scope that covers the one asked for: the two    *)
(* reads of a check may see two contracts, never those of another agent.   *)
AllowedMeansGranted == \A k \in Checks : check[k].pc = "allowed" =>
  \E c \in Contracts :
    /\ AgentOf[c] = check[k].agent /\ TaskOf[c] = check[k].task
    /\ contract[c].activated
    /\ \E s \in ScopesOf[c] : scopeCovers(s, check[k].scope)

(* Scopes attenuate along a chain: whatever covers a scope covers all that *)
(* the scope covers, so a token drawn from a grant asks for no more.       *)
CoverageComposes == \A k \in Checks : check[k].pc # "new" =>
  \A g, h \in Scope :
    scopeCovers(g, h) /\ scopeCovers(h, check[k].scope) => scopeCovers(g, check[k].scope)

(* Two requests about one contract that overlap can leave it anything, the *)
(* grants of an ended contract among them; what follows holds of the       *)
(* contracts to which that has not happened, however requests about other  *)
(* contracts and checks interleave.                                        *)

HasEnded(c) == contract[c].status \in EndedStatus
For(c, k) == AgentOf[c] = check[k].agent /\ TaskOf[c] = check[k].task
InTime(c) == Duration[c] = 0 \/ now < activatedAt[c] + Duration[c]
Turns(k, verdict) == check[k].pc = "grant" /\ check'[k].pc = verdict

(* Permissions are "scoped, time-limited, and automatically revoked when   *)
(* the contract ends": although a contract may end, or another one of the  *)
(* agent take its place, between the two reads of a check, access is       *)
(* allowed only by a contract that itself covers the scope, within its     *)
(* time, and while it is active, or the request that ends it is on its way *)
(* or failed.                                                              *)
AccessIsCurrent == [][\A k \in Checks : Turns(k, "allowed") =>
  \E c \in Contracts :
    /\ For(c, k)
    /\ \E s \in ScopesOf[c] : scopeCovers(s, check[k].scope)
    /\ c \notin overlapped =>
         InTime(c) /\ (contract[c].status = "ACTIVE" \/ Concerned(c))]_check

(* An active contract gives its agent the scopes it grants for the whole   *)
(* agreed time, unless a request about it is on its way or failed, or the  *)
(* end of another contract of the task has revoked all grants of the task. *)
ActiveHasAccess == [][\A k \in Checks :
  Turns(k, "denied") /\ check[k].via = "gateway" /\ check[k].token = NoToken =>
    \A c \in Contracts :
      For(c, k) /\ contract[c].status = "ACTIVE" /\ InTime(c) /\ check[k].scope \in ScopesOf[c]
        => \/ Concerned(c)
           \/ \E d \in Contracts :
                TaskOf[d] = TaskOf[c] /\ (HasEnded(d) \/ d \in overlapped)]_check

============================================================================
