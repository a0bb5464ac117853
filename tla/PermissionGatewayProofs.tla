---------------------- MODULE PermissionGatewayProofs ----------------------
(***************************************************************************)
(* Proofs about PermissionGateway, for any number of checks, contracts and *)
(* requests and any scopes.  A check trusts the grant rows; the rows are   *)
(* trusted because each is of a contract that is live in the sense of      *)
(* ContractService, and only activated contracts are (RecordsInv).         *)
(***************************************************************************)
EXTENDS PermissionGateway, ContractServiceProofs

----------------------------------------------------------------------------
(* Types                                                                   *)

LEMMA UntilType ==
  ASSUME NEW from \in 0..MaxTime, NEW c \in Contracts
  PROVE  Until(from, c) \in 1..Never
<1>1. MaxTime \in Nat /\ Duration[c] \in Nat
  BY GatewayAssumption
<1>2. QED
  BY <1>1 DEF Until, Never

LEMMA InitGatewayTypeOK == GatewayInit => GatewayTypeOK
<1> SUFFICES ASSUME GatewayInit PROVE GatewayTypeOK
  OBVIOUS
<1>1. TypeOK
  BY InitTypeOK DEF GatewayInit
<1>2. 0 \in 0..MaxTime
  BY GatewayAssumption
<1>3. grants \subseteq [contract: Permitted, until: 1..Never]
  BY <1>1, <1>2, UntilType, ConstantsAssumption DEF GatewayInit, TypeOK
<1>4. QED
  BY <1>1, <1>2, <1>3 DEF GatewayInit, GatewayTypeOK

\* A statement of the contract service is made for one of the contracts.
LEMMA StepContract ==
  ASSUME TypeOK, NEW r \in Requests, Step(r)
  PROVE  ContractOf(r) \in Contracts
<1>1. r \in InFlight /\ call' = call /\ Await(r)
  BY DEF Step, WriteStatus, WriteTask, Grant, RecordPenalty, RecordLedger, ReadAgent,
         WriteAgent, Revoke, At, InFlight, Statement, db
<1>2. QED
  BY <1>1, AwaitType

LEMMA ServiceIsNext == ServiceNext => Next
  BY DEF ServiceNext, ServiceBegin, ServiceStep, ServiceFail, Next

LEMMA ServiceKeepsChecks == ServiceNext => UNCHANGED <<now, check>>
  BY DEF ServiceNext, ServiceBegin, ServiceStep, ServiceFail, accessVars

LEMMA ServiceGrants ==
  ASSUME GatewayTypeOK, ServiceNext
  PROVE  /\ grants' \subseteq [contract: Permitted, until: 1..Never]
         /\ activatedAt' \in [Contracts -> 0..MaxTime]
         /\ begun' \in [Requests -> 0..MaxTime]
         /\ overlapped' \subseteq Contracts
<1>1. ASSUME NEW r \in Requests, ServiceStep(r)
      PROVE  /\ grants' \subseteq [contract: Permitted, until: 1..Never]
             /\ activatedAt' \in [Contracts -> 0..MaxTime]
             /\ UNCHANGED <<begun, overlapped>>
  <2>1. ContractOf(r) \in Contracts /\ begun[r] \in 0..MaxTime
    BY <1>1, StepContract DEF ServiceStep, GatewayTypeOK
  <2>2. ContractOf(r) \in Permitted => GrantRow(r) \in [contract: Permitted, until: 1..Never]
    BY <2>1, UntilType DEF GrantRow
  <2>3. Unrevoked(r) \subseteq grants
    BY DEF Unrevoked
  <2>4. QED
    BY <1>1, <2>1, <2>2, <2>3 DEF ServiceStep, GatewayTypeOK
<1>2. ASSUME NEW r \in Requests, NEW op \in Operation, NEW c \in Contracts,
             NEW severity \in Severable(op), ServiceBegin(r, op, c, severity)
      PROVE  /\ begun' \in [Requests -> 0..MaxTime] /\ overlapped' \subseteq Contracts
             /\ UNCHANGED <<activatedAt, grants>>
  BY <1>2 DEF ServiceBegin, GatewayTypeOK
<1>3. ASSUME NEW r \in Requests, ServiceFail(r)
      PROVE  UNCHANGED accessVars
  BY <1>3 DEF ServiceFail
<1>4. QED
  BY <1>1, <1>2, <1>3 DEF ServiceNext, GatewayTypeOK, accessVars

\* A check writes nothing but its own record.
LEMMA CheckStep ==
  ASSUME GatewayTypeOK, CheckNext
  PROVE  /\ UNCHANGED <<vars, now, begun, activatedAt, grants, overlapped>>
         /\ check' \in [Checks -> Access \union {NewCheck}]
<1>1. ASSUME NEW k \in Checks, NEW a \in Agents, NEW t \in Tasks, NEW scope \in Required,
             NEW token \in Tokens \union {NoToken},
             NEW via \in Entrance, ReadContract(k, via, a, t, scope, token)
      PROVE  check' \in [Checks -> Access \union {NewCheck}]
  BY <1>1 DEF ReadContract, GatewayTypeOK, Access
<1>2. ASSUME NEW k \in Checks, ReadGrant(k) \/ FailCheck(k)
      PROVE  check' \in [Checks -> Access \union {NewCheck}]
  <2>1. check[k] \in Access
    BY <1>2 DEF ReadGrant, FailCheck, GatewayTypeOK, NewCheck
  <2>2. QED
    BY <1>2, <2>1 DEF ReadGrant, FailCheck, GatewayTypeOK, Access
<1>3. QED
  BY <1>1, <1>2 DEF CheckNext, ReadContract, ReadGrant, FailCheck

LEMMA NextGatewayTypeOK == GatewayTypeOK /\ [GatewayNext]_gatewayVars => GatewayTypeOK'
<1> SUFFICES ASSUME GatewayTypeOK, [GatewayNext]_gatewayVars PROVE GatewayTypeOK'
  OBVIOUS
<1>1. CASE ServiceNext
  <2>1. TypeOK'
    BY <1>1, ServiceIsNext, NextTypeOK DEF GatewayTypeOK
  <2>2. QED
    BY <1>1, <2>1, ServiceGrants, ServiceKeepsChecks DEF GatewayTypeOK
<1>2. CASE CheckNext \/ Tick \/ UNCHANGED gatewayVars
  <2>1. TypeOK'
    BY <1>2, CheckStep, NextTypeOK DEF GatewayTypeOK, Tick, gatewayVars
  <2>2. now' \in 0..MaxTime
    BY <1>2, CheckStep, GatewayAssumption DEF GatewayTypeOK, Tick, gatewayVars, accessVars
  <2>3. /\ UNCHANGED <<begun, activatedAt, grants, overlapped>>
        /\ check' \in [Checks -> Access \union {NewCheck}]
    BY <1>2, CheckStep DEF GatewayTypeOK, Tick, gatewayVars, accessVars
  <2>4. QED
    BY <2>1, <2>2, <2>3 DEF GatewayTypeOK
<1>3. QED
  BY <1>1, <1>2 DEF GatewayNext

\* Types of the contract service, the clock, the grants and the checks.
THEOREM GatewayTypeCorrect == GatewaySpec => []GatewayTypeOK
<1>1. QED
  BY InitGatewayTypeOK, NextGatewayTypeOK, PTL DEF GatewaySpec

----------------------------------------------------------------------------
(* The inductive invariant                                                 *)

GrantsAreLive == \A g \in grants : g.contract \in live

AccessInv == RecordsInv /\ GrantsAreLive /\ AllowedMeansGranted

LEMMA InitAccessInv == GatewayInit => AccessInv
<1> SUFFICES ASSUME GatewayInit PROVE AccessInv
  OBVIOUS
<1>1. RecordsInv
  BY InitRecordsInv DEF GatewayInit
<1>2. GrantsAreLive /\ AllowedMeansGranted
  BY DEF GatewayInit, GrantsAreLive, AllowedMeansGranted, NewCheck
<1>3. QED
  BY <1>1, <1>2 DEF AccessInv

\* The rows follow the statements that the contract service makes.
LEMMA ServiceGrantsAreLive ==
  ASSUME GatewayTypeOK, GrantsAreLive, ServiceNext
  PROVE  GrantsAreLive'
<1>1. ASSUME NEW r \in Requests, ServiceStep(r)
      PROVE  GrantsAreLive'
  <2>1. CASE Grant(r)
    <3>1. pc[r] = "grant" /\ live' = live \union ({ContractOf(r)} \intersect Permitted)
      BY <2>1 DEF Grant, At
    <3>2. grants' = IF ContractOf(r) \in Permitted THEN grants \union {GrantRow(r)} ELSE grants
      BY <1>1, <3>1 DEF ServiceStep, At
    <3>3. GrantRow(r).contract = ContractOf(r)
      BY DEF GrantRow
    <3>4. QED
      BY <3>1, <3>2, <3>3 DEF GrantsAreLive
  <2>2. CASE Revoke(r)
    <3>1. pc[r] = "revoke" /\ live' = {c \in live : TaskOf[c] # TaskOf[ContractOf(r)]}
      BY <2>2 DEF Revoke, At
    <3>2. grants' = Unrevoked(r)
      BY <1>1, <3>1 DEF ServiceStep, At
    <3>3. QED
      BY <3>1, <3>2 DEF GrantsAreLive, Unrevoked
  <2>3. CASE ~Grant(r) /\ ~Revoke(r)
    <3>1. live' = live /\ pc[r] \notin {"grant", "revoke"}
      BY <1>1, <2>3 DEF ServiceStep, Step, WriteStatus, WriteTask, RecordPenalty, RecordLedger,
                        ReadAgent, WriteAgent, At, db
    <3>2. grants' = grants
      BY <1>1, <3>1 DEF ServiceStep, At
    <3>3. QED
      BY <3>1, <3>2 DEF GrantsAreLive
  <2>4. QED
    BY <2>1, <2>2, <2>3
<1>2. ASSUME NEW r \in Requests, NEW op \in Operation, NEW c \in Contracts,
             NEW severity \in Severable(op),
             ServiceBegin(r, op, c, severity)
      PROVE  GrantsAreLive'
  BY <1>2 DEF ServiceBegin, Begin, db, GrantsAreLive
<1>3. ASSUME NEW r \in Requests, ServiceFail(r)
      PROVE  GrantsAreLive'
  BY <1>3 DEF ServiceFail, Fail, db, accessVars, GrantsAreLive
<1>4. QED
  BY <1>1, <1>2, <1>3 DEF ServiceNext

\* A contract that justified an access has been activated for good.
LEMMA ServiceKeepsAllowed ==
  ASSUME GatewayTypeOK, AllowedMeansGranted, ServiceNext
  PROVE  AllowedMeansGranted'
<1>1. check' = check
  BY ServiceKeepsChecks
<1>2. PICK r \in Requests : RequestStep(r)
  BY DEF ServiceNext, ServiceBegin, ServiceStep, ServiceFail, RequestStep
<1>3. \A c \in Contracts : contract[c].activated => contract'[c].activated
  BY <1>2, Frame DEF GatewayTypeOK
<1>4. QED
  BY <1>1, <1>3 DEF AllowedMeansGranted

\* A check that is allowed has seen a grant of its agent for its task.
LEMMA AllowedByGrant ==
  ASSUME GatewayTypeOK, NEW k \in Checks, ReadGrant(k), check'[k].pc = "allowed"
  PROVE  \E g \in Usable(k) : \E s \in ScopesOf[g.contract] : scopeCovers(s, check[k].scope)
<1>1. check[k] \in Access
  BY DEF ReadGrant, GatewayTypeOK, NewCheck
<1>2. PICK allowed \in IF check[k].via = "gateway" THEN {GatewayAllows(k)} ELSE OpenClawAnswers(k) :
        check' = [check EXCEPT ![k].pc = IF allowed THEN "allowed" ELSE "denied"]
  BY DEF ReadGrant
<1>3. allowed
  BY <1>1, <1>2 DEF GatewayTypeOK, Access
<1>4. CASE check[k].via = "gateway"
  BY <1>2, <1>3, <1>4 DEF GatewayAllows, scopeCovers
<1>5. CASE check[k].via # "gateway"
  BY <1>2, <1>3, <1>5 DEF OpenClawAnswers
<1>6. QED
  BY <1>4, <1>5

LEMMA CheckKeepsAllowed ==
  ASSUME GatewayTypeOK, RecordsInv, GrantsAreLive, AllowedMeansGranted, CheckNext
  PROVE  AllowedMeansGranted'
<1>1. contract' = contract
  BY CheckStep DEF vars
<1>2. ASSUME NEW k \in Checks, NEW a \in Agents, NEW t \in Tasks, NEW scope \in Required,
             NEW token \in Tokens \union {NoToken},
             NEW via \in Entrance, ReadContract(k, via, a, t, scope, token)
      PROVE  AllowedMeansGranted'
  BY <1>1, <1>2 DEF ReadContract, AllowedMeansGranted, GatewayTypeOK
<1>3. ASSUME NEW k \in Checks, FailCheck(k)
      PROVE  AllowedMeansGranted'
  BY <1>1, <1>3 DEF FailCheck, AllowedMeansGranted, GatewayTypeOK, Access, NewCheck
<1>4. ASSUME NEW k \in Checks, ReadGrant(k)
      PROVE  AllowedMeansGranted'
  <2> SUFFICES ASSUME NEW j \in Checks, check'[j].pc = "allowed"
               PROVE  \E c \in Contracts :
                        /\ AgentOf[c] = check'[j].agent /\ TaskOf[c] = check'[j].task
                        /\ contract'[c].activated
                        /\ \E s \in ScopesOf[c] : scopeCovers(s, check'[j].scope)
    BY DEF AllowedMeansGranted
  <2>1. CASE j # k
    BY <1>1, <1>4, <2>1 DEF ReadGrant, AllowedMeansGranted, GatewayTypeOK
  <2>2. CASE j = k
    <3>1. check[k] \in Access
      BY <1>4 DEF ReadGrant, GatewayTypeOK, NewCheck
    <3>2. /\ check'[k].agent = check[k].agent /\ check'[k].task = check[k].task
          /\ check'[k].scope = check[k].scope
      BY <1>4, <3>1 DEF ReadGrant, GatewayTypeOK, Access
    <3>3. PICK g \in Usable(k) : \E s \in ScopesOf[g.contract] : scopeCovers(s, check[k].scope)
      BY <1>4, <2>2, AllowedByGrant
    <3>4. /\ g \in grants /\ AgentOf[g.contract] = check[k].agent
          /\ TaskOf[g.contract] = check[k].task
      BY <3>3 DEF Usable
    <3>5. contract[g.contract].activated
      BY <3>4 DEF GrantsAreLive, RecordsInv, GrantsFollowActivation
    <3>6. g.contract \in Contracts
      BY <3>4, ConstantsAssumption DEF GatewayTypeOK
    <3>7. QED
      BY <1>1, <2>2, <3>2, <3>3, <3>4, <3>5, <3>6
  <2>3. QED
    BY <2>1, <2>2
<1>5. QED
  BY <1>2, <1>3, <1>4 DEF CheckNext

LEMMA NextAccessInv == GatewayTypeOK /\ AccessInv /\ [GatewayNext]_gatewayVars => AccessInv'
<1> SUFFICES ASSUME GatewayTypeOK, AccessInv, [GatewayNext]_gatewayVars PROVE AccessInv'
  OBVIOUS
<1>1. TypeOK
  BY DEF GatewayTypeOK
<1>2. CASE ServiceNext
  BY <1>1, <1>2, ServiceIsNext, NextRecordsInv, ServiceGrantsAreLive, ServiceKeepsAllowed DEF AccessInv
<1>3. CASE CheckNext
  <2>1. RecordsInv'
    BY <1>1, <1>3, CheckStep, NextRecordsInv DEF AccessInv
  <2>2. GrantsAreLive'
    BY <1>3, CheckStep DEF AccessInv, GrantsAreLive, vars
  <2>3. QED
    BY <1>3, <2>1, <2>2, CheckKeepsAllowed DEF AccessInv
<1>4. CASE Tick \/ UNCHANGED gatewayVars
  <2>1. UNCHANGED <<vars, grants, check>>
    BY <1>4 DEF Tick, gatewayVars, accessVars
  <2>2. RecordsInv'
    BY <1>1, <2>1, NextRecordsInv DEF AccessInv
  <2>3. QED
    BY <2>1, <2>2 DEF AccessInv, GrantsAreLive, AllowedMeansGranted, vars
<1>5. QED
  BY <1>2, <1>3, <1>4 DEF GatewayNext

THEOREM AccessInvariant == GatewaySpec => []AccessInv
<1>1. QED
  BY InitAccessInv, NextAccessInv, GatewayTypeCorrect, PTL DEF GatewaySpec

\* Whatever interleaves, an access that is allowed is of an agent whose
\* contract for that task was activated and grants a scope that covers it.
THEOREM AccessIsGranted == GatewaySpec => []AllowedMeansGranted
<1>1. AccessInv => AllowedMeansGranted
  BY DEF AccessInv
<1>2. QED
  BY <1>1, AccessInvariant, PTL

----------------------------------------------------------------------------
(* Scopes                                                                  *)

\* A stem of g is a prefix of r when they agree on its levels.
LEMMA PrefixByLevels ==
  ASSUME NEW g \in Seq(STRING), NEW r \in Seq(STRING), NEW n \in 0..Len(g)
  PROVE  IsPrefix(SubSeq(g, 1, n), r) <=> n <= Len(r) /\ \A i \in 1..n : g[i] = r[i]
<1>1. /\ SubSeq(g, 1, n) \in Seq(STRING) /\ Len(SubSeq(g, 1, n)) = n
      /\ \A i \in 1..n : SubSeq(g, 1, n)[i] = g[i]
  OBVIOUS
<1> DEFINE p == SubSeq(g, 1, n)
<1>2. SubSeq(p, 1, Len(p)) = p
  BY <1>1
<1>3. IsPrefix(p, r) <=> n <= Len(r) /\ p = SubSeq(r, 1, n)
  BY <1>1, <1>2 DEF IsPrefix
<1>4. ASSUME n <= Len(r)
      PROVE  p = SubSeq(r, 1, n) <=> \A i \in 1..n : g[i] = r[i]
  <2>1. /\ SubSeq(r, 1, n) \in Seq(STRING) /\ Len(SubSeq(r, 1, n)) = n
        /\ \A i \in 1..n : SubSeq(r, 1, n)[i] = r[i]
    BY <1>4
  <2>2. QED
    BY <1>1, <2>1
<1>5. QED
  BY <1>3, <1>4

\* If the stem of h that r has reaches beyond the stem of g that h has, g
\* covers r by the latter; if not, h has its "*" within the stem of g, so g
\* has it there too.
LEMMA CoversTransitive ==
  ASSUME NEW g \in Scope, NEW h \in Scope, NEW r \in Scope,
         scopeCovers(g, h), scopeCovers(h, r)
  PROVE  scopeCovers(g, r)
<1>1. g \in Seq(STRING) /\ h \in Seq(STRING) /\ r \in Seq(STRING)
  BY GatewayAssumption
<1>2. CASE g = h \/ h = r
  BY <1>2
<1>3. CASE g # h /\ h # r
  <2>1. PICK n \in 0..Len(g) : /\ n = Len(g) \/ g[n + 1] = "*"
                               /\ IsPrefix(SubSeq(g, 1, n), h)
    BY <1>3 DEF scopeCovers
  <2>2. PICK m \in 0..Len(h) : /\ m = Len(h) \/ h[m + 1] = "*"
                               /\ IsPrefix(SubSeq(h, 1, m), r)
    BY <1>3 DEF scopeCovers
  <2>3. n <= Len(h) /\ \A i \in 1..n : g[i] = h[i]
    BY <1>1, <2>1, PrefixByLevels
  <2>4. m <= Len(r) /\ \A i \in 1..m : h[i] = r[i]
    BY <1>1, <2>2, PrefixByLevels
  <2>5. CASE n <= m
    <3>1. n <= Len(r) /\ \A i \in 1..n : g[i] = r[i]
      BY <1>1, <2>3, <2>4, <2>5
    <3>2. IsPrefix(SubSeq(g, 1, n), r)
      BY <1>1, <3>1, PrefixByLevels
    <3>3. QED
      BY <2>1, <3>2 DEF scopeCovers
  <2>6. CASE m < n
    <3>1. m \in 0..Len(g) /\ h[m + 1] = "*" /\ g[m + 1] = h[m + 1]
      BY <1>1, <2>2, <2>3, <2>6
    <3>2. \A i \in 1..m : g[i] = r[i]
      BY <1>1, <2>3, <2>4, <2>6
    <3>3. IsPrefix(SubSeq(g, 1, m), r)
      BY <1>1, <2>4, <3>1, <3>2, PrefixByLevels
    <3>4. QED
      BY <3>1, <3>3 DEF scopeCovers
  <2>7. QED
    BY <1>1, <2>1, <2>2, <2>5, <2>6
<1>4. QED
  BY <1>2, <1>3

\* Coverage composes, for scopes of any depth with wildcards anywhere.
THEOREM CoverageIsTransitive == GatewaySpec => []CoverageComposes
<1>1. GatewayTypeOK => CoverageComposes
  <2> SUFFICES ASSUME GatewayTypeOK, NEW k \in Checks, check[k].pc # "new",
                      NEW g \in Scope, NEW h \in Scope,
                      scopeCovers(g, h), scopeCovers(h, check[k].scope)
               PROVE  scopeCovers(g, check[k].scope)
    BY DEF CoverageComposes
  <2>1. check[k] \in Access
    BY DEF GatewayTypeOK, NewCheck
  <2>2. check[k].scope \in Scope
    BY <2>1, GatewayAssumption DEF Access
  <2>3. QED
    BY <2>2, CoversTransitive
<1>2. QED
  BY <1>1, GatewayTypeCorrect, PTL

----------------------------------------------------------------------------
(* Time.  Requests about different contracts interleave freely, and so do  *)
(* requests about the same one when they overlap.  A contract "apart" is   *)
(* one of which no two requests ever overlapped: the request about it is   *)
(* alone with it, so that an activation has dated it before it makes the   *)
(* rows and nothing dates it again.  Its rows are those of an active       *)
(* contract, or of one whose end is on its way or failed; and while it is  *)
(* active and nobody is about it, it has them, unless the end of another   *)
(* contract, or one that is not apart, took the rows of the task away.     *)

Apart == Contracts \ overlapped
Started == {"ACTIVE"} \union EndedStatus

Alone == \A r, q \in InFlight :
  ContractOf(r) = ContractOf(q) /\ ContractOf(r) \in Apart => r = q

\* The guard holds until the status is written, and the status written
\* stays, with its date, until the handler is done.
InStep(r) ==
  IF At(r, "status") THEN contract[ContractOf(r)].status \in HandlerOf(r).from
  ELSE /\ contract[ContractOf(r)].status = HandlerOf(r).to
       /\ call[r].op = "activate" => activatedAt[ContractOf(r)] = begun[r]

KeepsStep == \A r \in InFlight : ContractOf(r) \in Apart => InStep(r)

ActivatedIsStarted == \A c \in Apart : contract[c].activated => contract[c].status \in Started

RowsAreDated == \A g \in grants :
  g.contract \in Apart => g.until = Until(activatedAt[g.contract], g.contract)

HasRow(c) == \E g \in grants : g.contract = c
RowsOfEndedAreDue == \A c \in Apart : HasRow(c) /\ HasEnded(c) => Concerned(c)

Spoiled(d) == HasEnded(d) \/ d \in overlapped
TaskIsSpoiled(c) == \E d \in Contracts : TaskOf[d] = TaskOf[c] /\ Spoiled(d)
ActiveHasRow == \A c \in Permitted :
  contract[c].status = "ACTIVE" => HasRow(c) \/ Concerned(c) \/ TaskIsSpoiled(c)

TimeInv == /\ Alone /\ KeepsStep /\ ActivatedIsStarted /\ RowsAreDated
           /\ RowsOfEndedAreDue /\ ActiveHasRow

\* Only an end starts from a contract that has started.
LEMMA HandlerStarts ==
  ASSUME NEW op \in Operation
  PROVE  Handler[op].to \notin EndedStatus => Handler[op].from \intersect Started = {}
  BY DEF Operation, Handler, acceptBidAndCreateContract, acceptContract, activateContract,
         completeContract, reportBreach, terminateContract, EndedStatus, Started

LEMMA ServiceStepTime ==
  ASSUME GatewayTypeOK, AccessInv, TimeInv, NEW r \in Requests, ServiceStep(r),
         NEW d, d = ContractOf(r), NEW h, h = HandlerOf(r)
  PROVE  TimeInv'
<1>1. TypeOK /\ Step(r) /\ begun' = begun /\ overlapped' = overlapped
  BY DEF GatewayTypeOK, ServiceStep
<1>2. /\ r \in InFlight /\ call' = call /\ ContractOf(r)' = d /\ call[r].op \in Operation /\ d \in Contracts
      /\ h = Handler[call[r].op] /\ HandlerOf(r)' = h /\ pc[r] \in DOMAIN h.next /\ pc'[r] = h.next[pc[r]]
      /\ \A q \in Requests \ {r} : pc'[q] = pc[q]
  BY <1>1, StepGoesOn
<1>3. /\ InFlight' \subseteq InFlight /\ \A q \in InFlight' \ {r} : pc'[q] = pc[q]
      /\ \A q \in InFlight : ContractOf(q)' = ContractOf(q) /\ HandlerOf(q)' = HandlerOf(q)
      /\ \A q \in InFlight : ContractOf(q) = d /\ d \in Apart => q = r
      /\ Apart' = Apart
  BY <1>1, <1>2 DEF InFlight, ContractOf, HandlerOf, TimeInv, Alone, Apart
<1>4. pc'[r] # "status"
  BY <1>2, HandlerTable
<1>5. pc[r] = "status" =>
        /\ contract'[d].status = h.to
        /\ contract'[d].activated => contract[d].activated \/ h.to = "ACTIVE"
        /\ \A c \in Contracts \ {d} : contract'[c] = contract[c]
  <2> SUFFICES ASSUME pc[r] = "status"
               PROVE  /\ contract'[d].status = h.to
                      /\ contract'[d].activated => contract[d].activated \/ h.to = "ACTIVE"
                      /\ \A c \in Contracts \ {d} : contract'[c] = contract[c]
    OBVIOUS
  <2>1. contract' = [contract EXCEPT ![d] =
          [status |-> h.to, activated |-> @.activated \/ h.to = "ACTIVE",
           completed |-> @.completed \/ h.to \in EndedStatus]]
    BY <1>1, StepWrites DEF WriteStatus
  <2>2. QED
    BY <1>1, <1>2, <2>1 DEF TypeOK
<1>6. pc[r] # "status" => contract' = contract
  BY <1>1, StepWrites
<1>7. d \in Apart =>
        /\ pc[r] = "status" => contract[d].status \in h.from
        /\ pc[r] # "status" => /\ contract[d].status = h.to
                               /\ call[r].op = "activate" => activatedAt[d] = begun[r]
  BY <1>2 DEF TimeInv, KeepsStep, InStep, At
<1>8. d \in Apart => contract'[d].status = h.to
  BY <1>5, <1>6, <1>7
<1>9. \A c \in Contracts \ {d} : contract'[c] = contract[c]
  BY <1>5, <1>6
<1>10. /\ activatedAt' = IF pc[r] = "status" /\ h.to = "ACTIVE" THEN [activatedAt EXCEPT ![d] = begun[r]]
                         ELSE activatedAt
       /\ grants' = IF pc[r] = "grant" /\ d \in Permitted THEN grants \union {GrantRow(r)}
                    ELSE IF pc[r] = "revoke" THEN Unrevoked(r) ELSE grants
  BY DEF ServiceStep, At
<1>11. \A c \in Contracts \ {d} : activatedAt'[c] = activatedAt[c]
  BY <1>10 DEF GatewayTypeOK
<1>12. \A c \in Contracts : Spoiled(c) => Spoiled(c)'
  <2>1. h.from \intersect EndedStatus = {}
    BY <1>2, HandlerSequence
  <2>2. d \in Apart /\ HasEnded(d) => HasEnded(d)'
    BY <1>6, <1>7, <2>1 DEF HasEnded
  <2>3. QED
    BY <1>1, <1>2, <1>9, <2>2 DEF Spoiled, HasEnded, Apart
<1>13. \A c \in Contracts \ {d} : Concerned(c) => Concerned(c)'
  <2> SUFFICES ASSUME NEW c \in Contracts \ {d}, NEW q \in Admitted, ContractOf(q) = c,
                      q \in InFlight \/ At(q, "failed")
               PROVE  Concerned(c)'
    BY DEF Concerned
  <2>1. q \in Requests \ {r}
    BY DEF Admitted
  <2>2. QED
    BY <1>2, <2>1 DEF Concerned, Admitted, InFlight, At, ContractOf
<1>14. pc'[r] # "done" => Concerned(d)'
  <2>1. pc'[r] # "done" => pc'[r] \in Statement
    BY <1>2, HandlerTable
  <2>2. QED
    BY <1>2, <2>1 DEF Concerned, Admitted, InFlight, Statement
<1>15. GrantRow(r).contract = d
  BY DEF GrantRow
<1>16. Alone'
  BY <1>3 DEF Alone, TimeInv
<1>17. KeepsStep'
  <2> SUFFICES ASSUME NEW q \in InFlight', ContractOf(q)' \in Apart' PROVE InStep(q)'
    BY DEF KeepsStep
  <2>1. q \in InFlight /\ ContractOf(q)' = ContractOf(q) /\ ContractOf(q) \in Apart
    BY <1>3
  <2>2. CASE q = r
    <3>1. d \in Apart
      BY <2>1, <2>2
    <3>2. call[r].op = "activate" => activatedAt'[d] = begun[r]
      <4>1. call[r].op = "activate" => h.to = "ACTIVE"
        BY <1>2, HandlerOrder
      <4>2. QED
        BY <1>2, <1>7, <1>10, <3>1, <4>1 DEF GatewayTypeOK
    <3>3. QED
      BY <1>1, <1>2, <1>4, <1>8, <2>2, <3>1, <3>2 DEF InStep, At
  <2>3. CASE q # r
    <3>1. ContractOf(q) \in Contracts \ {d}
      BY <1>3, <2>1, <2>3 DEF Apart
    <3>2. InStep(q)
      BY <2>1 DEF TimeInv, KeepsStep
    <3>3. pc'[q] = pc[q] /\ HandlerOf(q)' = HandlerOf(q)
      BY <1>3, <2>1, <2>3
    <3>4. QED
      BY <1>1, <1>2, <1>9, <1>11, <2>1, <3>1, <3>2, <3>3 DEF InStep, At
  <2>4. QED
    BY <2>2, <2>3
<1>18. ASSUME d \in Apart, pc[r] = "status", h.to \notin EndedStatus
       PROVE  ~contract[d].activated
  BY <1>2, <1>7, <1>18, HandlerStarts DEF TimeInv, ActivatedIsStarted
<1>19. ActivatedIsStarted'
  <2> SUFFICES ASSUME NEW c \in Apart, contract'[c].activated
               PROVE  contract'[c].status \in Started
    BY <1>3 DEF ActivatedIsStarted
  <2>1. CASE c = d /\ pc[r] = "status"
    <3>1. contract'[d].status = h.to /\ (contract[d].activated \/ h.to = "ACTIVE")
      BY <1>5, <2>1
    <3>2. h.to \in Started
      BY <1>18, <2>1, <3>1 DEF Started
    <3>3. QED
      BY <2>1, <3>1, <3>2
  <2>2. CASE c # d \/ pc[r] # "status"
    <3>1. contract'[c] = contract[c]
      BY <1>6, <1>9, <2>2 DEF Apart
    <3>2. QED
      BY <3>1 DEF TimeInv, ActivatedIsStarted
  <2>3. QED
    BY <2>1, <2>2
<1>20. RowsAreDated'
  <2> SUFFICES ASSUME NEW g \in grants', g.contract \in Apart
               PROVE  g.until = Until(activatedAt'[g.contract], g.contract)
    BY <1>3 DEF RowsAreDated
  <2>1. CASE g \notin grants
    <3>1. pc[r] = "grant" /\ g = GrantRow(r)
      BY <1>10, <2>1 DEF Unrevoked
    <3>2. call[r].op = "activate" /\ activatedAt' = activatedAt
      BY <1>2, <1>10, <3>1, HandlerOrder
    <3>3. g.contract = d /\ activatedAt[d] = begun[r]
      BY <1>7, <1>15, <3>1, <3>2
    <3>4. g.until = Until(begun[r], d)
      BY <3>1 DEF GrantRow
    <3>5. QED
      BY <3>2, <3>3, <3>4
  <2>2. CASE g \in grants
    <3>1. g.until = Until(activatedAt[g.contract], g.contract)
      BY <2>2 DEF TimeInv, RowsAreDated
    <3>2. activatedAt'[g.contract] = activatedAt[g.contract]
      <4>1. CASE pc[r] = "status" /\ h.to = "ACTIVE" /\ d \in Apart
        <5>1. ~contract[d].activated
          BY <1>18, <4>1 DEF EndedStatus
        <5>2. g.contract # d
          BY <2>2, <5>1 DEF AccessInv, GrantsAreLive, RecordsInv, GrantsFollowActivation
        <5>3. QED
          BY <1>11, <5>2 DEF Apart
      <4>2. CASE ~(pc[r] = "status" /\ h.to = "ACTIVE")
        BY <1>10, <4>2
      <4>3. CASE d \notin Apart
        BY <1>11, <4>3 DEF Apart
      <4>4. QED
        BY <4>1, <4>2, <4>3
    <3>3. QED
      BY <3>1, <3>2
  <2>3. QED
    BY <2>1, <2>2
<1>21. RowsOfEndedAreDue'
  <2> SUFFICES ASSUME NEW c \in Apart, NEW g \in grants', g.contract = c,
                      contract'[c].status \in EndedStatus
               PROVE  Concerned(c)'
    BY <1>3 DEF RowsOfEndedAreDue, HasRow, HasEnded
  <2>1. CASE c = d
    <3>1. contract'[d].status = h.to
      BY <1>8, <2>1
    <3>2. call[r].op \in Ending
      BY <1>2, <2>1, <3>1, HandlerSequence
    <3>3. ASSUME pc'[r] = "done" PROVE FALSE
      <4>1. pc[r] = "revoke"
        <5>1. \A op \in Operation : \A st \in DOMAIN Handler[op].next :
                op \in Ending /\ Handler[op].next[st] = "done" => st = "revoke"
          BY HandlerSequence
        <5>2. QED
          BY <1>2, <3>2, <3>3, <5>1
      <4>2. g \in Unrevoked(r)
        BY <1>10, <4>1
      <4>3. QED
        BY <2>1, <4>2 DEF Unrevoked
    <3>4. QED
      BY <1>14, <2>1, <3>3
  <2>2. CASE c # d
    <3>1. g \in grants
      BY <1>10, <1>15, <2>2 DEF Unrevoked
    <3>2. contract'[c] = contract[c]
      BY <1>9, <2>2 DEF Apart
    <3>3. Concerned(c)
      BY <3>1, <3>2 DEF TimeInv, RowsOfEndedAreDue, HasRow, HasEnded
    <3>4. QED
      BY <1>13, <2>2, <3>3 DEF Apart
  <2>3. QED
    BY <2>1, <2>2
<1>22. ActiveHasRow'
  <2> SUFFICES ASSUME NEW c \in Permitted, contract'[c].status = "ACTIVE", ~Concerned(c)',
                      ~TaskIsSpoiled(c)'
               PROVE  HasRow(c)'
    BY DEF ActiveHasRow
  <2>1. c \in Contracts
    BY ConstantsAssumption
  <2>2. \A e \in Contracts : TaskOf[e] = TaskOf[c] => ~Spoiled(e) /\ ~Spoiled(e)'
    BY <1>12 DEF TaskIsSpoiled
  <2>3. c \in Apart
    BY <2>1, <2>2 DEF Spoiled, Apart
  <2>4. CASE c = d
    <3>1. h.to = "ACTIVE"
      BY <1>8, <2>3, <2>4
    <3>2. call[r].op = "activate"
      BY <1>2, <3>1, HandlerOrder
    <3>3. pc'[r] = "done"
      BY <1>14, <2>4
    <3>4. pc[r] = "grant"
      BY <1>2, <3>2, <3>3, HandlerTasks
    <3>5. GrantRow(r) \in grants'
      BY <1>10, <2>4, <3>4
    <3>6. QED
      BY <1>15, <2>4, <3>5 DEF HasRow
  <2>5. CASE c # d
    <3>1. contract'[c] = contract[c]
      BY <1>9, <2>1, <2>5
    <3>2. ~Concerned(c)
      BY <1>13, <2>1, <2>5
    <3>3. ~TaskIsSpoiled(c)
      BY <2>2 DEF TaskIsSpoiled
    <3>4. PICK g \in grants : g.contract = c
      BY <3>1, <3>2, <3>3 DEF TimeInv, ActiveHasRow, HasRow
    <3>5. pc[r] = "revoke" => TaskOf[d] # TaskOf[c]
      <4> SUFFICES ASSUME pc[r] = "revoke", TaskOf[d] = TaskOf[c] PROVE FALSE
        OBVIOUS
      <4>1. d \in Apart /\ ~HasEnded(d)
        BY <1>2, <2>2 DEF Spoiled, Apart
      <4>2. call[r].op \in Ending
        BY <1>2, HandlerTasks
      <4>3. h.to \in EndedStatus
        BY <1>2, <4>2, HandlerOrder
      <4>4. contract[d].status = h.to
        BY <1>7, <4>1
      <4>5. QED
        BY <4>1, <4>3, <4>4 DEF HasEnded
    <3>6. g \in grants'
      BY <1>10, <3>4, <3>5 DEF Unrevoked
    <3>7. QED
      BY <3>4, <3>6 DEF HasRow
  <2>6. QED
    BY <2>4, <2>5
<1>23. QED
  BY <1>16, <1>17, <1>19, <1>20, <1>21, <1>22 DEF TimeInv

LEMMA ServiceBeginTime ==
  ASSUME GatewayTypeOK, TimeInv, NEW r \in Requests, NEW op \in Operation, NEW c \in Contracts,
         NEW severity \in Severable(op), ServiceBegin(r, op, c, severity)
  PROVE  TimeInv'
<1>1. /\ UNCHANGED <<contract, activatedAt, grants>> /\ pc[r] = "new" /\ TypeOK /\ RequestStep(r)
  BY DEF ServiceBegin, Begin, db, At, GatewayTypeOK, RequestStep
<1>2. /\ \A q \in Requests \ {r} : pc'[q] = pc[q] /\ call'[q] = call[q] /\ begun'[q] = begun[q]
      /\ r \notin InFlight /\ r \notin Admitted
  BY <1>1, Frame DEF InFlight, Admitted, Statement, ServiceBegin, GatewayTypeOK
<1>3. /\ Apart' \subseteq Apart /\ InFlight' \subseteq InFlight \union {r}
      /\ \A q \in InFlight : /\ q \in Requests \ {r} /\ ContractOf(q)' = ContractOf(q)
                             /\ HandlerOf(q)' = HandlerOf(q)
  BY <1>2 DEF ServiceBegin, Apart, InFlight, ContractOf, HandlerOf
<1>4. r \in InFlight' => /\ pc'[r] = "status" /\ call'[r].op = op /\ ContractOf(r)' = c
                         /\ contract[c].status \in Handler[op].from
  BY <1>1 DEF ServiceBegin, Begin, InFlight, Statement, ContractOf, TypeOK
<1>5. r \in InFlight' /\ c \in Apart' => \A q \in InFlight : ContractOf(q) # c
  BY <1>4 DEF ServiceBegin, Apart, At
<1>6. \A e \in Contracts : Concerned(e) => Concerned(e)'
  BY <1>2 DEF Concerned, Admitted, InFlight, At, ContractOf
<1>7. \A e \in Contracts : Spoiled(e) => Spoiled(e)'
  BY <1>1 DEF Spoiled, HasEnded, ServiceBegin
<1>8. Alone'
  BY <1>3, <1>4, <1>5 DEF Alone, TimeInv
<1>9. KeepsStep'
  <2> SUFFICES ASSUME NEW q \in InFlight', ContractOf(q)' \in Apart' PROVE InStep(q)'
    BY DEF KeepsStep
  <2>1. CASE q = r
    BY <1>1, <1>4, <2>1 DEF InStep, At, HandlerOf
  <2>2. CASE q # r
    <3>1. q \in InFlight /\ ContractOf(q) \in Apart
      BY <1>3, <2>2
    <3>2. InStep(q)
      BY <3>1 DEF TimeInv, KeepsStep
    <3>3. QED
      BY <1>1, <1>2, <1>3, <3>1, <3>2 DEF InStep, At
  <2>3. QED
    BY <2>1, <2>2
<1>10. ActivatedIsStarted' /\ RowsAreDated'
  BY <1>1, <1>3 DEF TimeInv, ActivatedIsStarted, RowsAreDated
<1>11. RowsOfEndedAreDue'
  BY <1>1, <1>3, <1>6 DEF TimeInv, RowsOfEndedAreDue, HasRow, HasEnded, Apart
<1>12. ActiveHasRow'
  BY <1>1, <1>6, <1>7, ConstantsAssumption DEF TimeInv, ActiveHasRow, HasRow, TaskIsSpoiled
<1>13. QED
  BY <1>8, <1>9, <1>10, <1>11, <1>12 DEF TimeInv

LEMMA ServiceFailTime ==
  ASSUME GatewayTypeOK, TimeInv, NEW r \in Requests, ServiceFail(r)
  PROVE  TimeInv'
<1>1. /\ UNCHANGED <<contract, activatedAt, grants, begun, call, overlapped>>
      /\ r \in Admitted /\ pc' = [pc EXCEPT ![r] = "failed"]
      /\ pc \in [Requests -> Statement \union {"new", "done", "refused", "failed"}]
  BY DEF ServiceFail, Fail, db, accessVars, Admitted, Statement, GatewayTypeOK, TypeOK
<1>2. InFlight' \subseteq InFlight /\ \A q \in InFlight' : pc'[q] = pc[q]
  BY <1>1 DEF InFlight, Statement
<1>3. \A e \in Contracts : Concerned(e) => Concerned(e)'
  BY <1>1 DEF Concerned, Admitted, InFlight, At, ContractOf
<1>4. Alone' /\ KeepsStep'
  BY <1>1, <1>2 DEF TimeInv, Alone, KeepsStep, InStep, At, ContractOf, HandlerOf, Apart
<1>5. ActivatedIsStarted' /\ RowsAreDated'
  BY <1>1 DEF TimeInv, ActivatedIsStarted, RowsAreDated, Apart
<1>6. RowsOfEndedAreDue'
  BY <1>1, <1>3 DEF TimeInv, RowsOfEndedAreDue, HasRow, HasEnded, Apart
<1>7. ActiveHasRow'
  BY <1>1, <1>3, ConstantsAssumption DEF TimeInv, ActiveHasRow, HasRow, TaskIsSpoiled, Spoiled, HasEnded
<1>8. QED
  BY <1>4, <1>5, <1>6, <1>7 DEF TimeInv

LEMMA NextTimeInv == GatewayTypeOK /\ AccessInv /\ TimeInv /\ [GatewayNext]_gatewayVars => TimeInv'
<1> SUFFICES ASSUME GatewayTypeOK, AccessInv, TimeInv, [GatewayNext]_gatewayVars PROVE TimeInv'
  OBVIOUS
<1>1. CASE CheckNext \/ Tick \/ UNCHANGED gatewayVars
  <2>1. UNCHANGED <<contract, pc, call, activatedAt, grants, begun, overlapped>>
    BY <1>1, CheckStep DEF Tick, gatewayVars, accessVars, vars
  <2>2. Alone' /\ KeepsStep' /\ ActivatedIsStarted' /\ RowsAreDated'
    BY <2>1 DEF TimeInv, Alone, KeepsStep, InStep, ActivatedIsStarted, RowsAreDated, Apart, InFlight,
       At, ContractOf, HandlerOf
  <2>3. RowsOfEndedAreDue' /\ ActiveHasRow'
    BY <2>1 DEF TimeInv, RowsOfEndedAreDue, ActiveHasRow, HasRow, HasEnded, TaskIsSpoiled, Spoiled,
       Concerned, Admitted, InFlight, At, ContractOf, Apart
  <2>4. QED
    BY <2>2, <2>3 DEF TimeInv
<1>2. QED
  BY <1>1, ServiceBeginTime, ServiceStepTime, ServiceFailTime DEF GatewayNext, ServiceNext

LEMMA InitTimeInv == GatewayInit => TimeInv
<1> SUFFICES ASSUME GatewayInit PROVE TimeInv
  OBVIOUS
<1>1. \A c \in Contracts : /\ contract[c].status = IF c \in Opened THEN "ACTIVE" ELSE "ABSENT"
                           /\ contract[c].activated <=> c \in Opened
  BY DEF GatewayInit, Init
<1>2. /\ live = Opened \intersect Permitted /\ InFlight = {} /\ Permitted \subseteq Contracts
      /\ activatedAt = [c \in Contracts |-> 0]
      /\ grants = {[contract |-> c, until |-> Until(0, c)] : c \in live}
  BY ConstantsAssumption DEF GatewayInit, Init, InFlight, Statement
<1>3. ActivatedIsStarted /\ Alone /\ KeepsStep
  BY <1>1, <1>2 DEF ActivatedIsStarted, Alone, KeepsStep, Started, Apart
<1>4. RowsAreDated
  BY <1>2 DEF RowsAreDated, Apart
<1>5. RowsOfEndedAreDue
  BY <1>1 DEF RowsOfEndedAreDue, HasEnded, EndedStatus, Apart
<1>6. ActiveHasRow
  <2> SUFFICES ASSUME NEW c \in Permitted, contract[c].status = "ACTIVE" PROVE HasRow(c)
    BY DEF ActiveHasRow
  <2>1. c \in live
    BY <1>1, <1>2
  <2>2. PICK g \in grants : g = [contract |-> c, until |-> Until(0, c)]
    BY <1>2, <2>1
  <2>3. g.contract = c
    BY <2>2
  <2>4. QED
    BY <2>3 DEF HasRow
<1>7. QED
  BY <1>3, <1>4, <1>5, <1>6 DEF TimeInv

THEOREM TimeInvariant == GatewaySpec => []TimeInv
<1>1. QED
  BY InitTimeInv, NextTimeInv, GatewayTypeCorrect, AccessInvariant, PTL DEF GatewaySpec

----------------------------------------------------------------------------
(* Refinement                                                              *)

\* The gateway's specification implements the contract service's: checks, the
\* clock and the rows of grants with their expiry leave the service as it
\* is, so that every theorem about the service holds behind the gateway.
THEOREM GatewayIsService == GatewaySpec => Spec
<1>1. GatewayInit => Init
  BY DEF GatewayInit
<1>2. GatewayTypeOK /\ [GatewayNext]_gatewayVars => [Next]_vars
  BY ServiceIsNext, CheckStep DEF GatewayNext, Tick, gatewayVars
<1>3. QED
  BY <1>1, <1>2, GatewayTypeCorrect, PTL DEF GatewaySpec, Spec

----------------------------------------------------------------------------
(* The verdict of a check                                                  *)

\* Only the second read of a check decides.
LEMMA VerdictByReadGrant ==
  ASSUME GatewayTypeOK, [GatewayNext]_gatewayVars, NEW k \in Checks,
         NEW verdict \in {"allowed", "denied"}, Turns(k, verdict)
  PROVE  ReadGrant(k)
<1>1. check[k].pc = "grant" /\ check'[k].pc = verdict /\ check' # check
  BY DEF Turns
<1>2. CheckNext
  BY <1>1, ServiceKeepsChecks DEF GatewayNext, Tick, gatewayVars, accessVars
<1>3. ASSUME NEW j \in Checks, NEW a \in Agents, NEW t \in Tasks, NEW scope \in Required,
             NEW token \in Tokens \union {NoToken},
             NEW via \in Entrance, ReadContract(j, via, a, t, scope, token)
      PROVE  FALSE
  BY <1>1, <1>3 DEF ReadContract, GatewayTypeOK
<1>4. ASSUME NEW j \in Checks, FailCheck(j)
      PROVE  FALSE
  BY <1>1, <1>4 DEF FailCheck, GatewayTypeOK, Access, NewCheck
<1>5. ASSUME NEW j \in Checks, ReadGrant(j)
      PROVE  j = k
  BY <1>1, <1>5 DEF ReadGrant, GatewayTypeOK
<1>6. QED
  BY <1>2, <1>3, <1>4, <1>5 DEF CheckNext

\* The rows of a contract that is apart serve exactly during its agreed
\* time.
LEMMA RowsServeInTime ==
  ASSUME GatewayTypeOK, RowsAreDated, NEW g \in grants, g.contract \in Apart
  PROVE  InTime(g.contract) <=> now < g.until
<1> DEFINE c == g.contract
<1>1. c \in Contracts /\ activatedAt[c] \in Nat /\ Duration[c] \in Nat /\ MaxTime \in Nat
      /\ now \in 0..MaxTime /\ g.until = Until(activatedAt[c], c)
  BY GatewayAssumption DEF GatewayTypeOK, RowsAreDated, Apart
<1>2. QED
  BY <1>1 DEF Until, Never, InTime

\* Any number of requests at a time, any durations: although a contract may
\* end, or another one of the agent take its place, between the two reads of
\* a check, access is allowed only by a contract that covers the scope and,
\* unless requests about it have overlapped, is within its time and active,
\* or being ended, or left by a request that failed.
THEOREM AccessStaysCurrent == GatewaySpec => AccessIsCurrent
<1> DEFINE Justified(k) == \E c \in Contracts :
             /\ For(c, k)
             /\ \E s \in ScopesOf[c] : scopeCovers(s, check[k].scope)
             /\ c \notin overlapped => InTime(c) /\ (contract[c].status = "ACTIVE" \/ Concerned(c))
<1>1. GatewayTypeOK /\ AccessInv /\ TimeInv /\ [GatewayNext]_gatewayVars =>
        [\A k \in Checks : Turns(k, "allowed") => Justified(k)]_check
  <2> SUFFICES ASSUME GatewayTypeOK, AccessInv, TimeInv, [GatewayNext]_gatewayVars,
                      NEW k \in Checks, Turns(k, "allowed")
               PROVE  Justified(k)
    OBVIOUS
  <2>1. ReadGrant(k) /\ check'[k].pc = "allowed"
    BY VerdictByReadGrant DEF Turns
  <2>2. PICK g \in Usable(k) : \E s \in ScopesOf[g.contract] : scopeCovers(s, check[k].scope)
    BY <2>1, AllowedByGrant
  <2>3. /\ g \in grants /\ now < g.until /\ For(g.contract, k)
        /\ g.contract \in live /\ g.contract \in Contracts
    BY <2>2, ConstantsAssumption DEF Usable, For, AccessInv, GrantsAreLive, GatewayTypeOK
  <2>4. ASSUME g.contract \notin overlapped
        PROVE  InTime(g.contract) /\ (contract[g.contract].status = "ACTIVE" \/ Concerned(g.contract))
    <3>1. g.contract \in Apart
      BY <2>3, <2>4 DEF Apart
    <3>2. InTime(g.contract)
      BY <2>3, <3>1, RowsServeInTime DEF TimeInv
    <3>3. contract[g.contract].activated /\ HasRow(g.contract)
      BY <2>3 DEF AccessInv, RecordsInv, GrantsFollowActivation, HasRow
    <3>4. contract[g.contract].status = "ACTIVE" \/ Concerned(g.contract)
      BY <3>1, <3>3 DEF TimeInv, ActivatedIsStarted, Started, RowsOfEndedAreDue, HasEnded
    <3>5. QED
      BY <3>2, <3>4
  <2>5. QED
    BY <2>2, <2>3, <2>4
<1>2. QED
  BY <1>1, GatewayTypeCorrect, AccessInvariant, TimeInvariant, PTL DEF GatewaySpec, AccessIsCurrent

\* Any number of requests at a time: an active contract gives its agent the
\* scopes it grants for the whole agreed time, unless a request about it is
\* on its way or failed, or a contract of the task has ended, or requests
\* about one overlapped.
THEOREM ActiveKeepsAccess == GatewaySpec => ActiveHasAccess
<1> DEFINE Refused(k) == Turns(k, "denied") /\ check[k].via = "gateway" /\ check[k].token = NoToken
           Excused(k) == \A c \in Contracts :
             For(c, k) /\ contract[c].status = "ACTIVE" /\ InTime(c) /\ check[k].scope \in ScopesOf[c]
               => \/ Concerned(c)
                  \/ \E d \in Contracts :
                       TaskOf[d] = TaskOf[c] /\ (HasEnded(d) \/ d \in overlapped)
<1>1. GatewayTypeOK /\ TimeInv /\ [GatewayNext]_gatewayVars =>
        [\A k \in Checks : Refused(k) => Excused(k)]_check
  <2> SUFFICES ASSUME GatewayTypeOK, TimeInv, [GatewayNext]_gatewayVars, NEW k \in Checks, Refused(k),
                      NEW c \in Contracts, For(c, k), contract[c].status = "ACTIVE", InTime(c),
                      check[k].scope \in ScopesOf[c]
               PROVE  Concerned(c) \/ TaskIsSpoiled(c)
    BY DEF TaskIsSpoiled, Spoiled
  <2>1. ~\E g \in Usable(k) : check[k].scope \in ScopesOf[g.contract]
    <3>1. ReadGrant(k) /\ check[k] \in Access /\ check'[k].pc = "denied"
      BY VerdictByReadGrant DEF Turns, GatewayTypeOK, NewCheck
    <3>2. PICK allowed \in {GatewayAllows(k)} :
            check' = [check EXCEPT ![k].pc = IF allowed THEN "allowed" ELSE "denied"]
      BY <3>1 DEF ReadGrant
    <3>3. ~allowed
      BY <3>1, <3>2 DEF GatewayTypeOK, Access
    <3>4. QED
      BY <3>2, <3>3 DEF GatewayAllows
  <2>2. c \in Permitted
    BY GatewayAssumption
  <2>3. CASE HasRow(c)
    <3>1. PICK g \in grants : g.contract = c
      BY <2>3 DEF HasRow
    <3>2. ~(now < g.until)
      BY <2>1, <3>1 DEF Usable, For
    <3>3. c \notin Apart
      BY <3>1, <3>2, RowsServeInTime DEF TimeInv
    <3>4. QED
      BY <3>3 DEF Apart, TaskIsSpoiled, Spoiled
  <2>4. CASE ~HasRow(c)
    BY <2>2, <2>4 DEF TimeInv, ActiveHasRow
  <2>5. QED
    BY <2>3, <2>4
<1>2. QED
  BY <1>1, GatewayTypeCorrect, TimeInvariant, PTL DEF GatewaySpec, ActiveHasAccess

============================================================================
