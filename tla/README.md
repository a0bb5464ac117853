# Verification of IntelAIDelegation

TLA+ models of the task-delegation framework in this repository, the TLC runs
that check them on small instances, and TLAPS proofs of the main safety
properties for every instance.

## 1. The system

The repository holds two programs that share a vocabulary and no code.

* `backend/` is a Node/Express server over PostgreSQL (Prisma). Agents bid for
  tasks, a bid is selected and becomes a contract, the contract is accepted,
  activated, and completed, breached or terminated; while it is active its
  delegatee holds just-in-time permission grants; every end is recorded on a
  ledger and a breach costs the delegatee reputation. All of its state is in the
  database, except the decomposition jobs, which are in a `Map` of the process.
* `src/intel_ai_delegation/` is a Python package: dataclasses for the same
  concepts, abstract "protocols" (market, trust, verification, ...) and a
  `Delegator` that awaits them one after another.

### Concurrency and failure in the backend

Every handler is an `async` function that awaits one Prisma statement after
another. There is no `$transaction` anywhere and, with one exception
(`submitBidForAgent`), no conditional update: a handler reads a row, checks it
in JavaScript and writes by id. Each statement commits on its own. Hence, for
every handler,

* any statement of any other request may run between two of its statements, and
  what it read may be stale when it writes;
* a statement that throws (or the process dying) leaves the statements before it
  committed and the ones after it undone, and the client sees a 500 or nothing.

This is what the models are about: a step is one statement of one request.

### Components

| Component | State | Operations | Hard behaviour | Correct when |
|---|---|---|---|---|
| Contract service (`services/contract.service.ts`) | contract, task, agent, ledger, penalty and grant rows | accept, activate, complete, breach, terminate; apply reputation penalty; revoke grants | check-then-act on the status, read-modify-write of the score, partial effects | the status follows the documented lifecycle, one ledger row per ended contract that agrees with its end, scores equal penalties, the breaker comes off only with a penalty undone, an ended contract holds no grants |
| Market hub (`services/market-hub.service.ts`, `routes/market.routes.ts`) | bid rows, task status and assignee | submit, list, evaluate, select | status read before an await and written after it; selection checks nothing but the task id; ranking arithmetic | a task is open for bids until it is assigned; every contract stands on a bid; the winner is eligible and Pareto-optimal |
| Terms integrity (`verifyContractIntegrity`) | `contractTermsHash` | sign at selection, verify on request | two places that must hash the same record | an untouched contract verifies, a changed one does not |
| Permission gateway (`middleware/permission-gateway.ts`) | none of its own; reads contracts and grants | `requirePermission`, DCT validation and generation | two reads with an await in between, expiry, wildcard scopes | access only under an active contract with a live grant of the scope |
| Decomposition (`services/decomposition.service.ts`) | `jobStore` (memory), task rows | analyze, verify outcomes, finalize | bounded refinement loop, double and partial finalization, jobs lost on restart | only verifiable leaves become tasks, once |
| OpenClaw adapter (`adapters/openclaw-gateway.ts`) | agent, credential, bid, event rows | register workspaces, discover, bid, check a tool, ingest transcripts | re-registration over a tripped breaker, find-then-create, arbitrary grant, uploads that interleave | one self-issued credential per skill unless registrations overlap, only a registration revives a tripped agent, an explained tool call costs no transparency |
| Delegator (`delegator.py`) | task registry, active contracts | delegate, execute leaf, coordination loop | re-delegation, pause, exceptions between grant and revoke | permissions end with the execution, every leaf is executed or failed |
| Python models and enterprise dataclasses | per-object fields | capacity, validity, quota, RBAC, audit seal | boundary comparisons | not modelled (section 5) |
| Enterprise routes, protocols (ABCs), Zod schemas, SQL/Prisma schema | - | stateless stubs, interfaces, types | - | - |

How they interact: the market hub creates the contract rows that the contract
service moves; both write `task.status`. The contract service writes the grants
that the gateway and the adapter read. The adapter bids into the market hub's
tables and overwrites the `activeStatus` the contract service's circuit breaker
uses. Decomposition creates the tasks the market hub sells. All of these
interactions go through rows of the shared database; no component calls a
callback of another.

### What is hard here

`PROJECT.json` lists every hazard at its line. In short: guards that are read
before an await and acted on after it (contract status, task status, job flag,
agent activity); one score that several requests read, change and write back;
chains of statements that can stop anywhere and whose guard then refuses the
retry; grants, which are created, revoked, expired and looked up by different
code with different keys; and arithmetic at zero and at thresholds.

## 2. Modules

| Module | Models | State | Proofs |
|---|---|---|---|
| `ContractLifecycle` | abstract: the lifecycle the header of `contract.service.ts` documents | status per contract | - |
| `ContractService` | selection of a bid and `contract.service.ts`, one statement per step | rows of contract, task, agent, ledger, penalty, grant; per request `pc`, `call` (arguments), `seen` (the agent row it read); `charged` is history | `ContractServiceProofs` |
| `MarketHub` | `market.routes.ts` submit and select, `submitBidForAgent`; extends `ContractService` | bid rows, and per bid where its submission is and the task status it read | `MarketHubProofs` |
| `BidRanking` | `filterBids`, `computeParetoFrontier`, scoring and sorting | one evaluation: the bids, the rejected, the frontier, the ranking | `BidRankingProofs` |
| `SubTaskMarket` | the specification and the row `finalizeDecomposition` makes of a sub-task, before the filters; extends `BidRanking` | the role in the specification of the task at hand | `BidRankingProofs` |
| `PermissionGateway` | `requirePermission`, `checkToolPermission`, `validateDCT`, `scopeCovers`; extends `ContractService` | clock, grant rows with their expiry, access checks; `overlapped` is history | `PermissionGatewayProofs` |
| `Decomposition` | `decomposition.service.ts` | `jobStore`, task rows, finalize requests | `DecompositionProofs` |
| `AgentRegistry` | `registerWorkspaceAsAgent`, `registerAllWorkspaces`; extends `ContractService` | credential rows; per registration its workspace, skill, step and what its lookup saw; `entry` and `earlier` are history | `AgentRegistryProofs` |
| `Transcripts` | `ingestTranscript`, the classifiers, `computeTransparencyScore` | event rows; how often each upload was received and, as history, stored | `TranscriptsProofs` |
| `ContractTerms` | the record hashed at selection and the one `verifyContractIntegrity` rebuilds | clock, contract rows with their hash, verifications | - |
| `Delegator` | `delegator.py`: `delegate`, `_execute_leaf`, `_coordination_loop` | task objects and registry, what the protocols hold (contracts, grants, monitors, ledger), and the await each call is suspended at; `writer` is history | `DelegatorProofs` |

Each but `ContractLifecycle` and `BidRanking`, which are checked as part of `ContractService`
and `SubTaskMarket`, has an `MC_` module with the instances, and the `.cfg` files choose one.

**ContractService.** A handler is a record: the guard on the status (`from`),
the status it writes (`to`), the task status, the ledger outcome, and `next`,
which leads from every statement to the one awaited after it. `Begin` is the read
and the guard, `WriteStatus` ... `Revoke` are the statements, `Fail` is a
statement that throws or a process that dies. So
`reportBreach` is `status -> task -> penalty -> ledger -> readAgent ->
writeAgent -> revoke`, as in the code. Every write is by id and unconditional,
because the code's are. Scores are in hundredths; the code's are doubles, so at
exactly 0.15 `ShouldDeactivate` allows either answer. The grants of a contract
are one element of `live`; `PermissionGateway` has the rows.

**MarketHub.** `Path` says which endpoint a bid comes in by. The market's reads the
task, then the agent, creates the bid and finally writes BIDDING if the task *was*
PENDING; the adapter's reads the agent, creates the bid and updates the task
where it *is* PENDING. A selection is the contract service's `select`, with the
condition that its bid is on record.

**BidRanking.** An evaluation is one step: it reads the bids with their agents in one
query. When a task asks for credentials, `filterBids` queries those of each bidder
separately (`market-hub.service.ts` 106); the model takes them from the same instant.
Credentials are only ever added, so a later query can admit a bidder that would have been
rejected, and otherwise changes nothing but the instant the answer is about. The three terms of the composite score are brought to a common
denominator, so that the comparison of scores is exact. Sorting is any
order that agrees with the scores: ties are free. Rankings are as the code
computes them in exact arithmetic; rounding of doubles is not modelled.

**SubTaskMarket.** A draft becomes a specification, of which the role of the delegatee
matters here (`Delegatee`), and a row, of which the filters read the criticality, the budget, the
credential domains and the deadline (`Persisted`). Of these the insert sets the criticality
only. The module puts such rows, next to those of other tasks, before the filters.

**PermissionGateway.** A check is two reads: the active contract, then the grant.
Contract statements, expiry (`Tick`) and revocation happen in between. Scopes are
sequences of levels and `"*"` is a wildcard level. `overlapped` remembers the contracts that two
requests have been about at once: what holds of the others holds however many requests interleave.

**Decomposition.** `analyzeObjective` and `verifyOutcomes` have no await and are
one step. `finalizeDecomposition` is its guard (`Begin`), the root's insert, and
one step per sub-task in any order, each of which can fail on its own; `Restart`
empties the store, and inserts already sent may still arrive. Objectives are
abstracted to whether they have a word that makes them verifiable.

**AgentRegistry.** A registration walks the workspaces it was given and the skills
of each. The agent's upsert is one statement, hence one step: it creates the agent with the
default score or overwrites `activeStatus` and nothing else. A skill is a lookup and,
if nothing was found, an insert, with an await in between. What the code compares is
the *normalised* domain, so skills are mapped to domains and two of them may share
one. The contract requests of the service run beside the registrations, because both
write `activeStatus`.

**Transcripts.** An upload is one `createMany`, so an action stores all of its rows or none.
Nothing recognises an upload that was sent again, so the server may receive each several times, in
any order. Reading the score is a fold over the rows of a task by timestamp. The query
leaves the order of rows with one timestamp open, and so does the model: `Sums` is the set of
results the loop can end with.

**ContractTerms.** A hash is the record that was hashed. Selection hashes one that has
the current time and the delegator of the task, or the bidder if there is none;
verification rebuilds one from the row.

**Delegator.** The protocols are abstract classes without an implementation in the
repository, so their calls are modelled by the effect the orchestrator relies on, and
each of them may raise. A step is the effect of the awaited call and the Python code up
to the next await. Leaves are taken in any order, since the registry's order says
nothing. Calls of `delegate()` on one object share the registry and may interleave; `writer` remembers
which of them wrote the status of a leaf last.
`_contract_registry` is written and never read, and is left out.

## 3. Properties and runs

A run in which requests interleave statement by statement checks what the code guarantees
even so. A *serial* run (`MaxInFlight = 1`) lets one request run at a time, failing
anywhere, and checks what the code guarantees then. A *violation* run shows how the code
falls short of what the repository says of it; these are the `findings` of
`PROJECT.json`.

| Run | Shows | Bounds |
|---|---|---|
| `contract_interleaved` | ledger rows only about contracts that ended, verdicts only about activated ones, failures only with penalties, grants only after activation; breaker and score consistent, an agent comes back only together with a penalty that is undone, every applied penalty recorded, never more lost than charged; a contract that is being ended is settled | 3 requests at once, 2 contracts of one task: two that meet at every pair of statements, and a third |
| `lifecycle_race` | violation: COMPLETED -> BREACHED | 2 requests, 1 active contract |
| `market` | the status column refines `ContractLifecycle`; at most one ledger row per contract, agreeing with its end; task and grants agree with the contract; scores equal recorded penalties; ended contracts hold no grants; no task leaves PENDING without a bid, none with a bid stays there by itself, and its status moves forward, unless a second contract for the task takes it back; no deactivated agent gets a bid in, and the market takes none for a task that was assigned | 4 bids on 2 tasks, on both paths; 3 contracts: one active, whose breach can trip the breaker of a bidder, a second one for its task, and one for the other task; 4 requests: the whole life of one, or an end, its failure and its retry on the active one beside a second selection for the same task; one request runs at a time |
| `evaluation` | no better bid is rejected than one that passes, dominance is respected, the winner is on the frontier; for a sub-task, whoever fills the role of its specification is ranked, and on a MEDIUM or HIGH one nobody is who lacks its reputation | every set of up to 3 bids with costs 0 and 3 (around a budget of 1), durations 1 and 2 (around the time left of 1), reputations 0.49, 0.50 and 0.80; before, at and after the deadline; a sub-task of each criticality |
| `access` | nobody is allowed without a contract of his own that covers the scope; coverage composes; access is allowed only by a contract that itself covers the scope, within its agreed time and while it is active or being ended, and a contract gives what it grants for all of that time | one task, 2 active contracts of one agent, one for an instant and one with a duration of 0, and one that another agent can bring to activation; 3 requests, one at a time, each able to fail, so that contracts end before, between and after the two reads of a check by either entrance, or by the end of another; 2 instants; a token, which runs out, or none |
| `finalize_interleaved` | no unverifiable sub-task in the database; a finalized job has its tree | 3 finalize requests, two at once, failures, restarts |
| `double_finalize` | violation: two trees of one job | 2 requests at once |
| `registry` | a skill that was passed has a credential; a duplicate comes only of two registrations that overlap; registration never touches a score; only a registration reactivates a tripped agent | 3 registrations of 2 agents with 3 skills in 2 domains and a contract request, two at a time |
| `terms_mismatch` | violation: an untouched contract fails verification | 2 selections, 3 instants |
| `transcripts` | whatever has arrived, in any order, the score is what the transcript in its own order counts up to; reasoning never lowers it; an upload, also one stored again, moves it by no more than its own events can; a tool call that its upload explains costs nothing, and 0.05 when it is stored a fifth time or events of another upload get in between | 2 tasks and 5 uploads of up to 3 lines at 6 instants: one task with errors, unexplained calls, two lines of one instant and uploads that interleave, one whose agent explains its calls, with an upload that is received up to five times and another one inside it; the others of the first task received twice |
| `delegation` | grants and monitors outlive an execution only by an exception; what was verified is on the ledger; a leaf is COMPLETED only if verified; an execution leaves its contract active only when it was paused or another call has written the status of that leaf since; every call ends or waits for the coordinator | 2 interleaved calls that share a registry: a task that cannot be split, one that may be, and a contract for every execution of the first and one for the second |
| `unexecuted_success` | violation: a task is COMPLETED while its sub-tasks were never executed | the same, one call at a time |

What the serial runs check does not all survive interleaving. `LifecycleSpec` and
`OneCompleteTree` have runs that show it. With `MaxInFlight` raised to 2, `market`
violates `EndedHoldsNoGrant` (a slow activation grants after a termination has revoked,
`contract.service.ts` 102, where `SKILL.md` 36 says that grants are revoked with the contract) and
`TaskMovesForward` (a submission that read PENDING writes BIDDING over the assignment,
`market.routes.ts` 74). `ScoreMatchesPenalties`, `LedgerIsConsistent` and
`TaskAgrees` fail in the same way (a stale read written back, a guard passed twice),
`BidsAreAdmitted` because the agent or the task changes after it
was read. A stale read written back may also revive an agent whose breaker was tripped
(`contract.service.ts` 363); what is left of the breaker then is `RevivalUndoesAPenalty`: the same write takes
back a penalty, so that the score is above the threshold again. What holds of the market and the gateway with any number of requests
interleaving is proved in section 4.

Reading the code for the models also showed, without a run of its own: a contract duration of
0 gives grants that never expire (`contract.service.ts` 74); a deadline of exactly now is taken
for none (`market-hub.service.ts` 77; a bid whose duration "exceeds the task's deadline window" is to be rejected, 59); the gateway finds only a grant of the very scope
(`permission-gateway.ts` 84) and the adapter compares whichever grant comes first
(`openclaw-gateway.ts` 369); selection applies none of the filters (`market-hub.service.ts` 309);
a sub-task that cannot be inserted leaves its siblings (`decomposition.service.ts` 226); registering an agent again, which the
comment calls idempotent, undoes a tripped breaker (`openclaw-gateway.ts` 123, 143).
The definitions model all of these (`Until`, `HasLimit`, `GatewayAllows`, `OpenClawAnswers`,
`BidOnRecord`, `FailChild`, `Upsert`). A LOW sub-task is sold from a reputation of 0.2 where the
role in its specification says 0.5, and no sub-task's row keeps the role or its credential
domains, although `decomposition.service.ts` 186-187 calls it "the specification that the Market Hub
will use to solicit bids" (`Persisted`, `RankingFollowsTheRole`). The transparency score charges every error,
where its comment says "each error without recovery" (453; a comment at 483 announces the check), and
takes an invocation for unexplained, "no prior reasoning" (454), unless the event directly
before it is a reasoning step, so that a second call after one explanation, or an event of another session in
between, costs 0.15 (`Points`, `Assess`): an explanation and three calls leave 0.35. `CountedScore`, which
`ScoreFollowsTheTranscript` compares with, is what the code counts and not what that comment says. The header of the adapter maps system messages to INFO (408), but
an entry with an error is an ERROR whatever its role (`classifySeverity`). In the orchestrator, a later call of `delegate()`
executes the completed leaves of earlier calls again, PAUSE ends the coordination loop so that
RESUME is never reached, and RE_DELEGATE withdraws the task and delegates it to nobody
(`Decompose`, `LoopHead`, `Withdraw`). Two facts concern code without a model: discovery
of tasks does not use the agent's domains (`openclaw-gateway.ts` 222-254), and the hash that seals an
audit entry (`enterprise/audit.py`, `compute_hash`) leaves out its level, organisation and
client.

The type invariants of the components and `OnlyThePenalisedLose` are in no run, since section 4
proves them for every instance.

`EndIsSettled` starts where a contract has ended, some request about it is on its way to
settle that (`BeingEnded`), and none is left that was let in before the end and may yet write
another status or grant anything (`Reviving`); then the ledger row comes and the grants
go for good. Without the first condition there may be nobody to do it, as the request that ended it
may have failed; without the second a slow activation can give grants after the end, for which
`EndedHoldsNoGrant` stands in a serial run.

Every bound is a CONSTANT with `bound:` beside its declaration (requests, bids, checks,
jobs, registrations, delegations, `MaxInFlight`, `MaxRunning`, `MaxTime`, `MaxReceived`, `Horizon`). They are chosen so that two actors meet at every
pair of statements and one more acts after them. Symmetry is used over requests
and interchangeable rows, and never in a liveness run. `CHECK_DEADLOCK FALSE`: when all the
requests of a bounded instance have been made, the server is idle, which is not a
deadlock.

**Fairness.** `FairSpec` asks weak fairness of `Step(r) \/ Fail(r)` for every
request in flight: the event loop runs every continuation, and the database
answers or the client throws. Nobody is obliged to make a request, and
a failure may happen anywhere, so the liveness properties say "unless a
request about it fails". `Delegator`'s `FairSpec` is the same for awaited calls, which return or
raise, except for the coordination loop: it polls for events as long as the
coordinator decides nothing, and nothing in the code obliges it to decide. Hence `DelegationEnds`
counts a call that waits in the loop as one that may rest.

**Mutants.** Every property of a passing run has a mutant: a plausible bug of one
definition (beside that definition, named `Mutant...`) under which TLC finds the property
violated in that very run.

## 4. Proofs

TLAPS proves the following for every value of the constants that satisfies the named
assumptions (`ConstantsAssumption`, `MarketAssumption`, `RankingAssumption`,
`GatewayAssumption`, `DecompositionAssumption`, `RegistryAssumption`,
`DelegatorAssumption`, `SubTaskAssumption`, `TranscriptAssumption`), hence for any number of requests, contracts,
bids, checks, jobs, registrations, delegations and uploads.

* **Contract service.** `TypeCorrect`. The records (`LedgerIsTruthful`,
  `FailuresArePenalised`, `GrantsAreJustInTime`) follow from `RecordsInv`, whose core is
  `Progress`: what a request that stands before a statement has already
  written. The properties alone are not inductive, since nothing in them says that
  the request about to write a ledger row has ended the contract. The score
  (`BreakerIsConsistent`, `ScoresStayWithinCharges`, `OnlyPenalisedAgentsLose`)
  follows from `ReputationInv`, which also bounds the rows that requests in
  flight have *read*: a stale row is harmless exactly because charges only grow.
  `RevivalsUndoPenalties` rests on `OutdatedLacksAPenalty`: a row that was read and is no longer the agent's
  lacks a penalty that has been charged since, so that whoever writes it back takes that penalty away.
  `SerialImplementsLifecycle` is the refinement to `ContractLifecycle` when
  `MaxInFlight = 1`: the guard a request passed still holds when it writes.
  On top of it stand, for serial requests, `SerialLedgerIsConsistent` and `SerialEndRevokes` from
  `SettledInv` (the status has been written by every request past its first
  statement, and no ledger row is there yet about a contract that a request is
  still ending), and `SerialTaskAgrees` from `TaskInv`: a task stands where one of its contracts has
  taken it, however many were made for it (`Agreement`); the invariant follows an operation statement by
  statement (`Underway`) and excuses a task with an operation that failed.
  `ChargesStandOnPenalties` compares a score with a sum over the recorded penalties. Its invariant
  `PenaltyInv` says that a penalty row belongs to one breach report that stands past it, so that the
  rows split into those of requests that have yet to write the score and the others (`Applied`), and
  one write of a score moves exactly one row from the former to the latter. `SerialScoresMatch`
  adds that a lone request reads the score it replaces (`ReadIsCurrent`), and that taking two impacts one after
  the other from a score that stops at 0 is taking their sum (`NewScoreTwice`).
* **Market hub.** `MarketTypeCorrect`, reusing the contract service's type lemma;
  `TasksAreBidFor` and `BidsOpen` from `MarketInv`: contracts, requests in flight
  and submissions about to open a task all stand on bids. With requests one at a time,
  `SerialTaskMovesForward` holds because a task has come no further than some contract made for it can have
  taken it (`TasksAreBacked`): whatever takes it back is a step of a contract beside that one. It also needs
  what a submission has read (`AdmissionInv`).
  What is proved of the contract service is then proved of the two together, as the `market` run checks it:
  a step of the market is a step of the service or leaves all it works on but the tasks
  alone (`MarketStepOfService`). `MarketKeepsTheRecords` needs no more, for any interleaving; the theorems
  `SerialMarket...` (lifecycle, ledger, grants, scores) hold when submissions
  are among the requests that come one at a time, and `SerialMarketTaskAgrees` also needs that a submission which
  is about to open a task has read it PENDING and finds it so.
* **Ranking.** `RankingRespectsDominance`, `WinnersAreParetoOptimal`,
  `FiltersAreMonotone`: a bid that dominates another has a strictly
  higher score, from monotonicity of the products on a common denominator. `SubTasksAreRanked`
  carries these over to sub-tasks, and `RankingsFollowTheRole` follows because the
  role and the row on record come from one draft (`RoleOnRecord`).
* **Permission gateway.** `GatewayTypeCorrect`; `AccessIsGranted` from `AccessInv`,
  which adds to the contract service's `RecordsInv` that every grant row
  belongs to a contract with live grants; `CoverageIsTransitive`, for scopes of any depth.
  `AccessStaysCurrent` and `ActiveKeepsAccess` hold for any number of requests at a time and any durations,
  0 included. They rest on `TimeInv`, which speaks of the contracts that no two requests have been about at once
  (`Apart`): their rows expire as their activation says, an activation has dated its contract before it
  makes the rows, an ended one has rows only while the request that ends it is on
  its way or after it failed, and an active one that nobody is about has its rows unless the end of another
  contract, or one about which requests overlapped, took the rows of the task away. `GatewayIsService` is the refinement by which all
  that is proved of the contract service holds behind the gateway.
* **Decomposition.** `DecompositionTypeCorrect`, `TasksAreSpecified` and
  `FinalizedJobsAreComplete` from `DecompositionInv`: what the guard of finalize saw is
  kept until the drafts are read again, and a request's parts in the database
  and under way are together its tree.
* **Agent registry.** `RegistryTypeCorrect`; `RegistrationsLeaveNoSkillOut`,
  `RepeatedRegistrationsAddNothing` and `OnlyRegistrationsRevive`. The second needs that when a
  registration is about to insert, a credential that is there already was issued by
  another one that was not over when it began (`InsertsKnowingly`), and that what is in
  `earlier` is over for good (`EarlierIsOver`). `RegistrationsLaunderNothing` needs that the rows which
  penalties in flight have read lie between the score an agent came in with and what
  charges leave of it (`EntryInv`), also when a registration falls in between.
  `RegistryKeepsTheRecords`: what registrations put at stake are scores and the breaker, never the
  ledger, the penalties or the grants.
* **Transcripts.** `TranscriptTypeCorrect`, and the four properties of the run for transcripts of any
  length. The score is a fold over the rows in an order that the database chooses among rows of one
  instant; `SumsOneMore` says which sums a transcript has in terms of those it has without one of its
  last rows. `ReasoningIsNeverCounted` and `UploadsHaveTheirLeverage` compare two transcripts, one
  with rows that the other lacks, by a relation between their sums (`NotBelow`, `Near`) that
  each further row keeps (`SumsMatch`); it leaves room for the points that the next invocation may still earn
  or lose, which is what the score alone, not being inductive, cannot say. `ScoresFollowTranscripts` holds
  because rows with distinct times have one last row. `ExplanationsAreCredited` follows the
  score from below (`Floor`): every reasoning step raises it, every invocation costs the most it may, except
  once for each line that nothing disturbs. Each invocation that its upload explains has a reasoning step of
  its own, so that four copies of it cost what that step earns; copies and sessions are not limited.
* **Delegator.** `DelegatorTypeCorrect`; `ExecutionsCleanUp`, `VerificationsAreRecorded` and
  `CompletionsAreVerified` from `DelegatorInv`: a contract has one owner (`Owners`), the
  contract and the verdict of a call agree with the await it stands at (`InStep`), and
  a task that was never registered is PENDING (`UnregisteredIsPending`). `OnlyPausesAbandon` from
  `LoopInv`, for any interleaving: an execution past its loop has ended its contract, or its leaf is PAUSED,
  or another call has written the status of that leaf since.

Theorems whose names begin with `Serial` assume `MaxInFlight = 1`, as an assumption of the
theorem: any number of requests, one after the other, each of which may fail at any
statement. The others assume nothing about how requests interleave.

**Data.** Sums and folds are proved by induction all the same. The library's induction theorems take an
operator, which no installed prover can instantiate, but its `WFMin` speaks of sets: the numbers, or parts
of a finite set, of which a statement fails have a least one (`InductionOnNat`,
`InductionOnRows`). A function defined by recursion is a CHOOSE, so that it satisfies its equation is
proved first, by showing that some function does (`SumsExist`).

Model-checked only: liveness (`EndIsSettled`, `DelegationEnds`), which is out of the prover's
reach, as ENABLED has no rules there, and `BidsAreAdmitted`, which serial requests leave nothing to prove
about but that what was read is still there.

## 5. Not modelled

* Stubs and declarations have no state: the enterprise routes answer with constants or with what they
  were sent, the Zod and SQL schemas and the server start declare and wire.
* The Python protocols, and in `enterprise/` the enforcer, the audit trail, the usage meter and the
  organisation manager, are abstract classes that nothing in the repository implements. Their docstrings say
  what an implementation is to do, but a model of that would be one of words. The Delegator's use of the
  protocols is modelled. Next to them are dataclasses with single predicates and averages.
* The hash and signature functions are taken to be what they are named for: two values have
  the same hash only if they are equal.
* Reads that change nothing (listing endpoints, discovery of tasks) are left out, and so are
  rounding of doubles beyond the breaker's boundary and the validation of request bodies, whose ranges are
  those of the inputs.

## 6. Plan

Done, in this order: the contract service, because all else stands on it; the market that feeds
it; the gateway that reads it; the decomposition that feeds the market; the registry that
writes the breaker; the terms of a contract; the orchestrator; the transcripts; the market for
sub-tasks; proofs of the serial service and market, of the time of grants and of the registry's scores;
proofs about sums of penalties and about transcripts, and of the service's properties in the market.

Every safety and action property that a passing run checks, but for `BidsAreAdmitted`, is now a theorem. What remains to prove is how
far scores can be told from the recorded penalties when registrations come in between, with the score an agent
was created with in the place of the initial one. A model of the enterprise package belongs here when one of its
abstract classes is implemented.

The project keeps one run for each distinct question; a new module's run that asks a question
of its own is preferred to another instance of one that is there.
