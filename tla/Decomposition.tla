--------------------------- MODULE Decomposition ---------------------------
(***************************************************************************)
(* services/decomposition.service.ts: an objective is analysed into draft  *)
(* sub-tasks, the drafts are refined until every one is verifiable, and    *)
(* the job is finalized: a root task and one task per draft are inserted.  *)
(*                                                                         *)
(* analyze and verify run without an await, on a Map in the memory of the  *)
(* server.  finalize awaits the root's insert, then issues all the others  *)
(* at once (Promise.all), and marks the job finalized when all are done.   *)
(* Promise.all gives up on the first insert that fails; the others go on.  *)
(***************************************************************************)
EXTENDS Integers, FiniteSets

CONSTANTS
  Jobs,           \* bound: the jobs that are ever analysed, with fresh uuids
  Requests,       \* bound: the finalize requests that are ever made
  NoJob,          \* the job of a request that has not been made
  MaxInFlight     \* bound: how many of them run at the same time

ASSUME DecompositionAssumption ==
  /\ IsFiniteSet(Requests)
  /\ NoJob \notin Jobs
  /\ MaxInFlight \in Nat

VARIABLES
  jobStore,       \* the jobs in memory
  tasks,          \* Task rows, with the request that inserted them
  pc,             \* where every finalize request is
  job,            \* the job it finalizes
  inserting       \* the sub-tasks whose insert has been issued

vars == <<jobStore, tasks, pc, job, inserting>>

Criticality == {"LOW", "MEDIUM", "HIGH"}
Part == {"Research", "Execute", "Validate", "Safety Review"}
Draft == [part: Part, verifiable: BOOLEAN]
Job == [status: {"fresh", "stored", "lost"}, criticality: Criticality,
        subTasks: SUBSET Draft, finalized: BOOLEAN]
NewJob == [status |-> "fresh", criticality |-> "LOW", subTasks |-> {}, finalized |-> FALSE]
Row == [job: Jobs, request: Requests, part: Part \union {"Root"}, specified: BOOLEAN]

----------------------------------------------------------------------------
(* Drafts                                                                  *)

\* decomposeByStructure: the parts an objective is broken into.
Parts(criticality) == {"Research", "Execute"}
  \union (IF criticality # "LOW" THEN {"Validate"} ELSE {})
  \union (IF criticality = "HIGH" THEN {"Safety Review"} ELSE {})

\* hasVerifiableOutcome looks for a list of words in the objective: only the
\* core work of a vague objective is not verifiable at first.
decomposeByStructure(criticality, vague) ==
  {[part |-> p, verifiable |-> ~(vague /\ p = "Execute")] : p \in Parts(criticality)}

\* verifyOutcomes: inferVerificationSpec finds a specification for whatever
\* has a required capability, and every draft has one, so the first
\* iteration leaves nothing to decompose further.
Refined(drafts) == {[d EXCEPT !.verifiable = TRUE] : d \in drafts}

AllVerifiable(drafts) == \A d \in drafts : d.verifiable

----------------------------------------------------------------------------
(* Operations on the store                                                 *)

Stored(j) == jobStore[j].status = "stored"
InFlight == {r \in Requests : pc[r] \in {"root", "children"}}

analyzeObjective(j, criticality, vague) ==
  /\ jobStore[j].status = "fresh"
  /\ jobStore' = [jobStore EXCEPT ![j] =
       [status |-> "stored", criticality |-> criticality, finalized |-> FALSE,
        subTasks |-> decomposeByStructure(criticality, vague)]]
  /\ UNCHANGED <<tasks, pc, job, inserting>>

verifyOutcomes(j) ==
  /\ Stored(j) /\ ~jobStore[j].finalized
  /\ jobStore' = [jobStore EXCEPT ![j].subTasks = Refined(@)]
  /\ UNCHANGED <<tasks, pc, job, inserting>>

----------------------------------------------------------------------------
(* finalizeDecomposition                                                   *)

\* Mutant: a job that is not verifiable yet can be finalized.
MutantUnverified(j) == Stored(j) /\ ~jobStore[j].finalized

Finalizable(j) == Stored(j) /\ ~jobStore[j].finalized /\ AllVerifiable(jobStore[j].subTasks)

Root(r) == [job |-> job[r], request |-> r, part |-> "Root", specified |-> FALSE]
Child(r, d) == [job |-> job[r], request |-> r, part |-> d.part, specified |-> d.verifiable]

Begin(r, j) ==
  /\ pc[r] = "new" /\ Cardinality(InFlight) < MaxInFlight
  /\ pc' = [pc EXCEPT ![r] = IF Finalizable(j) THEN "root" ELSE "refused"]
  /\ job' = [job EXCEPT ![r] = j]
  /\ UNCHANGED <<jobStore, tasks, inserting>>

\* Mutant: the job is marked before its sub-tasks are there.
MutantMarkFirst(r) ==
  /\ pc[r] = "root"
  /\ tasks' = tasks \union {Root(r)}
  /\ inserting' = [inserting EXCEPT ![r] = jobStore[job[r]].subTasks]
  /\ pc' = [pc EXCEPT ![r] = "children"]
  /\ jobStore' = [jobStore EXCEPT ![job[r]].finalized = TRUE]
  /\ UNCHANGED job

\* The root is in; job.subTasks is read now and every insert is issued.
CreateRoot(r) ==
  /\ pc[r] = "root"
  /\ tasks' = tasks \union {Root(r)}
  /\ inserting' = [inserting EXCEPT ![r] = jobStore[job[r]].subTasks]
  /\ pc' = [pc EXCEPT ![r] = "children"]
  /\ UNCHANGED <<jobStore, job>>

\* One insert is done, in any order; the last one finalizes the job, unless
\* another one has failed or the server has been restarted meanwhile.
CreateChild(r, d) ==
  LET done == pc[r] = "children" /\ inserting[r] = {d}
  IN
  /\ d \in inserting[r]
  /\ tasks' = tasks \union {Child(r, d)}
  /\ inserting' = [inserting EXCEPT ![r] = @ \ {d}]
  /\ pc' = IF done THEN [pc EXCEPT ![r] = "done"] ELSE pc
  /\ jobStore' = IF done THEN [jobStore EXCEPT ![job[r]].finalized = TRUE] ELSE jobStore
  /\ UNCHANGED job

FailRoot(r) ==
  /\ pc[r] = "root"
  /\ pc' = [pc EXCEPT ![r] = "failed"]
  /\ UNCHANGED <<jobStore, tasks, job, inserting>>

\* The first failure rejects the request; the other inserts are not undone
\* and those under way not cancelled.
FailChild(r, d) ==
  /\ d \in inserting[r]
  /\ inserting' = [inserting EXCEPT ![r] = @ \ {d}]
  /\ pc' = [pc EXCEPT ![r] = "failed"]
  /\ UNCHANGED <<jobStore, tasks, job>>

\* The store and the requests are gone; the database goes on with the
\* inserts it has received (the roots of landed), and the others are lost.
Restart(landed) ==
  /\ \E j \in Jobs : Stored(j)
  /\ landed \subseteq {r \in Requests : pc[r] = "root"}
  /\ jobStore' = [j \in Jobs |->
       IF Stored(j) THEN [jobStore[j] EXCEPT !.status = "lost", !.finalized = FALSE] ELSE jobStore[j]]
  /\ pc' = [r \in Requests |-> IF r \in InFlight THEN "failed" ELSE pc[r]]
  /\ tasks' = tasks \union {Root(r) : r \in landed}
  /\ UNCHANGED <<job, inserting>>

----------------------------------------------------------------------------
(* The specification                                                       *)

Init ==
  /\ jobStore = [j \in Jobs |-> NewJob]
  /\ tasks = {}
  /\ pc = [r \in Requests |-> "new"]
  /\ job = [r \in Requests |-> NoJob]
  /\ inserting = [r \in Requests |-> {}]

Step(r) == CreateRoot(r) \/ \E d \in Draft : CreateChild(r, d)

Next ==
  \/ \E j \in Jobs, criticality \in Criticality, vague \in BOOLEAN :
       analyzeObjective(j, criticality, vague)
  \/ \E j \in Jobs : verifyOutcomes(j)
  \/ \E r \in Requests :
       \/ \E j \in Jobs : Begin(r, j)
       \/ Step(r)
       \/ FailRoot(r)
       \/ \E d \in Draft : FailChild(r, d)
  \/ \E landed \in SUBSET Requests : Restart(landed)

Spec == Init /\ [][Next]_vars

----------------------------------------------------------------------------
(* Properties                                                              *)

TypeOK ==
  /\ jobStore \in [Jobs -> Job]
  /\ tasks \subseteq Row
  /\ pc \in [Requests -> {"new", "refused", "root", "children", "done", "failed"}]
  /\ job \in [Requests -> Jobs \union {NoJob}]
  /\ inserting \in [Requests -> SUBSET Draft]
  /\ \A r \in InFlight : job[r] \in Jobs /\ Stored(job[r])

InsertedBy(r) == {row.part : row \in {t \in tasks : t.request = r}}
IsComplete(r) ==
  job[r] \in Jobs /\ InsertedBy(r) = Parts(jobStore[job[r]].criticality) \union {"Root"}

(* What holds however requests interleave, fail and are cut off.           *)

(* "Every leaf sub-task has an outcome that can be strictly and precisely  *)
(* verified": no sub-task is inserted with the fallback specification, in  *)
(* whatever round of verification its job was when it was finalized.       *)
EveryTaskIsSpecified == \A t \in tasks : t.part # "Root" => t.specified

(* A job that is marked finalized has its whole tree in the database,      *)
(* inserted by one request.                                                *)
FinalizedIsComplete == \A j \in Jobs : Stored(j) /\ jobStore[j].finalized =>
  \E r \in Requests : job[r] = j /\ pc[r] = "done" /\ IsComplete(r)

(* What holds when finalize requests come one after the other.             *)

(* A job becomes at most one complete tree of tasks, also when requests    *)
(* fail, their other inserts arrive late, and finalize is tried again.     *)
OneCompleteTree == \A r, q \in Requests :
  IsComplete(r) /\ IsComplete(q) /\ job[r] = job[q] => r = q

============================================================================
