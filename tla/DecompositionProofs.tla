------------------------ MODULE DecompositionProofs ------------------------
(***************************************************************************)
(* Theorems about Decomposition, for any number of jobs and of finalize    *)
(* requests, however they interleave, fail and are cut off by a restart.   *)
(***************************************************************************)
EXTENDS Decomposition, TLAPS

(***************************************************************************)
(* The invariant.  The guard of finalize is read before the root's insert  *)
(* and the drafts after it, so what the guard saw has to be kept by every  *)
(* step in between; and a request that goes on has nothing but its own     *)
(* parts, those inserted and those under way.                              *)
(***************************************************************************)
PartsOf(drafts) == {d.part : d \in drafts}
Tree(j) == Parts(jobStore[j].criticality) \union {"Root"}
Analysed(j) == jobStore[j].status # "fresh"

TypeInv ==
  /\ TypeOK
  /\ \A r \in Requests : inserting[r] # {} => job[r] \in Jobs

DraftsCoverTheParts == \A j \in Jobs :
  Analysed(j) => PartsOf(jobStore[j].subTasks) = Parts(jobStore[j].criticality)

GuardStillHolds == \A r \in Requests : pc[r] = "root" =>
  AllVerifiable(jobStore[job[r]].subTasks) /\ InsertedBy(r) = {} /\ inserting[r] = {}

UnderWayIsVerifiable == \A r \in Requests : AllVerifiable(inserting[r])

NothingBefore == \A r \in Requests : pc[r] = "new" =>
  InsertedBy(r) = {} /\ inserting[r] = {}

TreeGrows == \A r \in Requests : pc[r] \in {"children", "done"} =>
  /\ job[r] \in Jobs /\ Analysed(job[r])
  /\ InsertedBy(r) \union PartsOf(inserting[r]) = Tree(job[r])
  /\ pc[r] = "done" => inserting[r] = {}

FinalizedByOne == \A j \in Jobs : Stored(j) /\ jobStore[j].finalized =>
  \E r \in Requests : job[r] = j /\ pc[r] = "done"

DecompositionInv ==
  /\ TypeInv
  /\ DraftsCoverTheParts
  /\ GuardStillHolds
  /\ UnderWayIsVerifiable
  /\ NothingBefore
  /\ TreeGrows
  /\ FinalizedByOne
  /\ EveryTaskIsSpecified

----------------------------------------------------------------------------
(* Drafts                                                                  *)

\* The drafts of an objective are drafts, and are its parts.
LEMMA Drafted ==
  ASSUME NEW c \in Criticality, NEW vague \in BOOLEAN
  PROVE  /\ decomposeByStructure(c, vague) \subseteq Draft
         /\ PartsOf(decomposeByStructure(c, vague)) = Parts(c)
<1>1. Parts(c) \subseteq Part
  BY DEF Parts, Part
<1>2. \A p \in Part : [part |-> p, verifiable |-> ~(vague /\ p = "Execute")] \in Draft
  BY DEF Draft
<1>3. decomposeByStructure(c, vague) \subseteq Draft
  BY <1>1, <1>2 DEF decomposeByStructure
<1>4. PartsOf(decomposeByStructure(c, vague)) = Parts(c)
  <2>1. ASSUME NEW p \in Parts(c) PROVE p \in PartsOf(decomposeByStructure(c, vague))
    <3>1. [part |-> p, verifiable |-> ~(vague /\ p = "Execute")] \in decomposeByStructure(c, vague)
      BY DEF decomposeByStructure
    <3>2. QED
      BY <3>1 DEF PartsOf
  <2>2. ASSUME NEW p \in PartsOf(decomposeByStructure(c, vague)) PROVE p \in Parts(c)
    BY DEF PartsOf, decomposeByStructure
  <2>3. QED
    BY <2>1, <2>2
<1>5. QED
  BY <1>3, <1>4

\* Refining drafts keeps their parts and leaves none that is unverifiable.
LEMMA Refines ==
  ASSUME NEW drafts \in SUBSET Draft
  PROVE  /\ Refined(drafts) \subseteq Draft
         /\ PartsOf(Refined(drafts)) = PartsOf(drafts)
         /\ AllVerifiable(Refined(drafts))
<1>1. \A d \in drafts : LET e == [d EXCEPT !.verifiable = TRUE]
                       IN  e \in Draft /\ e.part = d.part /\ e.verifiable
  BY DEF Draft
<1>2. Refined(drafts) \subseteq Draft /\ AllVerifiable(Refined(drafts))
  BY <1>1 DEF Refined, AllVerifiable
<1>3. PartsOf(Refined(drafts)) = PartsOf(drafts)
  <2>1. \A p : p \in PartsOf(Refined(drafts)) <=> \E d \in drafts : p = d.part
    BY <1>1 DEF Refined, PartsOf
  <2>2. QED
    BY <2>1 DEF PartsOf
<1>4. QED
  BY <1>2, <1>3

\* A row that is inserted is a part of its request's tree, and of no other.
LEMMA OneRow ==
  ASSUME NEW r \in Requests, NEW part,
         \E row : row.request = r /\ row.part = part /\ tasks' = tasks \union {row}
  PROVE  \A q \in Requests : InsertedBy(q)' = InsertedBy(q) \union (IF q = r THEN {part} ELSE {})
<1>1. PICK row : row.request = r /\ row.part = part /\ tasks' = tasks \union {row}
  OBVIOUS
<1>2. SUFFICES ASSUME NEW q \in Requests
               PROVE  InsertedBy(q)' = InsertedBy(q) \union (IF q = r THEN {part} ELSE {})
  OBVIOUS
<1>3. \A p : p \in InsertedBy(q) <=> \E t \in tasks : t.request = q /\ t.part = p
  BY DEF InsertedBy
<1>4. \A p : p \in InsertedBy(q)' <=> \E t \in tasks' : t.request = q /\ t.part = p
  BY DEF InsertedBy
<1>5. QED
  BY <1>1, <1>3, <1>4

----------------------------------------------------------------------------
(* Types                                                                   *)

LEMMA InitTypeInv == Init => TypeInv
BY DEF Init, TypeInv, TypeOK, Job, NewJob, Criticality, InFlight

LEMMA NextTypeInv == TypeInv /\ [Next]_vars => TypeInv'
<1> SUFFICES ASSUME TypeInv, [Next]_vars PROVE TypeInv'
  OBVIOUS
<1> USE DEF TypeInv, TypeOK
<1>1. ASSUME NEW j \in Jobs, NEW c \in Criticality, NEW vague \in BOOLEAN,
             analyzeObjective(j, c, vague)
      PROVE  TypeInv'
  BY <1>1, Drafted DEF analyzeObjective, Job, InFlight, Stored
<1>2. ASSUME NEW j \in Jobs, verifyOutcomes(j)
      PROVE  TypeInv'
  <2>1. Refined(jobStore[j].subTasks) \subseteq Draft
    BY Refines DEF Job
  <2>2. QED
    BY <1>2, <2>1 DEF verifyOutcomes, Job, InFlight, Stored
<1>3. ASSUME NEW r \in Requests, NEW j \in Jobs, Begin(r, j)
      PROVE  TypeInv'
  BY <1>3 DEF Begin, Finalizable, InFlight, Stored
<1>4. ASSUME NEW r \in Requests, CreateRoot(r)
      PROVE  TypeInv'
  <2>1. job[r] \in Jobs /\ Stored(job[r])
    BY <1>4 DEF CreateRoot, InFlight
  <2>2. Root(r) \in Row /\ jobStore[job[r]].subTasks \subseteq Draft
    BY <2>1 DEF Root, Row, Job
  <2>3. QED
    BY <1>4, <2>1, <2>2 DEF CreateRoot, InFlight, Stored
<1>5. ASSUME NEW r \in Requests, NEW d \in Draft, CreateChild(r, d)
      PROVE  TypeInv'
  <2>1. Child(r, d) \in Row
    BY <1>5 DEF CreateChild, Child, Row, Draft
  <2>2. jobStore' \in [Jobs -> Job] /\ \A j \in Jobs : Stored(j)' <=> Stored(j)
    BY <1>5 DEF CreateChild, Job, Stored
  <2>3. QED
    BY <1>5, <2>1, <2>2 DEF CreateChild, InFlight
<1>6. ASSUME NEW r \in Requests, FailRoot(r)
      PROVE  TypeInv'
  BY <1>6 DEF FailRoot, InFlight, Stored
<1>7. ASSUME NEW r \in Requests, NEW d \in Draft, FailChild(r, d)
      PROVE  TypeInv'
  BY <1>7 DEF FailChild, InFlight, Stored
<1>8. ASSUME NEW landed \in SUBSET Requests, Restart(landed)
      PROVE  TypeInv'
  <2>1. \A r \in landed : Root(r) \in Row
    BY <1>8 DEF Restart, InFlight, Root, Row
  <2>2. jobStore' \in [Jobs -> Job]
    BY <1>8 DEF Restart, Job
  <2>3. InFlight' = {}
    BY <1>8 DEF Restart, InFlight
  <2>4. QED
    BY <1>8, <2>1, <2>2, <2>3 DEF Restart
<1>9. CASE UNCHANGED vars
  BY <1>9 DEF vars, InFlight, Stored
<1>10. QED
  BY <1>1, <1>2, <1>3, <1>4, <1>5, <1>6, <1>7, <1>8, <1>9 DEF Next, Step

\* The job store, the tasks, every request and every insert have the shapes
\* the code gives them, and a request under way works on a job in memory.
THEOREM DecompositionTypeCorrect == Spec => []TypeOK
<1>1. TypeInv => TypeOK
  BY DEF TypeInv
<1>2. QED
  BY InitTypeInv, NextTypeInv, <1>1, PTL DEF Spec

----------------------------------------------------------------------------
(* The tree of a job                                                       *)

LEMMA InitDecompositionInv == Init => DecompositionInv
<1> SUFFICES ASSUME Init PROVE DecompositionInv
  OBVIOUS
<1>1. TypeInv
  BY InitTypeInv
<1>2. QED
  BY <1>1 DEF Init, DecompositionInv, DraftsCoverTheParts, Analysed, NewJob, GuardStillHolds,
     UnderWayIsVerifiable, AllVerifiable, NothingBefore, InsertedBy, TreeGrows, FinalizedByOne,
     Stored, EveryTaskIsSpecified

\* Analysing and verifying write one job, of which no finished tree depends
\* on more than that it was analysed and with which criticality.
LEMMA StoreSteps ==
  ASSUME DecompositionInv, TypeInv', UNCHANGED <<tasks, pc, job, inserting>>,
         NEW j \in Jobs, NEW new \in Job, jobStore' = [jobStore EXCEPT ![j] = new],
         new.status = "stored", ~new.finalized,
         PartsOf(new.subTasks) = Parts(new.criticality),
         \/ jobStore[j].status = "fresh"
         \/ /\ Stored(j) /\ new.criticality = jobStore[j].criticality
            /\ AllVerifiable(new.subTasks)
  PROVE  DecompositionInv'
<1> USE DEF DecompositionInv, TypeInv, TypeOK
<1>1. jobStore'[j] = new /\ \A i \in Jobs \ {j} : jobStore'[i] = jobStore[i]
  OBVIOUS
<1>2. DraftsCoverTheParts'
  BY <1>1 DEF DraftsCoverTheParts, Analysed
<1>3. GuardStillHolds'
  <2>1. ASSUME NEW r \in Requests, pc[r] = "root"
        PROVE  AllVerifiable(jobStore[job[r]].subTasks)'
    <3>1. job[r] \in Jobs /\ Stored(job[r]) /\ AllVerifiable(jobStore[job[r]].subTasks)
      BY <2>1 DEF InFlight, GuardStillHolds
    <3>2. QED
      BY <1>1, <3>1 DEF AllVerifiable, Stored
  <2>2. QED
    BY <2>1 DEF GuardStillHolds, InsertedBy
<1>4. TreeGrows'
  BY <1>1 DEF TreeGrows, Analysed, Stored, InsertedBy, Tree
<1>5. FinalizedByOne'
  BY <1>1 DEF FinalizedByOne, Stored
<1>6. UnderWayIsVerifiable' /\ NothingBefore' /\ EveryTaskIsSpecified'
  BY DEF UnderWayIsVerifiable, AllVerifiable, NothingBefore, InsertedBy, EveryTaskIsSpecified
<1>7. QED
  BY <1>2, <1>3, <1>4, <1>5, <1>6

\* A request that fails is not finished, and loses only what was under way.
LEMMA Abandons ==
  ASSUME DecompositionInv, TypeInv', UNCHANGED <<jobStore, tasks, job>>,
         NEW r \in Requests, pc[r] # "done", pc' = [pc EXCEPT ![r] = "failed"],
         \A q \in Requests : /\ inserting'[q] \subseteq inserting[q]
                             /\ q # r => inserting'[q] = inserting[q]
  PROVE  DecompositionInv'
<1> USE DEF DecompositionInv, TypeInv, TypeOK
<1>1. \A q \in Requests : /\ pc'[q] # "failed" => q # r
                          /\ q # r => pc'[q] = pc[q] /\ inserting'[q] = inserting[q]
                          /\ InsertedBy(q)' = InsertedBy(q)
  BY DEF InsertedBy
<1>2. DraftsCoverTheParts' /\ EveryTaskIsSpecified' /\ UnderWayIsVerifiable'
  BY DEF DraftsCoverTheParts, Analysed, EveryTaskIsSpecified, UnderWayIsVerifiable, AllVerifiable
<1>3. GuardStillHolds' /\ NothingBefore'
  BY <1>1 DEF GuardStillHolds, NothingBefore, AllVerifiable
<1>4. TreeGrows'
  BY <1>1 DEF TreeGrows, Tree, Analysed, PartsOf
<1>5. FinalizedByOne'
  BY <1>1 DEF FinalizedByOne, Stored
<1>6. QED
  BY <1>2, <1>3, <1>4, <1>5

LEMMA NextDecompositionInv == DecompositionInv /\ [Next]_vars => DecompositionInv'
<1> SUFFICES ASSUME DecompositionInv, [Next]_vars PROVE DecompositionInv'
  OBVIOUS
<1>0. /\ TypeInv' /\ TypeInv /\ TypeOK
      /\ DraftsCoverTheParts /\ GuardStillHolds /\ UnderWayIsVerifiable /\ NothingBefore
      /\ TreeGrows /\ FinalizedByOne /\ EveryTaskIsSpecified
  BY NextTypeInv DEF TypeInv, DecompositionInv
<1>1. ASSUME NEW j \in Jobs, NEW c \in Criticality, NEW vague \in BOOLEAN,
             analyzeObjective(j, c, vague)
      PROVE  DecompositionInv'
  <2> DEFINE new == [status |-> "stored", criticality |-> c, finalized |-> FALSE,
                     subTasks |-> decomposeByStructure(c, vague)]
  <2>1. new \in Job /\ PartsOf(new.subTasks) = Parts(new.criticality)
    BY Drafted DEF Job
  <2>2. jobStore' = [jobStore EXCEPT ![j] = new]
    BY <1>1 DEF analyzeObjective
  <2> HIDE DEF new
  <2>3. new.status = "stored" /\ ~new.finalized
    BY DEF new
  <2>4. QED
    BY <1>0, <1>1, <2>1, <2>2, <2>3, StoreSteps DEF analyzeObjective
<1>2. ASSUME NEW j \in Jobs, verifyOutcomes(j)
      PROVE  DecompositionInv'
  <2> DEFINE new == [jobStore[j] EXCEPT !.subTasks = Refined(@)]
  <2>1. jobStore[j] \in Job /\ jobStore[j].subTasks \in SUBSET Draft
    BY <1>0 DEF TypeOK, Job
  <2>2. /\ new \in Job /\ new.status = jobStore[j].status
        /\ new.criticality = jobStore[j].criticality /\ new.finalized = jobStore[j].finalized
        /\ new.subTasks = Refined(jobStore[j].subTasks)
    BY <2>1, Refines DEF Job
  <2>3. jobStore' = [jobStore EXCEPT ![j] = new]
    BY <1>2 DEF verifyOutcomes
  <2> HIDE DEF new
  <2>4. PartsOf(new.subTasks) = Parts(new.criticality) /\ AllVerifiable(new.subTasks)
    BY <1>0, <1>2, <2>1, <2>2, Refines DEF verifyOutcomes, DraftsCoverTheParts, Analysed, Stored
  <2>5. QED
    BY <1>0, <1>2, <2>2, <2>3, <2>4, StoreSteps DEF verifyOutcomes, Stored
<1>3. ASSUME NEW r \in Requests, NEW j \in Jobs, Begin(r, j)
      PROVE  DecompositionInv'
  <2>1. DraftsCoverTheParts' /\ UnderWayIsVerifiable' /\ EveryTaskIsSpecified'
    BY <1>0, <1>3 DEF Begin, DraftsCoverTheParts, Analysed, UnderWayIsVerifiable, AllVerifiable,
       EveryTaskIsSpecified
  <2>2. GuardStillHolds'
    BY <1>0, <1>3 DEF Begin, GuardStillHolds, Finalizable, AllVerifiable, NothingBefore,
       InsertedBy, TypeOK
  <2>3. NothingBefore' /\ TreeGrows'
    BY <1>0, <1>3 DEF Begin, NothingBefore, TreeGrows, InsertedBy, TypeOK, Analysed, Tree
  <2>4. FinalizedByOne'
    BY <1>0, <1>3 DEF Begin, FinalizedByOne, Stored, TypeOK
  <2>5. QED
    BY <1>0, <2>1, <2>2, <2>3, <2>4 DEF DecompositionInv
<1>4. ASSUME NEW r \in Requests, CreateRoot(r)
      PROVE  DecompositionInv'
  <2> DEFINE row == Root(r)
  <2>1. job[r] \in Jobs /\ Stored(job[r])
    BY <1>0, <1>4 DEF CreateRoot, InFlight, TypeOK
  <2>2. \A q \in Requests : InsertedBy(q)' = InsertedBy(q) \union (IF q = r THEN {"Root"} ELSE {})
    <3>1. Root(r).request = r /\ Root(r).part = "Root" /\ tasks' = tasks \union {Root(r)}
      BY <1>0, <1>4 DEF CreateRoot, Root
    <3>2. QED
      BY <3>1, OneRow
  <2>3. DraftsCoverTheParts' /\ EveryTaskIsSpecified'
    BY <1>0, <1>4 DEF CreateRoot, DraftsCoverTheParts, Analysed, EveryTaskIsSpecified, Root
  <2>4. GuardStillHolds' /\ NothingBefore'
    BY <1>0, <1>4, <2>2 DEF CreateRoot, GuardStillHolds, NothingBefore, AllVerifiable, TypeOK
  <2>5. UnderWayIsVerifiable'
    BY <1>0, <1>4 DEF CreateRoot, UnderWayIsVerifiable, GuardStillHolds, AllVerifiable, TypeOK
  <2>6. TreeGrows'
    <3>1. InsertedBy(r)' \union PartsOf(inserting[r])' = Tree(job[r])'
      BY <1>0, <1>4, <2>1, <2>2 DEF CreateRoot, GuardStillHolds, DraftsCoverTheParts, Analysed,
         Stored, Tree, TypeOK
    <3>2. QED
      BY <1>0, <1>4, <2>1, <2>2, <3>1 DEF CreateRoot, TreeGrows, Analysed, Stored, Tree, TypeOK
  <2>7. FinalizedByOne'
    BY <1>0, <1>4 DEF CreateRoot, FinalizedByOne, Stored, TypeOK
  <2>8. QED
    BY <1>0, <2>3, <2>4, <2>5, <2>6, <2>7 DEF DecompositionInv
<1>5. ASSUME NEW r \in Requests, NEW d \in Draft, CreateChild(r, d)
      PROVE  DecompositionInv'
  <2>1. job[r] \in Jobs /\ d \in inserting[r] /\ pc[r] \notin {"new", "root", "done"}
    BY <1>0, <1>5 DEF CreateChild, TypeInv, GuardStillHolds, NothingBefore, TreeGrows
  <2>2. \A q \in Requests : InsertedBy(q)' = InsertedBy(q) \union (IF q = r THEN {d.part} ELSE {})
    <3>1. /\ Child(r, d).request = r /\ Child(r, d).part = d.part
          /\ tasks' = tasks \union {Child(r, d)}
      BY <1>0, <1>5 DEF CreateChild, Child
    <3>2. QED
      BY <3>1, OneRow
  <2>3. \A j \in Jobs : /\ jobStore'[j].status = jobStore[j].status
                        /\ jobStore'[j].criticality = jobStore[j].criticality
                        /\ jobStore'[j].subTasks = jobStore[j].subTasks
    BY <1>0, <1>5 DEF CreateChild, TypeOK, Job
  <2>4. DraftsCoverTheParts'
    BY <1>0, <2>3 DEF DraftsCoverTheParts, Analysed
  <2>5. EveryTaskIsSpecified'
    BY <1>0, <1>5, <2>1 DEF CreateChild, Child, EveryTaskIsSpecified, UnderWayIsVerifiable, AllVerifiable
  <2>6. GuardStillHolds' /\ NothingBefore'
    <3>1. \A q \in Requests : /\ pc'[q] \in {"new", "root"} => pc'[q] = pc[q] /\ q # r
                              /\ q # r => inserting'[q] = inserting[q]
      BY <1>0, <1>5, <2>1 DEF CreateChild, TypeOK
    <3>2. \A q \in Requests : pc[q] = "root" => job[q] \in Jobs /\ job'[q] = job[q]
      BY <1>0, <1>5 DEF CreateChild, TypeOK, InFlight
    <3>3. NothingBefore'
      BY <1>0, <2>2, <3>1 DEF NothingBefore
    <3>4. ASSUME NEW q \in Requests, pc'[q] = "root"
          PROVE  AllVerifiable(jobStore[job[q]].subTasks)' /\ InsertedBy(q)' = {} /\ inserting'[q] = {}
      <4>1. pc[q] = "root" /\ q # r
        BY <3>1, <3>4
      <4>2. jobStore'[job'[q]].subTasks = jobStore[job[q]].subTasks
        BY <2>3, <3>2, <4>1
      <4>3. QED
        BY <1>0, <2>2, <3>1, <4>1, <4>2 DEF GuardStillHolds, AllVerifiable
    <3>5. QED
      BY <3>3, <3>4 DEF GuardStillHolds
  <2>7. UnderWayIsVerifiable'
    BY <1>0, <1>5 DEF CreateChild, UnderWayIsVerifiable, AllVerifiable, TypeOK
  <2>8. TreeGrows'
    <3>1. InsertedBy(r)' \union PartsOf(inserting[r])' = InsertedBy(r) \union PartsOf(inserting[r])
      BY <1>0, <1>5, <2>1, <2>2 DEF CreateChild, PartsOf, TypeOK
    <3>2. Tree(job[r])' = Tree(job[r]) /\ Analysed(job[r])' = Analysed(job[r])
      BY <1>0, <1>5, <2>1, <2>3 DEF CreateChild, Tree, Analysed
    <3>3. /\ pc'[r] \in {"children", "done"} => pc[r] = "children"
          /\ pc'[r] = "done" => inserting'[r] = {}
          /\ job' = job
      BY <1>0, <1>5, <2>1 DEF CreateChild, TypeOK
    <3>4. ASSUME NEW q \in Requests, q # r, pc'[q] \in {"children", "done"}
          PROVE  /\ pc[q] = pc'[q] /\ inserting'[q] = inserting[q] /\ InsertedBy(q)' = InsertedBy(q)
                 /\ job[q] \in Jobs /\ Tree(job[q])' = Tree(job[q])
                 /\ Analysed(job[q])' = Analysed(job[q])
      <4>1. pc[q] = pc'[q] /\ inserting'[q] = inserting[q] /\ InsertedBy(q)' = InsertedBy(q)
        BY <1>0, <1>5, <2>2, <3>4 DEF CreateChild, TypeOK
      <4>2. job[q] \in Jobs
        BY <1>0, <3>4, <4>1 DEF TreeGrows
      <4>3. QED
        BY <2>3, <3>3, <4>1, <4>2 DEF Tree, Analysed
    <3>5. QED
      BY <1>0, <2>1, <3>1, <3>2, <3>3, <3>4 DEF TreeGrows, PartsOf
  <2>9. FinalizedByOne'
    BY <1>0, <1>5, <2>1, <2>3 DEF CreateChild, FinalizedByOne, Stored, TypeOK
  <2>10. QED
    BY <1>0, <2>4, <2>5, <2>6, <2>7, <2>8, <2>9 DEF DecompositionInv
<1>6. ASSUME NEW r \in Requests, FailRoot(r)
      PROVE  DecompositionInv'
  <2>1. pc[r] # "done" /\ pc' = [pc EXCEPT ![r] = "failed"]
    BY <1>0, <1>6 DEF FailRoot
  <2>2. UNCHANGED <<jobStore, tasks, job, inserting>>
    BY <1>0, <1>6 DEF FailRoot
  <2>3. \A q \in Requests : /\ inserting'[q] \subseteq inserting[q]
                            /\ q # r => inserting'[q] = inserting[q]
    BY <1>0, <2>2 DEF TypeOK
  <2>4. QED
    BY <1>0, <2>1, <2>2, <2>3, Abandons
<1>7. ASSUME NEW r \in Requests, NEW d \in Draft, FailChild(r, d)
      PROVE  DecompositionInv'
  <2>1. pc[r] # "done" /\ pc' = [pc EXCEPT ![r] = "failed"]
    BY <1>0, <1>7 DEF FailChild, TreeGrows
  <2>2. UNCHANGED <<jobStore, tasks, job>> /\ inserting' = [inserting EXCEPT ![r] = @ \ {d}]
    BY <1>0, <1>7 DEF FailChild
  <2>3. \A q \in Requests : /\ inserting'[q] \subseteq inserting[q]
                            /\ q # r => inserting'[q] = inserting[q]
    BY <1>0, <2>2 DEF TypeOK
  <2>4. QED
    BY <1>0, <2>1, <2>2, <2>3, Abandons
<1>8. ASSUME NEW landed \in SUBSET Requests, Restart(landed)
      PROVE  DecompositionInv'
  <2>1. \A j \in Jobs : /\ Analysed(j)' = Analysed(j) /\ ~Stored(j)'
                        /\ jobStore'[j].criticality = jobStore[j].criticality
                        /\ jobStore'[j].subTasks = jobStore[j].subTasks
    BY <1>0, <1>8 DEF Restart, TypeOK, Job, Analysed, Stored
  <2>2. \A r \in Requests : /\ pc'[r] \in {"new", "done"} => pc[r] = pc'[r] /\ r \notin landed
                            /\ pc'[r] \notin {"root", "children"}
    BY <1>0, <1>8 DEF Restart, TypeOK, InFlight
  <2>3. ASSUME NEW r \in Requests \ landed PROVE InsertedBy(r)' = InsertedBy(r)
    <3>1. tasks' = tasks \union {Root(q) : q \in landed} /\ \A q \in landed : Root(q).request = q
      BY <1>8 DEF Restart, Root
    <3>2. \A t : t.request = r => (t \in tasks' <=> t \in tasks)
      BY <3>1
    <3>3. {t \in tasks' : t.request = r} = {t \in tasks : t.request = r}
      BY <3>2
    <3>4. QED
      BY <3>3 DEF InsertedBy
  <2>4. DraftsCoverTheParts' /\ GuardStillHolds' /\ FinalizedByOne'
    BY <1>0, <2>1, <2>2 DEF DraftsCoverTheParts, GuardStillHolds, FinalizedByOne
  <2>5. UnderWayIsVerifiable' /\ NothingBefore' /\ EveryTaskIsSpecified'
    <3>1. UnderWayIsVerifiable'
      BY <1>0, <1>8 DEF Restart, UnderWayIsVerifiable, AllVerifiable
    <3>2. NothingBefore'
      BY <1>0, <1>8, <2>2, <2>3 DEF Restart, NothingBefore
    <3>3. EveryTaskIsSpecified'
      <4>1. tasks' = tasks \union {Root(r) : r \in landed} /\ \A r \in landed : Root(r).part = "Root"
        BY <1>8 DEF Restart, Root
      <4>2. QED
        BY <1>0, <4>1 DEF EveryTaskIsSpecified
    <3>4. QED
      BY <3>1, <3>2, <3>3
  <2>6. TreeGrows'
    <3> SUFFICES ASSUME NEW r \in Requests, pc'[r] = "done"
                 PROVE  /\ job[r] \in Jobs /\ Analysed(job[r])'
                        /\ (InsertedBy(r) \union PartsOf(inserting[r]) = Tree(job[r]))'
                        /\ inserting[r] = {}
      BY <1>8, <2>2 DEF Restart, TreeGrows
    <3>1. pc[r] = "done" /\ InsertedBy(r)' = InsertedBy(r)
      BY <2>2, <2>3
    <3>2. /\ job[r] \in Jobs /\ Analysed(job[r]) /\ inserting[r] = {}
          /\ InsertedBy(r) \union PartsOf(inserting[r]) = Tree(job[r])
      BY <1>0, <3>1 DEF TreeGrows
    <3>3. (Tree(job[r]))' = Tree(job[r]) /\ (Analysed(job[r]))' = Analysed(job[r])
      BY <1>8, <2>1, <3>2 DEF Restart, Tree, Analysed
    <3>4. QED
      BY <1>8, <3>1, <3>2, <3>3 DEF Restart
  <2>7. QED
    BY <1>0, <2>4, <2>5, <2>6 DEF DecompositionInv
<1>9. CASE UNCHANGED vars
  BY <1>0, <1>9 DEF DecompositionInv, vars, DraftsCoverTheParts, Analysed, GuardStillHolds, AllVerifiable,
     UnderWayIsVerifiable, NothingBefore, TreeGrows, InsertedBy, Tree, FinalizedByOne, Stored,
     EveryTaskIsSpecified
<1>10. QED
  BY <1>1, <1>2, <1>3, <1>4, <1>5, <1>6, <1>7, <1>8, <1>9 DEF Next, Step

LEMMA TreesAreProtected == Spec => []DecompositionInv
BY InitDecompositionInv, NextDecompositionInv, PTL DEF Spec

\* Every sub-task in the database has a specification of its outcome, however
\* many rounds of verification and finalize requests its job goes through.
THEOREM TasksAreSpecified == Spec => []EveryTaskIsSpecified
<1>1. DecompositionInv => EveryTaskIsSpecified
  BY DEF DecompositionInv
<1>2. QED
  BY TreesAreProtected, <1>1, PTL

\* A job that is marked finalized has its whole tree in the database, whatever
\* other finalize requests of the job were under way.
THEOREM FinalizedJobsAreComplete == Spec => []FinalizedIsComplete
<1>1. DecompositionInv => FinalizedIsComplete
  <2> SUFFICES ASSUME DecompositionInv, NEW j \in Jobs, Stored(j), jobStore[j].finalized
               PROVE  \E r \in Requests : job[r] = j /\ pc[r] = "done" /\ IsComplete(r)
    BY DEF FinalizedIsComplete
  <2>1. PICK r \in Requests : job[r] = j /\ pc[r] = "done"
    BY DEF DecompositionInv, FinalizedByOne
  <2>2. InsertedBy(r) \union PartsOf({}) = Tree(j)
    BY <2>1 DEF DecompositionInv, TreeGrows
  <2>3. PartsOf({}) = {}
    BY DEF PartsOf
  <2>4. IsComplete(r)
    BY <2>1, <2>2, <2>3 DEF IsComplete, Tree
  <2>5. QED
    BY <2>1, <2>4
<1>2. QED
  BY TreesAreProtected, <1>1, PTL

=============================================================================
