--------------------------- MODULE AgentRegistry ---------------------------
(***************************************************************************)
(* The registration of OpenClaw workspaces as agents                       *)
(* (adapters/openclaw-gateway.ts, POST /openclaw/register) next to the     *)
(* contract service: both write agent.activeStatus, the one from the       *)
(* configuration of the workspace, the other when its circuit breaker      *)
(* trips.                                                                  *)
(*                                                                         *)
(* A registration walks through its workspaces and through the skills of   *)
(* each, one awaited statement at a time: an upsert of the agent, then for *)
(* every skill a look-up and, where it found nothing, an insert.  A        *)
(* statement that throws ends the request and leaves what was written.     *)
(***************************************************************************)
EXTENDS ContractService, Sequences

CONSTANTS
  Registrations,  \* bound: the register requests that are ever made
  BatchOf,        \* the workspaces in the body of each
  DefaultScore,   \* config.defaultReputationScore of each, in hundredths
  Skills, Domains,
  Domain,         \* normalizeSkillDomain: several skills can fall into one
  Registered      \* the agents that have a row at the start

(* OpenClawWorkspace, by the agent its id stands for.                      *)
Workspace == [agent: Agents, active: BOOLEAN, skills: Seq(Skills)]

ASSUME RegistryAssumption ==
  /\ BatchOf \in [Registrations -> Seq(Workspace)]
  /\ \A g \in Registrations : BatchOf[g] # <<>>
  /\ DefaultScore \in [Registrations -> 0..100]
  /\ Domain \in [Skills -> Domains]
  /\ Registered \subseteq Agents
  /\ \A c \in Opened : AgentOf[c] \in Registered

VARIABLES
  known,        \* the agents that have a row
  credentials,  \* VerifiableCredential rows, by the look-up that missed them
  regPc,        \* the next statement of every registration
  place,        \* the workspace and the skill it is about
  \* History: the score each agent started with, and the registrations that
  \* were over when each began.
  entry, earlier

regVars == <<known, credentials, regPc, place, entry, earlier>>
registryVars == <<vars, regVars>>

RegStatement == {"upsert", "find", "create"}
Registering == {g \in Registrations : regPc[g] \in RegStatement}
Over == {g \in Registrations : regPc[g] \in {"done", "failed"}}

\* Whether one more request may be in flight.
RoomToStart == Cardinality(InFlight) + Cardinality(Registering) < MaxInFlight

WorkspaceOf(g) == BatchOf[g][place[g].workspace]
Holder(g) == WorkspaceOf(g).agent
SkillDomain(g) == Domain[WorkspaceOf(g).skills[place[g].skill]]

\* The self-issued credentials of an agent for a domain.
Held(a, d) == {k \in credentials : k.agent = a /\ k.domain = d}

----------------------------------------------------------------------------
(* The statements of a registration                                        *)

\* On to skill s of workspace w or, behind the last one, to the next
\* workspace or to the response.
Resume(g, w, s) ==
  LET skills == BatchOf[g][w].skills
      Goto(statement, workspace, skill) ==
        /\ regPc' = [regPc EXCEPT ![g] = statement]
        /\ place' = [place EXCEPT ![g] = [workspace |-> workspace, skill |-> skill]]
  IN \/ s <= Len(skills) /\ Goto("find", w, s)
     \/ s > Len(skills) /\ w < Len(BatchOf[g]) /\ Goto("upsert", w + 1, 1)
     \/ s > Len(skills) /\ w = Len(BatchOf[g]) /\ Goto("done", w, s)

NextSkill(g) == Resume(g, place[g].workspace, place[g].skill + 1)

BeginRegistration(g) ==
  /\ regPc[g] = "new" /\ RoomToStart
  /\ regPc' = [regPc EXCEPT ![g] = "upsert"]
  /\ earlier' = [earlier EXCEPT ![g] = Over]
  /\ UNCHANGED <<vars, known, credentials, place, entry>>

\* Mutant: a registration sets the score again, too.
MutantScoreAnew(g) == [score |-> DefaultScore[g], active |-> WorkspaceOf(g).active]

\* The update of the upsert: activeStatus as the workspace has it, no score.
Updated(g) == [agent[Holder(g)] EXCEPT !.active = WorkspaceOf(g).active]

\* agent.upsert, which Prisma hands to the database as one statement.
Upsert(g) ==
  LET created == [score |-> DefaultScore[g], active |-> WorkspaceOf(g).active]
      isNew == Holder(g) \notin known
  IN
  /\ regPc[g] = "upsert"
  /\ agent' = [agent EXCEPT ![Holder(g)] = IF isNew THEN created ELSE Updated(g)]
  /\ entry' = IF isNew THEN [entry EXCEPT ![Holder(g)] = DefaultScore[g]] ELSE entry
  /\ known' = known \union {Holder(g)}
  /\ Resume(g, place[g].workspace, 1)
  /\ UNCHANGED <<contract, task, ledger, penalties, live, pc, call, seen, charged,
                 credentials, earlier>>

\* Mutants: the look-up is by domain alone; its answer is ignored.
MutantAnyHolder(g) ==
  /\ regPc[g] = "find"
  /\ \/ /\ ~\E k \in credentials : k.domain = SkillDomain(g)
        /\ regPc' = [regPc EXCEPT ![g] = "create"]
        /\ UNCHANGED place
     \/ /\ \E k \in credentials : k.domain = SkillDomain(g)
        /\ NextSkill(g)
  /\ UNCHANGED <<vars, known, credentials, entry, earlier>>

MutantAlwaysIssue(g) ==
  /\ regPc[g] = "find"
  /\ regPc' = [regPc EXCEPT ![g] = "create"]
  /\ UNCHANGED <<vars, known, credentials, place, entry, earlier>>

\* verifiableCredential.findFirst: a skill that is held needs no insert.
FindCredential(g) ==
  /\ regPc[g] = "find"
  /\ \/ /\ Held(Holder(g), SkillDomain(g)) = {}
        /\ regPc' = [regPc EXCEPT ![g] = "create"]
        /\ UNCHANGED place
     \/ /\ Held(Holder(g), SkillDomain(g)) # {}
        /\ NextSkill(g)
  /\ UNCHANGED <<vars, known, credentials, entry, earlier>>

\* verifiableCredential.create, with an id of its own: every pass of the
\* loop makes at most one row.
CreateCredential(g) ==
  /\ regPc[g] = "create"
  /\ credentials' = credentials \union
       {[by |-> g, at |-> place[g], agent |-> Holder(g), domain |-> SkillDomain(g)]}
  /\ NextSkill(g)
  /\ UNCHANGED <<vars, known, entry, earlier>>

\* A statement throws, or the process dies.
FailRegistration(g) ==
  /\ g \in Registering
  /\ regPc' = [regPc EXCEPT ![g] = "failed"]
  /\ UNCHANGED <<vars, known, credentials, place, entry, earlier>>

----------------------------------------------------------------------------
(* The specification                                                       *)

\* Contracts are made with agents that have a row (the foreign key).
ContractStep ==
  /\ \E r \in Requests :
       \/ \E op \in Operation, c \in Contracts : \E severity \in Severable(op) :
            RoomToStart /\ AgentOf[c] \in known /\ Begin(r, op, c, severity)
       \/ Step(r)
       \/ Fail(r)
  /\ UNCHANGED regVars

RegistrationStep(g) ==
  \/ BeginRegistration(g) \/ Upsert(g) \/ FindCredential(g)
  \/ CreateCredential(g) \/ FailRegistration(g)

RegistryInit ==
  /\ Init
  /\ known = Registered
  /\ credentials = {}
  /\ regPc = [g \in Registrations |-> "new"]
  /\ place = [g \in Registrations |-> [workspace |-> 1, skill |-> 1]]
  /\ entry = InitialScore
  /\ earlier = [g \in Registrations |-> {}]

RegistryNext == ContractStep \/ \E g \in Registrations : RegistrationStep(g)

RegistrySpec == RegistryInit /\ [][RegistryNext]_registryVars

----------------------------------------------------------------------------
(* Properties                                                              *)

CredentialRow == [by: Registrations, at: [workspace: Nat, skill: Nat],
                  agent: Agents, domain: Domains]

RegistryTypeOK ==
  /\ TypeOK
  /\ known \subseteq Agents
  /\ credentials \subseteq CredentialRow
  /\ regPc \in [Registrations -> RegStatement \union {"new", "done", "failed"}]
  /\ place \in [Registrations -> [workspace: Nat \ {0}, skill: Nat \ {0}]]
  /\ entry \in [Agents -> 0..100]
  /\ earlier \in [Registrations -> SUBSET Registrations]
  /\ \A g \in Registrations : place[g].workspace <= Len(BatchOf[g])
  /\ \A g \in Registrations :
       regPc[g] \in {"find", "create"} => place[g].skill <= Len(WorkspaceOf(g).skills)

\* The loop has left skill s of workspace w behind.
Passed(g, w, s) ==
  \/ w < place[g].workspace
  \/ w = place[g].workspace /\ s < place[g].skill

(* A registration has issued, or found, a credential for every skill it    *)
(* has passed, whatever other registrations did in between; so one that    *)
(* answers 201 leaves no skill out, and one that failed can be repeated.   *)
PassedSkillsAreHeld == \A g \in Registrations : \A w \in 1..Len(BatchOf[g]) :
  \A s \in 1..Len(BatchOf[g][w].skills) :
    Passed(g, w, s) => Held(BatchOf[g][w].agent, Domain[BatchOf[g][w].skills[s]]) # {}

(* The look-up and the insert are two statements, so a credential can be   *)
(* issued twice, but only by two registrations that overlapped: repeating  *)
(* one that is over, done or failed, issues nothing again, nor do two      *)
(* skills of one domain in one body.                                       *)
DuplicatesOnlyFromOverlap == \A k, l \in credentials :
  k.agent = l.agent /\ k.domain = l.domain /\ k # l =>
    k.by # l.by /\ k.by \notin earlier[l.by] /\ l.by \notin earlier[k.by]

(* Registering again launders no reputation: a score is never above the    *)
(* one its agent came in with and never below it by more than the penalties*)
(* that were applied, also when an upsert falls between the read and the   *)
(* write of a penalty.                                                     *)
EntryScoreStands == \A a \in known :
  entry[a] - charged[a] <= agent[a].score /\ agent[a].score <= entry[a]

TrippedYetActive(row) == row.active /\ row.score < circuitBreakerThreshold

(* Only the registration of an active workspace makes an agent below the   *)
(* circuit breaker's threshold active; no interleaving of penalties and    *)
(* registrations does it otherwise.                                        *)
OnlyRegistrationRevives ==
  [][\A a \in Agents : TrippedYetActive(agent'[a]) /\ ~TrippedYetActive(agent[a]) =>
       \E g \in Registrations :
         regPc[g] = "upsert" /\ Holder(g) = a /\ WorkspaceOf(g).active]_agent

============================================================================
