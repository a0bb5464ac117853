------------------------ MODULE AgentRegistryProofs ------------------------
(***************************************************************************)
(* Proofs about AgentRegistry, for any number of registrations, workspaces *)
(* and skills next to any number of contract requests.                     *)
(***************************************************************************)
EXTENDS AgentRegistry, ContractServiceProofs

----------------------------------------------------------------------------
(* Types                                                                   *)

SkillsOf(g, w) == BatchOf[g][w].skills

LEMMA BatchTypes ==
  ASSUME NEW g \in Registrations, NEW w \in 1..Len(BatchOf[g])
  PROVE  /\ BatchOf[g][w].agent \in Agents
         /\ BatchOf[g][w].active \in BOOLEAN
         /\ Len(SkillsOf(g, w)) \in Nat
         /\ \A s \in 1..Len(SkillsOf(g, w)) : Domain[SkillsOf(g, w)[s]] \in Domains
<1>1. BatchOf[g] \in Seq(Workspace)
  BY RegistryAssumption
<1>2. BatchOf[g][w] \in Workspace
  BY <1>1
<1>3. SkillsOf(g, w) \in Seq(Skills)
  BY <1>2 DEF Workspace, SkillsOf
<1>4. \A s \in 1..Len(SkillsOf(g, w)) : SkillsOf(g, w)[s] \in Skills
  BY <1>3
<1>5. QED
  BY <1>2, <1>3, <1>4, RegistryAssumption DEF Workspace

LEMMA InitRegistryTypeOK == RegistryInit => RegistryTypeOK
<1> SUFFICES ASSUME RegistryInit PROVE RegistryTypeOK
  OBVIOUS
<1>1. TypeOK
  BY InitTypeOK DEF RegistryInit
<1>2. \A g \in Registrations : 1 <= Len(BatchOf[g])
  <2> TAKE g \in Registrations
  <2>1. BatchOf[g] \in Seq(Workspace) /\ BatchOf[g] # <<>>
    BY RegistryAssumption
  <2>2. QED
    BY <2>1
<1>3. entry \in [Agents -> 0..100]
  BY ConstantsAssumption DEF RegistryInit
<1>4. QED
  BY <1>1, <1>2, <1>3, RegistryAssumption DEF RegistryInit, RegistryTypeOK

\* Where Resume leads to, and that it stays within the body of the request.
LEMMA ResumeLeads ==
  ASSUME RegistryTypeOK, NEW g \in Registrations, NEW w \in 1..Len(BatchOf[g]),
         NEW s \in Nat \ {0}, Resume(g, w, s)
  PROVE  \E p \in {"find", "upsert", "done"}, v \in 1..Len(BatchOf[g]), t \in Nat \ {0} :
           /\ regPc' = [regPc EXCEPT ![g] = p]
           /\ place' = [place EXCEPT ![g] = [workspace |-> v, skill |-> t]]
           /\ p = "find" => t <= Len(SkillsOf(g, v))
           /\ \/ v = w /\ t = s
              \/ v = w + 1 /\ t = 1 /\ s > Len(SkillsOf(g, w))
<1>1. Len(BatchOf[g]) \in Nat /\ Len(SkillsOf(g, w)) \in Nat
  BY BatchTypes, RegistryAssumption
<1>2. CASE s <= Len(SkillsOf(g, w))
  BY <1>1, <1>2 DEF Resume, SkillsOf
<1>3. CASE s > Len(SkillsOf(g, w)) /\ w < Len(BatchOf[g])
  <2>1. w + 1 \in 1..Len(BatchOf[g]) /\ 1 \in Nat \ {0}
    BY <1>1, <1>3
  <2>2. /\ regPc' = [regPc EXCEPT ![g] = "upsert"]
        /\ place' = [place EXCEPT ![g] = [workspace |-> w + 1, skill |-> 1]]
    BY <1>1, <1>3 DEF Resume, SkillsOf
  <2>3. QED
    BY <1>3, <2>1, <2>2
<1>4. CASE s > Len(SkillsOf(g, w)) /\ w = Len(BatchOf[g])
  <2>1. /\ regPc' = [regPc EXCEPT ![g] = "done"]
        /\ place' = [place EXCEPT ![g] = [workspace |-> w, skill |-> s]]
    BY <1>1, <1>4 DEF Resume, SkillsOf
  <2>2. QED
    BY <1>4, <2>1
<1>5. QED
  BY <1>1, <1>2, <1>3, <1>4

LEMMA ResumeInsertsNothing ==
  ASSUME RegistryTypeOK, NEW g \in Registrations, NEW w \in 1..Len(BatchOf[g]),
         NEW s \in Nat \ {0}, Resume(g, w, s)
  PROVE  regPc'[g] # "create"
<1>1. PICK p \in {"find", "upsert", "done"}, v \in 1..Len(BatchOf[g]), t \in Nat \ {0} :
           /\ regPc' = [regPc EXCEPT ![g] = p]
           /\ place' = [place EXCEPT ![g] = [workspace |-> v, skill |-> t]]
           /\ p = "find" => t <= Len(SkillsOf(g, v))
           /\ \/ v = w /\ t = s
              \/ v = w + 1 /\ t = 1 /\ s > Len(SkillsOf(g, w))
  BY ResumeLeads
<1>2. QED
  BY <1>1 DEF RegistryTypeOK

\* The part of the type invariant that the cursor of a registration is in.
CursorOK ==
  /\ regPc \in [Registrations -> RegStatement \union {"new", "done", "failed"}]
  /\ place \in [Registrations -> [workspace: Nat \ {0}, skill: Nat \ {0}]]
  /\ \A g \in Registrations : place[g].workspace <= Len(BatchOf[g])
  /\ \A g \in Registrations :
       regPc[g] \in {"find", "create"} => place[g].skill <= Len(WorkspaceOf(g).skills)

LEMMA ResumeCursor ==
  ASSUME RegistryTypeOK, NEW g \in Registrations, NEW w \in 1..Len(BatchOf[g]),
         NEW s \in Nat \ {0}, Resume(g, w, s)
  PROVE  CursorOK'
<1>1. PICK p \in {"find", "upsert", "done"}, v \in 1..Len(BatchOf[g]), t \in Nat \ {0} :
           /\ regPc' = [regPc EXCEPT ![g] = p]
           /\ place' = [place EXCEPT ![g] = [workspace |-> v, skill |-> t]]
           /\ p = "find" => t <= Len(SkillsOf(g, v))
           /\ \/ v = w /\ t = s
              \/ v = w + 1 /\ t = 1 /\ s > Len(SkillsOf(g, w))
  BY ResumeLeads
<1>2. v \in Nat \ {0} /\ v <= Len(BatchOf[g])
  BY RegistryAssumption
<1>3. QED
  BY <1>1, <1>2 DEF RegistryTypeOK, CursorOK, RegStatement, WorkspaceOf, SkillsOf

LEMMA CursorWithin ==
  ASSUME RegistryTypeOK, NEW g \in Registrations
  PROVE  /\ place[g].workspace \in 1..Len(BatchOf[g])
         /\ place[g].skill \in Nat \ {0} /\ place[g].skill + 1 \in Nat \ {0}
         /\ Holder(g) \in Agents /\ WorkspaceOf(g).active \in BOOLEAN
         /\ regPc[g] \in {"find", "create"} => SkillDomain(g) \in Domains
<1>1. /\ place[g] \in [workspace: Nat \ {0}, skill: Nat \ {0}]
      /\ place[g].workspace <= Len(BatchOf[g]) /\ Len(BatchOf[g]) \in Nat
  BY RegistryAssumption DEF RegistryTypeOK
<1>2. place[g].workspace \in 1..Len(BatchOf[g]) /\ place[g].skill \in Nat \ {0}
  BY <1>1
<1>3. Holder(g) \in Agents /\ WorkspaceOf(g).active \in BOOLEAN
  BY <1>2, BatchTypes DEF Holder, WorkspaceOf
<1>4. ASSUME regPc[g] \in {"find", "create"} PROVE SkillDomain(g) \in Domains
  <2>1. place[g].skill \in 1..Len(SkillsOf(g, place[g].workspace))
    BY <1>2, <1>4, BatchTypes DEF RegistryTypeOK, WorkspaceOf, SkillsOf
  <2>2. QED
    BY <1>2, <2>1, BatchTypes DEF SkillDomain, WorkspaceOf, SkillsOf
<1>5. QED
  BY <1>2, <1>3, <1>4

LEMMA ContractStepIsNext == ContractStep => Next /\ UNCHANGED regVars
<1> SUFFICES ASSUME ContractStep PROVE Next /\ UNCHANGED regVars
  OBVIOUS
<1>1. PICK r \in Requests :
        \/ \E op \in Operation, c \in Contracts : \E severity \in Severable(op) :
             RoomToStart /\ AgentOf[c] \in known /\ Begin(r, op, c, severity)
        \/ Step(r)
        \/ Fail(r)
  BY DEF ContractStep
<1>2. Next
  BY <1>1 DEF Next
<1>3. QED
  BY <1>2 DEF ContractStep

LEMMA NextRegistryTypeOK == RegistryTypeOK /\ [RegistryNext]_registryVars => RegistryTypeOK'
<1> SUFFICES ASSUME RegistryTypeOK, [RegistryNext]_registryVars PROVE RegistryTypeOK'
  OBVIOUS
<1>0. TypeOK /\ CursorOK
  BY DEF RegistryTypeOK, CursorOK
<1>1. CASE ContractStep
  <2>1. TypeOK'
    BY <1>0, <1>1, ContractStepIsNext, NextTypeOK
  <2>2. UNCHANGED regVars
    BY <1>1, ContractStepIsNext
  <2>3. QED
    BY <2>1, <2>2 DEF RegistryTypeOK, regVars, WorkspaceOf
<1>2. ASSUME NEW g \in Registrations, BeginRegistration(g) \/ FailRegistration(g)
      PROVE  RegistryTypeOK'
  <2>1. TypeOK'
    BY <1>0, <1>2, NextTypeOK DEF BeginRegistration, FailRegistration
  <2>2. CursorOK'
    BY <1>0, <1>2 DEF BeginRegistration, FailRegistration, CursorOK, RegStatement, WorkspaceOf
  <2>3. earlier' \in [Registrations -> SUBSET Registrations]
    BY <1>2 DEF RegistryTypeOK, BeginRegistration, FailRegistration, Over
  <2>4. QED
    BY <1>2, <2>1, <2>2, <2>3
       DEF RegistryTypeOK, CursorOK, BeginRegistration, FailRegistration
<1>3. ASSUME NEW g \in Registrations, Upsert(g)
      PROVE  RegistryTypeOK'
  <2>1. Holder(g) \in Agents /\ WorkspaceOf(g).active \in BOOLEAN
    BY CursorWithin
  <2>2. agent' \in [Agents -> AgentRow]
    <3>1. agent[Holder(g)] \in AgentRow
      BY <1>0, <2>1 DEF TypeOK
    <3>2. Updated(g) \in AgentRow
      BY <2>1, <3>1 DEF Updated, AgentRow
    <3>3. [score |-> DefaultScore[g], active |-> WorkspaceOf(g).active] \in AgentRow
      BY <2>1, RegistryAssumption DEF AgentRow
    <3>4. QED
      BY <1>0, <1>3, <3>2, <3>3 DEF Upsert, TypeOK
  <2>3. TypeOK'
    BY <1>0, <1>3, <2>2 DEF Upsert, TypeOK, Admitted, InFlight, HandlerOf
  <2>4. CursorOK'
    BY <1>3, CursorWithin, ResumeCursor DEF Upsert
  <2>5. entry' \in [Agents -> 0..100]
    BY <1>3, RegistryAssumption DEF Upsert, RegistryTypeOK
  <2>6. QED
    BY <1>3, <2>1, <2>3, <2>4, <2>5 DEF Upsert, RegistryTypeOK, CursorOK
<1>4. ASSUME NEW g \in Registrations, FindCredential(g)
      PROVE  RegistryTypeOK'
  <2>1. TypeOK'
    BY <1>0, <1>4, NextTypeOK DEF FindCredential
  <2>2. CursorOK'
    <3>1. CASE NextSkill(g)
      BY <3>1, CursorWithin, ResumeCursor DEF NextSkill
    <3>2. CASE ~NextSkill(g)
      BY <1>0, <1>4, <3>2 DEF FindCredential, CursorOK, RegStatement, WorkspaceOf
    <3>3. QED
      BY <3>1, <3>2
  <2>3. QED
    BY <1>4, <2>1, <2>2 DEF RegistryTypeOK, CursorOK, FindCredential
<1>5. ASSUME NEW g \in Registrations, CreateCredential(g)
      PROVE  RegistryTypeOK'
  <2>1. TypeOK'
    BY <1>0, <1>5, NextTypeOK DEF CreateCredential
  <2>2. CursorOK'
    BY <1>5, CursorWithin, ResumeCursor DEF CreateCredential, NextSkill
  <2>3. /\ place[g] \in [workspace: Nat, skill: Nat]
        /\ Holder(g) \in Agents /\ SkillDomain(g) \in Domains
    BY <1>5, CursorWithin DEF CreateCredential, RegistryTypeOK
  <2>4. credentials' \subseteq CredentialRow
    BY <1>5, <2>3 DEF CreateCredential, CredentialRow, RegistryTypeOK
  <2>5. QED
    BY <1>5, <2>1, <2>2, <2>4 DEF RegistryTypeOK, CursorOK, CreateCredential
<1>6. CASE UNCHANGED registryVars
  <2>1. TypeOK'
    BY <1>0, <1>6, NextTypeOK DEF registryVars
  <2>2. QED
    BY <1>6, <2>1 DEF RegistryTypeOK, registryVars, regVars, WorkspaceOf
<1>7. QED
  BY <1>1, <1>2, <1>3, <1>4, <1>5, <1>6 DEF RegistryNext, RegistrationStep

\* Types of the registry next to those of the contract service; the cursor
\* of a registration stays within its body.
THEOREM RegistryTypeCorrect == RegistrySpec => []RegistryTypeOK
<1>1. QED
  BY InitRegistryTypeOK, NextRegistryTypeOK, PTL DEF RegistrySpec

----------------------------------------------------------------------------
(* The inductive invariant.  An issuer has begun; what was over when a     *)
(* registration began stays over; and who is about to insert has seen that *)
(* nothing issued before it began is in the way.                           *)

IssuersBegan == \A k \in credentials : regPc[k.by] # "new"
EarlierIsOver == \A g \in Registrations : earlier[g] \subseteq Over
InsertsKnowingly == \A g \in Registrations : regPc[g] = "create" =>
  \A k \in Held(Holder(g), SkillDomain(g)) : k.by # g /\ k.by \notin earlier[g]

RegistryInv ==
  /\ IssuersBegan /\ EarlierIsOver /\ InsertsKnowingly
  /\ PassedSkillsAreHeld /\ DuplicatesOnlyFromOverlap

LEMMA InitRegistryInv == RegistryInit => RegistryInv
<1> SUFFICES ASSUME RegistryInit PROVE RegistryInv
  OBVIOUS
<1>1. /\ credentials = {}
      /\ \A g \in Registrations : regPc[g] = "new" /\ place[g] = [workspace |-> 1, skill |-> 1]
                                /\ earlier[g] = {}
  BY DEF RegistryInit
<1>2. PassedSkillsAreHeld
  BY <1>1 DEF PassedSkillsAreHeld, Passed
<1>3. QED
  BY <1>1, <1>2 DEF RegistryInv, IssuersBegan, EarlierIsOver, InsertsKnowingly,
                    DuplicatesOnlyFromOverlap

\* What all steps of a registration under way have in common: it moves from
\* one of its statements on, and the other registrations stay where they are.
Moves(g) ==
  /\ g \in Registering /\ UNCHANGED earlier
  /\ \E p \in RegStatement \union {"done", "failed"} : regPc' = [regPc EXCEPT ![g] = p]
  /\ \A h \in Registrations \ {g} : place'[h] = place[h]

LEMMA StepMoves ==
  ASSUME RegistryTypeOK, NEW g \in Registrations,
         Upsert(g) \/ FindCredential(g) \/ CreateCredential(g) \/ FailRegistration(g)
  PROVE  Moves(g)
<1>1. ASSUME NEW s \in Nat \ {0}, Resume(g, place[g].workspace, s)
      PROVE  /\ \E p \in RegStatement \union {"done"} : regPc' = [regPc EXCEPT ![g] = p]
             /\ \A h \in Registrations \ {g} : place'[h] = place[h]
  <2>1. PICK p \in {"find", "upsert", "done"}, v \in 1..Len(BatchOf[g]), t \in Nat \ {0} :
           /\ regPc' = [regPc EXCEPT ![g] = p]
           /\ place' = [place EXCEPT ![g] = [workspace |-> v, skill |-> t]]
           /\ p = "find" => t <= Len(SkillsOf(g, v))
           /\ \/ v = place[g].workspace /\ t = s
              \/ v = place[g].workspace + 1 /\ t = 1 /\ s > Len(SkillsOf(g, place[g].workspace))
    BY <1>1, CursorWithin, ResumeLeads
  <2>2. QED
    BY <2>1 DEF RegistryTypeOK, RegStatement
<1>2. CASE Upsert(g)
  BY <1>1, <1>2 DEF Upsert, Moves, Registering, RegStatement
<1>3. CASE FindCredential(g)
  <2>1. CASE NextSkill(g)
    BY <1>1, <1>3, <2>1, CursorWithin DEF FindCredential, NextSkill, Moves, Registering, RegStatement
  <2>2. CASE ~NextSkill(g)
    BY <1>3, <2>2 DEF FindCredential, Moves, Registering, RegStatement
  <2>3. QED
    BY <2>1, <2>2
<1>4. CASE CreateCredential(g)
  BY <1>1, <1>4, CursorWithin DEF CreateCredential, NextSkill, Moves, Registering, RegStatement
<1>5. CASE FailRegistration(g)
  BY <1>5 DEF FailRegistration, Moves
<1>6. QED
  BY <1>2, <1>3, <1>4, <1>5

\* Over registrations stay over, and earlier[] with them.
LEMMA OverStays ==
  ASSUME RegistryTypeOK, RegistryInv, NEW g \in Registrations, Moves(g)
  PROVE  EarlierIsOver' /\ \A h \in Registrations : g \notin earlier[h]
  BY DEF Moves, Over, Registering, RegStatement, RegistryTypeOK, RegistryInv, EarlierIsOver

\* A step that goes on to skill s leaves nothing behind but the skill it was
\* at and what it had left behind before.
LEMMA ResumePasses ==
  ASSUME RegistryTypeOK, NEW g \in Registrations, NEW s \in Nat \ {0},
         Resume(g, place[g].workspace, s),
         NEW w \in 1..Len(BatchOf[g]), NEW t \in 1..Len(SkillsOf(g, w)),
         Passed(g, w, t)'
  PROVE  w < place[g].workspace \/ (w = place[g].workspace /\ t < s)
<1>1. PICK p \in {"find", "upsert", "done"}, v \in 1..Len(BatchOf[g]), u \in Nat \ {0} :
           /\ regPc' = [regPc EXCEPT ![g] = p]
           /\ place' = [place EXCEPT ![g] = [workspace |-> v, skill |-> u]]
           /\ p = "find" => u <= Len(SkillsOf(g, v))
           /\ \/ v = place[g].workspace /\ u = s
              \/ v = place[g].workspace + 1 /\ u = 1 /\ s > Len(SkillsOf(g, place[g].workspace))
  BY CursorWithin, ResumeLeads
<1>2. place'[g] = [workspace |-> v, skill |-> u]
  BY <1>1 DEF RegistryTypeOK
<1>3. w < v \/ (w = v /\ t < u)
  BY <1>2 DEF Passed
<1>4. place[g].workspace \in Nat /\ Len(SkillsOf(g, w)) \in Nat
  BY CursorWithin, BatchTypes, RegistryAssumption
<1>5. CASE v = place[g].workspace /\ u = s
  BY <1>3, <1>5
<1>6. CASE v = place[g].workspace + 1 /\ u = 1 /\ s > Len(SkillsOf(g, place[g].workspace))
  <2>1. w < place[g].workspace + 1
    BY <1>3, <1>6
  <2>2. ASSUME w = place[g].workspace PROVE t < s
    BY <1>4, <1>6, <2>2
  <2>3. QED
    BY <1>4, <2>1, <2>2
<1>7. QED
  BY <1>1, <1>5, <1>6

\* PassedSkillsAreHeld, for one registration.
PassedAreHeld(g) == \A w \in 1..Len(BatchOf[g]) : \A t \in 1..Len(SkillsOf(g, w)) :
  Passed(g, w, t) => Held(BatchOf[g][w].agent, Domain[SkillsOf(g, w)[t]]) # {}

LEMMA PassedOneByOne == PassedSkillsAreHeld <=> \A g \in Registrations : PassedAreHeld(g)
  BY DEF PassedSkillsAreHeld, PassedAreHeld, SkillsOf

\* Credentials are never deleted, so what was held is held, and a cursor that
\* stands still has passed what it had passed.
LEMMA StandingKeepsHeld ==
  ASSUME NEW g \in Registrations, PassedAreHeld(g),
         place'[g] = place[g], credentials \subseteq credentials'
  PROVE  PassedAreHeld(g)'
  BY DEF PassedAreHeld, Passed, Held

LEMMA ResumeKeepsHeld ==
  ASSUME RegistryTypeOK, NEW g \in Registrations, NEW s \in Nat \ {0},
         Resume(g, place[g].workspace, s),
         PassedAreHeld(g), credentials \subseteq credentials',
         \/ s <= place[g].skill
         \/ /\ s = place[g].skill + 1
            /\ \E k \in credentials' : k.agent = Holder(g) /\ k.domain = SkillDomain(g)
  PROVE  PassedAreHeld(g)'
<1> SUFFICES ASSUME NEW w \in 1..Len(BatchOf[g]), NEW t \in 1..Len(SkillsOf(g, w)),
                    Passed(g, w, t)'
             PROVE  Held(BatchOf[g][w].agent, Domain[SkillsOf(g, w)[t]])' # {}
  BY DEF PassedAreHeld, SkillsOf
<1>1. w < place[g].workspace \/ (w = place[g].workspace /\ t < s)
  BY ResumePasses
<1>2. CASE Passed(g, w, t)
  BY <1>2 DEF PassedAreHeld, Held
<1>3. CASE ~Passed(g, w, t)
  <2>1. w = place[g].workspace /\ t = place[g].skill /\ s = place[g].skill + 1
    <3>1. w = place[g].workspace /\ t < s /\ ~(t < place[g].skill)
      BY <1>1, <1>3 DEF Passed
    <3>2. t \in Nat /\ place[g].skill \in Nat
      BY CursorWithin, BatchTypes
    <3>3. s <= place[g].skill \/ s = place[g].skill + 1
      OBVIOUS
    <3>4. QED
      BY <3>1, <3>2, <3>3
  <2>2. ~(s <= place[g].skill)
    BY <2>1, CursorWithin
  <2>3. Holder(g) = BatchOf[g][w].agent /\ SkillDomain(g) = Domain[SkillsOf(g, w)[t]]
    BY <2>1 DEF Holder, SkillDomain, WorkspaceOf, SkillsOf
  <2>4. QED
    BY <2>2, <2>3 DEF Held
<1>4. QED
  BY <1>2, <1>3

LEMMA NextPassedAreHeld ==
  ASSUME RegistryTypeOK, RegistryInv, [RegistryNext]_registryVars
  PROVE  PassedSkillsAreHeld'
<1> SUFFICES ASSUME NEW h \in Registrations PROVE PassedAreHeld(h)'
  BY DEF PassedSkillsAreHeld, PassedAreHeld, SkillsOf
<1>0. PassedAreHeld(h)
  BY PassedOneByOne DEF RegistryInv
<1>1. CASE ContractStep \/ UNCHANGED registryVars
  <2>1. place'[h] = place[h] /\ credentials \subseteq credentials'
    BY <1>1, ContractStepIsNext DEF regVars, registryVars
  <2>2. QED
    BY <1>0, <2>1, StandingKeepsHeld
<1>2. ASSUME NEW g \in Registrations, BeginRegistration(g) \/ FailRegistration(g)
      PROVE  PassedAreHeld(h)'
  <2>1. place'[h] = place[h] /\ credentials \subseteq credentials'
    BY <1>2 DEF BeginRegistration, FailRegistration
  <2>2. QED
    BY <1>0, <2>1, StandingKeepsHeld
<1>3. ASSUME NEW g \in Registrations, Upsert(g) \/ FindCredential(g) \/ CreateCredential(g)
      PROVE  PassedAreHeld(h)'
  <2>1. credentials \subseteq credentials' /\ Moves(g)
    BY <1>3, StepMoves DEF Upsert, FindCredential, CreateCredential
  <2>2. CASE h # g \/ place'[h] = place[h]
    <3>1. place'[h] = place[h]
      BY <2>1, <2>2 DEF Moves
    <3>2. QED
      BY <1>0, <2>1, <3>1, StandingKeepsHeld
  <2>3. CASE h = g /\ Upsert(g)
    <3>1. Resume(g, place[g].workspace, 1) /\ 1 <= place[g].skill /\ 1 \in Nat \ {0}
      BY <2>3, CursorWithin DEF Upsert
    <3>2. QED
      BY <1>0, <2>1, <2>3, <3>1, ResumeKeepsHeld
  <2>4. CASE h = g /\ FindCredential(g) /\ place'[g] # place[g]
    <3>1. NextSkill(g) /\ Held(Holder(g), SkillDomain(g)) # {}
      BY <2>4 DEF FindCredential
    <3>2. \E k \in credentials' : k.agent = Holder(g) /\ k.domain = SkillDomain(g)
      BY <2>1, <3>1 DEF Held
    <3>3. QED
      BY <1>0, <2>1, <2>4, <3>1, <3>2, CursorWithin, ResumeKeepsHeld DEF NextSkill
  <2>5. CASE h = g /\ CreateCredential(g)
    <3>1. [by |-> g, at |-> place[g], agent |-> Holder(g), domain |-> SkillDomain(g)]
            \in credentials'
      BY <2>5 DEF CreateCredential
    <3>2. \E k \in credentials' : k.agent = Holder(g) /\ k.domain = SkillDomain(g)
      BY <3>1
    <3>3. QED
      BY <1>0, <2>1, <2>5, <3>2, CursorWithin, ResumeKeepsHeld DEF CreateCredential, NextSkill
  <2>6. QED
    BY <1>3, <2>2, <2>3, <2>4, <2>5
<1>4. QED
  BY <1>1, <1>2, <1>3 DEF RegistryNext, RegistrationStep

\* The record of who overlapped whom: the rest of the invariant.
OverlapInv == IssuersBegan /\ EarlierIsOver /\ InsertsKnowingly /\ DuplicatesOnlyFromOverlap

LEMMA NextOverlapInv ==
  ASSUME RegistryTypeOK, RegistryInv, [RegistryNext]_registryVars
  PROVE  OverlapInv'
<1> USE DEF OverlapInv
<1>0. OverlapInv
  BY DEF RegistryInv
<1>1. CASE ContractStep \/ UNCHANGED registryVars
  <2>1. UNCHANGED regVars
    BY <1>1, ContractStepIsNext DEF registryVars
  <2>2. QED
    BY <1>0, <2>1 DEF regVars, IssuersBegan, EarlierIsOver, InsertsKnowingly, Over, Held,
                      Holder, SkillDomain, WorkspaceOf, DuplicatesOnlyFromOverlap
<1>2. ASSUME NEW g \in Registrations, BeginRegistration(g)
      PROVE  OverlapInv'
  <2>1. /\ regPc[g] = "new" /\ regPc' = [regPc EXCEPT ![g] = "upsert"]
        /\ earlier' = [earlier EXCEPT ![g] = Over] /\ UNCHANGED <<credentials, place>>
    BY <1>2 DEF BeginRegistration
  <2>2. IssuersBegan'
    BY <1>0, <2>1 DEF IssuersBegan, RegistryTypeOK
  <2>3. Over' = Over
    BY <2>1 DEF Over, RegistryTypeOK
  <2>4. EarlierIsOver'
    BY <1>0, <2>1, <2>3 DEF EarlierIsOver, RegistryTypeOK
  <2>5. InsertsKnowingly'
    BY <1>0, <2>1 DEF InsertsKnowingly, RegistryTypeOK, Held, Holder, SkillDomain, WorkspaceOf
  <2>6. \A k \in credentials : k.by # g
    BY <1>0, <2>1 DEF IssuersBegan
  <2>7. \A k \in credentials : k.by \in Registrations
    BY DEF RegistryTypeOK, CredentialRow
  <2>8. DuplicatesOnlyFromOverlap'
    BY <1>0, <2>1, <2>6, <2>7 DEF DuplicatesOnlyFromOverlap, RegistryTypeOK
  <2>9. QED
    BY <2>2, <2>4, <2>5, <2>8
<1>3. ASSUME NEW g \in Registrations, Upsert(g) \/ FindCredential(g) \/ FailRegistration(g)
      PROVE  OverlapInv'
  <2>1. Moves(g) /\ UNCHANGED credentials
    BY <1>3, StepMoves DEF Upsert, FindCredential, FailRegistration
  <2>2. IssuersBegan'
    BY <1>0, <2>1 DEF IssuersBegan, RegistryTypeOK, Moves, RegStatement
  <2>3. EarlierIsOver'
    BY <2>1, OverStays
  <2>4. DuplicatesOnlyFromOverlap'
    BY <1>0, <2>1 DEF DuplicatesOnlyFromOverlap, Moves
  <2>5. ASSUME NEW h \in Registrations \ {g}, regPc'[h] = "create",
               NEW k \in Held(Holder(h), SkillDomain(h))'
        PROVE  k.by # h /\ k.by \notin earlier'[h]
    BY <1>0, <2>1, <2>5
       DEF Moves, InsertsKnowingly, RegistryTypeOK, Held, Holder, SkillDomain, WorkspaceOf
  <2>6. ASSUME regPc'[g] = "create", NEW k \in Held(Holder(g), SkillDomain(g))'
        PROVE  FALSE
    <3>1. ~Upsert(g) /\ ~FailRegistration(g) /\ ~(FindCredential(g) /\ NextSkill(g))
      <4>1. ~Resume(g, place[g].workspace, 1)
        BY <2>6, CursorWithin, ResumeInsertsNothing
      <4>2. ~NextSkill(g)
        BY <2>6, CursorWithin, ResumeInsertsNothing DEF NextSkill
      <4>3. ~FailRegistration(g)
        BY <2>6 DEF FailRegistration, RegistryTypeOK
      <4>4. QED
        BY <4>1, <4>2, <4>3 DEF Upsert
    <3>2. UNCHANGED place /\ Held(Holder(g), SkillDomain(g)) = {}
      BY <1>3, <3>1 DEF FindCredential
    <3>3. QED
      BY <2>1, <2>6, <3>2 DEF Held, Holder, SkillDomain, WorkspaceOf
  <2>7. InsertsKnowingly'
    BY <2>5, <2>6 DEF InsertsKnowingly
  <2>8. QED
    BY <2>2, <2>3, <2>4, <2>7
<1>4. ASSUME NEW g \in Registrations, CreateCredential(g)
      PROVE  OverlapInv'
  <2> DEFINE row == [by |-> g, at |-> place[g], agent |-> Holder(g), domain |-> SkillDomain(g)]
  <2>1. Moves(g) /\ credentials' = credentials \union {row}
    BY <1>4, StepMoves DEF CreateCredential
  <2>2. regPc[g] = "create" /\ regPc'[g] # "create"
    BY <1>4, CursorWithin, ResumeInsertsNothing DEF CreateCredential, NextSkill
  <2>3. IssuersBegan'
    BY <1>0, <2>1 DEF IssuersBegan, RegistryTypeOK, Moves, RegStatement
  <2>4. EarlierIsOver' /\ \A h \in Registrations : g \notin earlier[h]
    BY <2>1, OverStays
  <2>5. InsertsKnowingly'
    <3> SUFFICES ASSUME NEW h \in Registrations \ {g}, regPc'[h] = "create",
                        NEW k \in Held(Holder(h), SkillDomain(h))'
                 PROVE  k.by # h /\ k.by \notin earlier'[h]
      BY <2>2 DEF InsertsKnowingly
    <3>1. CASE k = row
      BY <2>1, <2>4, <3>1 DEF Moves
    <3>2. CASE k # row
      BY <1>0, <2>1, <3>2
         DEF Moves, InsertsKnowingly, RegistryTypeOK, Held, Holder, SkillDomain, WorkspaceOf
    <3>3. QED
      BY <3>1, <3>2
  <2>6. ASSUME NEW k \in credentials, k.agent = row.agent, k.domain = row.domain
        PROVE  k.by # g /\ k.by \notin earlier[g] /\ g \notin earlier[k.by]
    <3>1. k \in Held(Holder(g), SkillDomain(g))
      BY <2>6 DEF Held
    <3>2. k.by \in Registrations
      BY DEF RegistryTypeOK, CredentialRow
    <3>3. QED
      BY <1>0, <2>2, <2>4, <3>1, <3>2 DEF InsertsKnowingly
  <2>7. DuplicatesOnlyFromOverlap'
    <3>1. UNCHANGED earlier
      BY <2>1 DEF Moves
    <3>2. row.by = g
      OBVIOUS
    <3> HIDE DEF row
    <3>3. QED
      BY <1>0, <2>1, <2>6, <3>1, <3>2 DEF DuplicatesOnlyFromOverlap
  <2>8. QED
    BY <2>3, <2>4, <2>5, <2>7
<1>5. QED
  BY <1>1, <1>2, <1>3, <1>4 DEF RegistryNext, RegistrationStep

LEMMA NextRegistryInv == RegistryTypeOK /\ RegistryInv /\ [RegistryNext]_registryVars => RegistryInv'
  BY NextPassedAreHeld, NextOverlapInv DEF RegistryInv, OverlapInv

THEOREM RegistryInvariant == RegistrySpec => []RegistryInv
<1>1. QED
  BY InitRegistryTypeOK, NextRegistryTypeOK, InitRegistryInv, NextRegistryInv, PTL DEF RegistrySpec

\* Every skill a registration has passed has its credential, for any number
\* of registrations, in any interleaving and whatever fails.
THEOREM RegistrationsLeaveNoSkillOut == RegistrySpec => []PassedSkillsAreHeld
<1>1. RegistryInv => PassedSkillsAreHeld
  BY DEF RegistryInv
<1>2. QED
  BY <1>1, RegistryInvariant, PTL

\* A credential is issued twice only by registrations that overlapped.
THEOREM RepeatedRegistrationsAddNothing == RegistrySpec => []DuplicatesOnlyFromOverlap
<1>1. RegistryInv => DuplicatesOnlyFromOverlap
  BY DEF RegistryInv
<1>2. QED
  BY <1>1, RegistryInvariant, PTL

----------------------------------------------------------------------------
(* The circuit breaker.                                                    *)

\* A penalty never leaves its agent active below the threshold.
LEMMA PenaltyTrips ==
  ASSUME TypeOK, NEW r \in Requests, WriteAgent(r)
  PROVE  \A a \in Agents : agent'[a] = agent[a] \/ ~TrippedYetActive(agent'[a])
<1> DEFINE new == NewScore(seen[r].score, ReputationImpact(call[r].severity))
<1>1. PICK deactivate \in BOOLEAN :
        /\ ShouldDeactivate(new, deactivate)
        /\ agent' = [agent EXCEPT ![DelegateeOf(r)] =
                       [score |-> new, active |-> ~deactivate /\ seen[r].active]]
  BY DEF WriteAgent
<1> HIDE DEF new
<1>2. ASSUME NEW a \in Agents, a = DelegateeOf(r)
      PROVE  ~TrippedYetActive(agent'[a])
  <2>1. agent'[a] = [score |-> new, active |-> ~deactivate /\ seen[r].active]
    BY <1>1, <1>2 DEF TypeOK
  <2>2. CASE new < circuitBreakerThreshold
    <3>1. deactivate
      BY <1>1, <2>2 DEF ShouldDeactivate
    <3>2. (~deactivate /\ seen[r].active) = FALSE
      BY <3>1
    <3>3. agent'[a] = [score |-> new, active |-> FALSE]
      BY <2>1, <3>2, Zenon
    <3>4. QED
      BY <3>3 DEF TrippedYetActive
  <2>3. CASE ~(new < circuitBreakerThreshold)
    BY <2>1, <2>3 DEF TrippedYetActive
  <2>4. QED
    BY <2>2, <2>3
<1>3. QED
  BY <1>1, <1>2 DEF TypeOK

\* Nothing in the contract service or in the interleaving of penalties with
\* registrations revives an agent below the threshold: only registering an
\* active workspace does.
THEOREM OnlyRegistrationsRevive == RegistrySpec => OnlyRegistrationRevives
<1> DEFINE Revived(a) == TrippedYetActive(agent'[a]) /\ ~TrippedYetActive(agent[a])
           Registers(a) == \E g \in Registrations :
                             regPc[g] = "upsert" /\ Holder(g) = a /\ WorkspaceOf(g).active
           Guarded == [\A a \in Agents : Revived(a) => Registers(a)]_agent
<1>1. RegistryTypeOK /\ [RegistryNext]_registryVars => Guarded
  <2> SUFFICES ASSUME RegistryTypeOK, [RegistryNext]_registryVars, NEW a \in Agents, Revived(a)
               PROVE  Registers(a)
    OBVIOUS
  <2>1. agent'[a] # agent[a]
    OBVIOUS
  <2>2. PICK g \in Registrations : Upsert(g)
    <3>1. ASSUME ContractStep PROVE FALSE
      <4>1. PICK r \in Requests : WriteAgent(r)
        BY <2>1, <3>1 DEF ContractStep, Begin, Fail, Step, WriteStatus, WriteTask, Grant,
                          RecordPenalty, RecordLedger, ReadAgent, Revoke, db
      <4>2. QED
        BY <2>1, <4>1, PenaltyTrips DEF RegistryTypeOK
    <3>2. ASSUME NEW g \in Registrations,
                 \/ BeginRegistration(g) \/ FindCredential(g)
                 \/ CreateCredential(g) \/ FailRegistration(g)
          PROVE  FALSE
      BY <2>1, <3>2 DEF BeginRegistration, FindCredential, CreateCredential, FailRegistration, vars
    <3>3. ~UNCHANGED registryVars
      BY <2>1 DEF registryVars, vars
    <3>4. QED
      BY <3>1, <3>2, <3>3 DEF RegistryNext, RegistrationStep
  <2>3. a = Holder(g)
    BY <2>1, <2>2 DEF Upsert, RegistryTypeOK, TypeOK
  <2>4. agent'[a].active = WorkspaceOf(g).active
    <3>1. agent[a] \in AgentRow
      BY DEF RegistryTypeOK, TypeOK
    <3>2. agent' = [agent EXCEPT ![a] =
            IF a \notin known THEN [score |-> DefaultScore[g], active |-> WorkspaceOf(g).active]
                              ELSE Updated(g)]
      BY <2>2, <2>3 DEF Upsert
    <3>3. Updated(g).active = WorkspaceOf(g).active
      BY <2>3, <3>1 DEF Updated, AgentRow
    <3>4. QED
      BY <3>2, <3>3 DEF RegistryTypeOK, TypeOK
  <2>5. WorkspaceOf(g).active
    BY <2>4 DEF TrippedYetActive
  <2>6. QED
    BY <2>2, <2>3, <2>5 DEF Upsert
<1>2. QED
  BY <1>1, RegistryTypeCorrect, PTL DEF RegistrySpec, OnlyRegistrationRevives

----------------------------------------------------------------------------
(* Scores.  Whoever is about to be charged is known, and what a breach     *)
(* report has read of it is within the bounds, which an upsert leaves as   *)
(* they are and a charge widens.                                           *)

WithinEntry(score, a) == entry[a] - charged[a] <= score /\ score <= entry[a]

ReadWithinEntry == \A r \in InFlight :
  /\ DelegateeOf(r) \in known
  /\ At(r, "writeAgent") => WithinEntry(seen[r].score, DelegateeOf(r))

EntryInv == EntryScoreStands /\ ReadWithinEntry

LEMMA InitEntryInv == RegistryInit => EntryInv
<1> SUFFICES ASSUME RegistryInit PROVE EntryInv
  OBVIOUS
<1>1. Init /\ entry = InitialScore /\ known \subseteq Agents
  BY RegistryAssumption DEF RegistryInit
<1>2. ReputationInv /\ InFlight = {}
  BY <1>1, InitReputationInv DEF Init, InFlight, Statement
<1>3. QED
  BY <1>1, <1>2 DEF EntryInv, EntryScoreStands, ReadWithinEntry, ReputationInv, ScoreWithinCharges

\* A penalty takes from what was read no more than it adds to the charges.
LEMMA PenaltyWithinEntry ==
  ASSUME RegistryTypeOK, EntryInv, NEW r \in Requests, WriteAgent(r), UNCHANGED regVars
  PROVE  EntryScoreStands' /\ \A a \in Agents : charged[a] \in Nat /\ charged'[a] \in Nat
                                               /\ charged[a] <= charged'[a]
<1> DEFINE d == DelegateeOf(r)
           impact == ReputationImpact(call[r].severity)
           new == NewScore(seen[r].score, impact)
           old == seen[r].score
<1>1. r \in InFlight /\ d \in Agents
  <2>1. r \in InFlight /\ Await(r) /\ call' = call
    BY DEF WriteAgent, At, InFlight, Statement
  <2>2. ContractOf(r) \in Contracts
    BY <2>1, AwaitType DEF RegistryTypeOK
  <2>3. QED
    BY <2>1, <2>2, ConstantsAssumption DEF DelegateeOf
<1>2. WithinEntry(old, d)
  BY <1>1 DEF EntryInv, ReadWithinEntry, WriteAgent
<1>3. /\ old \in 0..100 /\ impact \in 1..20 /\ charged[d] \in Nat /\ entry[d] \in 0..100
      /\ entry' = entry /\ known' = known
  BY <1>1, ImpactNat DEF RegistryTypeOK, TypeOK, AgentRow, regVars
<1>4. new \in 0..100 /\ new <= old /\ new >= old - impact
  BY <1>3, NewScoreRange
<1> HIDE DEF new, old, impact
<1>5. agent'[d].score = new /\ \A a \in Agents \ {d} : agent'[a] = agent[a]
  BY <1>1 DEF WriteAgent, RegistryTypeOK, TypeOK, new, old, impact
<1>6. charged' = [charged EXCEPT ![d] = @ + impact] /\ charged \in [Agents -> Nat]
  BY DEF WriteAgent, RegistryTypeOK, TypeOK, impact
<1>7. entry[d] - (charged[d] + impact) <= new /\ new <= entry[d]
  <2>1. entry[d] - charged[d] <= old /\ old <= entry[d]
    BY <1>2 DEF WithinEntry
  <2>2. /\ entry[d] \in Int /\ charged[d] \in Int /\ impact \in Int /\ old \in Int /\ new \in Int
        /\ new >= old - impact /\ new <= old
    BY <1>3, <1>4
  <2>3. entry[d] - (charged[d] + impact) <= new
    BY <2>1, <2>2, BoundsWiden
  <2>4. QED
    BY <2>1, <2>2, <2>3
<1>8. EntryScoreStands'
  <2> SUFFICES ASSUME NEW a \in known
               PROVE  (entry[a] - charged[a] <= agent[a].score /\ agent[a].score <= entry[a])'
    BY <1>3 DEF EntryScoreStands
  <2>1. a \in Agents
    BY DEF RegistryTypeOK
  <2>2. CASE a = d
    BY <1>1, <1>3, <1>5, <1>6, <1>7, <2>2
  <2>3. CASE a # d
    BY <1>3, <1>5, <1>6, <2>1, <2>3 DEF EntryInv, EntryScoreStands
  <2>4. QED
    BY <2>2, <2>3
<1>9. QED
  BY <1>3, <1>6, <1>8

LEMMA ContractStepKeepsEntry ==
  ASSUME RegistryTypeOK, EntryInv, ContractStep
  PROVE  EntryInv'
<1>1. entry' = entry /\ known' = known /\ TypeOK
  BY DEF ContractStep, regVars, RegistryTypeOK
<1>2. ASSUME NEW r \in Requests, NEW op \in Operation, NEW c \in Contracts,
             NEW severity \in Severable(op), AgentOf[c] \in known, Begin(r, op, c, severity)
      PROVE  EntryInv'
  <2>1. /\ db' = db /\ charged' = charged /\ seen' = seen /\ InFlight' \subseteq InFlight \union {r}
        /\ r \notin InFlight /\ (r \in InFlight' => pc'[r] = "status" /\ ContractOf(r)' = c)
    BY <1>1, <1>2 DEF Begin, InFlight, At, TypeOK, Statement, ContractOf
  <2>2. \A q \in InFlight : pc'[q] = pc[q] /\ DelegateeOf(q)' = DelegateeOf(q)
    BY <1>1, <1>2, <2>1, Frame DEF RequestStep, InFlight, DelegateeOf, ContractOf
  <2>3. EntryScoreStands'
    BY <1>1, <2>1 DEF EntryInv, EntryScoreStands, db
  <2>4. ReadWithinEntry'
    <3> SUFFICES ASSUME NEW q \in InFlight'
                 PROVE  /\ DelegateeOf(q)' \in known
                        /\ At(q, "writeAgent")' => WithinEntry(seen[q].score, DelegateeOf(q))'
      BY <1>1 DEF ReadWithinEntry
    <3>1. CASE q = r
      BY <1>2, <2>1, <3>1 DEF DelegateeOf, At
    <3>2. CASE q # r
      BY <1>1, <2>1, <2>2, <3>2 DEF EntryInv, ReadWithinEntry, WithinEntry, At
    <3>3. QED
      BY <3>1, <3>2
  <2>5. QED
    BY <2>3, <2>4 DEF EntryInv
<1>3. ASSUME NEW r \in Requests, Fail(r)
      PROVE  EntryInv'
  <2>1. /\ db' = db /\ charged' = charged /\ call' = call
        /\ pc' = [pc EXCEPT ![r] = "failed"] /\ \A q \in Requests \ {r} : seen'[q] = seen[q]
    BY <1>1, <1>3 DEF Fail, TypeOK
  <2>2. \A q \in InFlight' : q \in InFlight /\ pc'[q] = pc[q] /\ seen'[q] = seen[q]
    BY <1>1, <2>1 DEF InFlight, TypeOK, Statement
  <2>3. QED
    BY <1>1, <2>1, <2>2 DEF EntryInv, EntryScoreStands, ReadWithinEntry, WithinEntry, At, DelegateeOf,
                            ContractOf, db
<1>4. ASSUME NEW r \in Requests, Step(r)
      PROVE  EntryInv'
  <2>1. /\ r \in InFlight /\ call' = call /\ ContractOf(r) \in Contracts
        /\ call[r].op \in Operation /\ HandlerOf(r) = Handler[call[r].op]
        /\ pc[r] \in DOMAIN HandlerOf(r).next /\ pc'[r] = HandlerOf(r).next[pc[r]]
    BY <1>1, <1>4, StepGoesOn
  <2>2. \A q \in Requests : DelegateeOf(q)' = DelegateeOf(q)
    BY <2>1 DEF DelegateeOf, ContractOf
  <2>3. InFlight' \subseteq InFlight
    BY <1>1, <1>4, <2>1, StepGoesOn DEF InFlight
  <2>4. ~WriteAgent(r) => agent' = agent /\ charged' = charged
    BY <1>4 DEF Step, WriteStatus, WriteTask, Grant, RecordPenalty, RecordLedger, ReadAgent, Revoke, db
  <2>5. EntryScoreStands' /\ \A a \in Agents : charged[a] \in Nat /\ charged'[a] \in Nat
                                              /\ charged[a] <= charged'[a]
    <3>1. CASE WriteAgent(r)
      <4>1. UNCHANGED regVars
        BY DEF ContractStep
      <4>2. QED
        BY <3>1, <4>1, PenaltyWithinEntry
    <3>2. CASE ~WriteAgent(r)
      BY <1>1, <2>4, <3>2 DEF EntryInv, EntryScoreStands, TypeOK
    <3>3. QED
      BY <3>1, <3>2
  <2>6. ReadWithinEntry'
    <3> SUFFICES ASSUME NEW q \in InFlight'
                 PROVE  /\ DelegateeOf(q) \in known
                        /\ pc'[q] = "writeAgent" =>
                             /\ entry[DelegateeOf(q)] - charged'[DelegateeOf(q)] <= seen'[q].score
                             /\ seen'[q].score <= entry[DelegateeOf(q)]
      BY <1>1, <2>2 DEF ReadWithinEntry, WithinEntry, At, InFlight
    <3>1. q \in InFlight /\ q \in Requests /\ DelegateeOf(q) \in known /\ DelegateeOf(q) \in Agents
      BY <2>3 DEF EntryInv, ReadWithinEntry, RegistryTypeOK, InFlight
    <3>2. CASE q # r
      <4>1. pc'[q] = pc[q] /\ seen'[q] = seen[q]
        BY <1>1, <1>4, <3>1, <3>2, Frame DEF RequestStep
      <4>2. seen[q].score \in Int /\ entry[DelegateeOf(q)] \in Int
        <5>1. seen[q] \in AgentRow /\ entry[DelegateeOf(q)] \in 0..100
          BY <3>1 DEF RegistryTypeOK, TypeOK
        <5>2. QED
          BY <5>1 DEF AgentRow
      <4>3. pc[q] = "writeAgent" =>
              /\ entry[DelegateeOf(q)] - charged[DelegateeOf(q)] <= seen[q].score
              /\ seen[q].score <= entry[DelegateeOf(q)]
        BY <3>1 DEF EntryInv, ReadWithinEntry, WithinEntry, At
      <4>4. charged[DelegateeOf(q)] \in Nat /\ charged'[DelegateeOf(q)] \in Nat
            /\ charged[DelegateeOf(q)] <= charged'[DelegateeOf(q)]
        BY <2>5, <3>1
      <4>5. QED
        BY <3>1, <4>1, <4>2, <4>3, <4>4
    <3>3. CASE q = r
      <4>1. pc'[r] = "writeAgent" => pc[r] = "readAgent"
        <5>1. \A s \in DOMAIN Handler[call[r].op].next :
                Handler[call[r].op].next[s] = "writeAgent" => s = "readAgent"
          BY <2>1, HandlerOrder
        <5>2. QED
          BY <2>1, <5>1
      <4>2. pc[r] = "readAgent" => seen'[r] = agent[DelegateeOf(r)] /\ charged' = charged
        BY <1>1, <1>4, StepWrites DEF ReadAgent, TypeOK
      <4>3. QED
        BY <3>1, <3>3, <4>1, <4>2 DEF EntryInv, EntryScoreStands
    <3>4. QED
      BY <3>2, <3>3
  <2>7. QED
    BY <2>5, <2>6 DEF EntryInv
<1>5. QED
  BY <1>2, <1>3, <1>4 DEF ContractStep

LEMMA RegistrationKeepsEntry ==
  ASSUME RegistryTypeOK, EntryInv, NEW g \in Registrations, RegistrationStep(g)
  PROVE  EntryInv'
<1>1. CASE ~Upsert(g)
  <2>1. UNCHANGED <<vars, known, entry>>
    BY <1>1 DEF RegistrationStep, BeginRegistration, FindCredential, CreateCredential, FailRegistration
  <2>2. QED
    BY <2>1 DEF vars, EntryInv, EntryScoreStands, ReadWithinEntry, WithinEntry, InFlight, At,
                DelegateeOf, ContractOf
<1>2. CASE Upsert(g)
  <2> DEFINE h == Holder(g)
  <2>1. /\ UNCHANGED <<pc, call, seen, charged>> /\ known' = known \union {h} /\ h \in Agents
        /\ DefaultScore[g] \in 0..100
    BY <1>2, CursorWithin, RegistryAssumption DEF Upsert
  <2>2. \A a \in known : entry'[a] = entry[a] /\ agent'[a].score = agent[a].score
    BY <1>2, <2>1 DEF Upsert, Updated, RegistryTypeOK, TypeOK, AgentRow
  <2>3. h \notin known => entry'[h] = DefaultScore[g] /\ agent'[h].score = DefaultScore[g]
    BY <1>2, <2>1 DEF Upsert, RegistryTypeOK, TypeOK
  <2>4. charged[h] \in Nat
    BY <2>1 DEF RegistryTypeOK, TypeOK
  <2>5. EntryScoreStands'
    BY <2>1, <2>2, <2>3, <2>4 DEF EntryInv, EntryScoreStands
  <2>6. ReadWithinEntry'
    BY <2>1, <2>2 DEF EntryInv, ReadWithinEntry, WithinEntry, InFlight, At, DelegateeOf, ContractOf
  <2>7. QED
    BY <2>5, <2>6 DEF EntryInv
<1>3. QED
  BY <1>1, <1>2

\* However registrations and penalties interleave, a score is the one its
\* agent came in with, less no more than was applied.
THEOREM RegistrationsLaunderNothing == RegistrySpec => []EntryScoreStands
<1>1. RegistryTypeOK /\ EntryInv /\ [RegistryNext]_registryVars => EntryInv'
  <2> SUFFICES ASSUME RegistryTypeOK, EntryInv, [RegistryNext]_registryVars PROVE EntryInv'
    OBVIOUS
  <2>1. CASE UNCHANGED registryVars
    BY <2>1 DEF registryVars, vars, regVars, EntryInv, EntryScoreStands, ReadWithinEntry, WithinEntry,
                InFlight, At, DelegateeOf, ContractOf
  <2>2. QED
    BY <2>1, ContractStepKeepsEntry, RegistrationKeepsEntry DEF RegistryNext
<1>2. EntryInv => EntryScoreStands
  BY DEF EntryInv
<1>3. QED
  BY <1>1, <1>2, InitEntryInv, RegistryTypeCorrect, PTL DEF RegistrySpec

----------------------------------------------------------------------------
(* The records.  A registration writes the row of an agent, and of what    *)
(* the contract service keeps about its requests nothing else.             *)

recordVars == <<contract, ledger, penalties, live, pc, call, seen, charged>>

Records == RecordsInv /\ PenaltyInv /\ ChargesWithinApplied

LEMMA RegistryStepOfService == [RegistryNext]_registryVars => [Next]_vars \/ UNCHANGED recordVars
<1> SUFFICES ASSUME [RegistryNext]_registryVars PROVE [Next]_vars \/ UNCHANGED recordVars
  OBVIOUS
<1>1. CASE ContractStep
  BY <1>1, ContractStepIsNext
<1>2. ASSUME NEW g \in Registrations, RegistrationStep(g)
      PROVE  UNCHANGED recordVars
  BY <1>2 DEF RegistrationStep, BeginRegistration, Upsert, FindCredential, CreateCredential,
              FailRegistration, vars, recordVars
<1>3. CASE UNCHANGED registryVars
  BY <1>3 DEF registryVars
<1>4. QED
  BY <1>1, <1>2, <1>3 DEF RegistryNext

LEMMA NextRecords == RegistryTypeOK /\ Records /\ [RegistryNext]_registryVars => Records'
<1> SUFFICES ASSUME RegistryTypeOK, Records, [RegistryNext]_registryVars PROVE Records'
  OBVIOUS
<1> USE DEF Records
<1>1. CASE [Next]_vars
  BY <1>1, NextRecordsInv, NextPenaltyInv DEF RegistryTypeOK
<1>2. CASE UNCHANGED recordVars
  <2> USE <1>2 DEF recordVars, InFlight, At, ContractOf
  <2>1. RecordsInv'
    BY DEF RecordsInv, ActiveWasActivated, Progress, LedgerTrail, FailureIsPenalised,
           GrantsFollowActivation, Penalised
  <2>2. PenaltyInv' /\ ChargesWithinApplied'
    BY DEF PenaltyInv, ChargesWithinApplied, Applied, PenaltiesOf, PenaltyRow
  <2>3. QED
    BY <2>1, <2>2
<1>3. QED
  BY <1>1, <1>2, RegistryStepOfService

\* However registrations interleave with contract operations, and although
\* both write the rows of agents, verdicts are only on work that had begun,
\* no failure is without its penalty and no charge without a record: only
\* the scores and the breaker are at stake, for which EntryScoreStands and
\* OnlyRegistrationRevives say what is left.
THEOREM RegistryKeepsTheRecords ==
  RegistrySpec => [](LedgerTrail /\ FailureIsPenalised /\ GrantsFollowActivation /\ ChargesAreRecorded)
<1>1. RegistryInit => Records
  BY InitRecordsInv, InitPenaltyInv DEF RegistryInit, Records
<1>2. RegistryTypeOK /\ Records =>
        LedgerTrail /\ FailureIsPenalised /\ GrantsFollowActivation /\ ChargesAreRecorded
  BY AppliedAreRecorded DEF Records, RecordsInv, RegistryTypeOK
<1>3. QED
  BY <1>1, <1>2, NextRecords, RegistryTypeCorrect, PTL DEF RegistrySpec

============================================================================
