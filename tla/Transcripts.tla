---------------------------- MODULE Transcripts ----------------------------
(***************************************************************************)
(* Monitoring in adapters/openclaw-gateway.ts: ingestTranscript stores the *)
(* lines of a transcript as MonitoringEvent rows, computeTransparencyScore *)
(* reads the rows of a task in the order of their timestamps and folds     *)
(* them into a score.                                                      *)
(*                                                                         *)
(* An upload is one statement (createMany), so its rows appear together or *)
(* not at all.  Every row gets an id of its own and nothing is compared    *)
(* with what is there: an upload that is sent again, because its answer    *)
(* was lost, is stored again.  Uploads arrive in any order.                *)
(***************************************************************************)
EXTENDS SequencesExt, Integers

CONSTANTS
  Tasks,
  Uploads,     \* the bodies of POST /openclaw/transcript/:taskId
  TaskOf,      \* the task each is about
  EntriesOf,   \* its entries
  MaxReceived, \* bound: how often the server receives each
  Horizon      \* bound: timestamps are 1..Horizon

(* TranscriptEntry; "long" stands for content.length > 50.                 *)
Entry == [time: 1..Horizon, role: {"user", "assistant", "tool", "system"},
          long: BOOLEAN, error: BOOLEAN]

ASSUME TranscriptAssumption ==
  /\ Horizon \in Nat
  /\ TaskOf \in [Uploads -> Tasks]
  /\ EntriesOf \in [Uploads -> Seq(Entry)]
  /\ MaxReceived \in [Uploads -> Nat]

VARIABLES
  events,    \* MonitoringEvent rows
  received,  \* how many requests with each upload have been handled
  stored     \* History: how many of them were stored

vars == <<events, received, stored>>

----------------------------------------------------------------------------
(* Classification                                                          *)

classifyEventType(entry) ==
  CASE entry.role = "tool" -> IF entry.error THEN "tool_error" ELSE "tool_invocation"
    [] entry.role = "assistant" -> IF entry.long THEN "reasoning" ELSE "response"
    [] entry.role = "system" -> "system"
    [] OTHER -> "user_input"

\* WARNING, for a sensitive tool, makes no difference to anything modelled.
classifySeverity(entry) == IF entry.error THEN "ERROR" ELSE "INFO"

\* The row that line i of an upload becomes; n tells the copies apart.
Row(u, i, n) ==
  LET entry == EntriesOf[u][i]
  IN [upload |-> u, line |-> i, copy |-> n, time |-> entry.time, role |-> entry.role,
      eventType |-> classifyEventType(entry), severity |-> classifySeverity(entry)]

RowsOf(u, n) == {Row(u, i, n) : i \in DOMAIN EntriesOf[u]}

----------------------------------------------------------------------------
(* The transparency score, in hundredths                                   *)

Base == 50

\* Mutants: an error counts first, also that of a reasoning step; a tool
\* call with reasoning before it earns nothing.
MutantErrorsFirst(e, explained) ==
  IF e.severity = "ERROR" THEN -10
  ELSE IF e.role = "assistant" /\ e.eventType = "reasoning" THEN 10
  ELSE IF e.eventType = "tool_invocation" THEN IF explained THEN 5 ELSE -15
  ELSE 0

MutantDoublePenalty(e, explained) ==
  IF e.role = "assistant" /\ e.eventType = "reasoning" THEN 10
  ELSE IF e.eventType = "tool_invocation" THEN IF explained THEN 5 ELSE -30
  ELSE IF e.severity = "ERROR" THEN -10
  ELSE 0

\* What an event adds to the score; "explained" is lastWasReasoning.
Points(e, explained) ==
  IF e.role = "assistant" /\ e.eventType = "reasoning" THEN 10
  ELSE IF e.eventType = "tool_invocation" THEN IF explained THEN 5 ELSE -15
  ELSE IF e.severity = "ERROR" THEN -10
  ELSE 0

\* The body of the loop: only a reasoning step sets lastWasReasoning.
Assess(sum, e) ==
  [score |-> sum.score + Points(e, sum.lastWasReasoning),
   lastWasReasoning |-> e.role = "assistant" /\ e.eventType = "reasoning"]

Clamp(n) == IF n < 0 THEN 0 ELSE IF n > 100 THEN 100 ELSE n

\* Mutant: the rows come as they were inserted, upload by upload.
MutantUnordered(rows) ==
  LET uploads == SetToSeq({<<e.upload, e.copy>> : e \in rows})
      Lines(k) == SelectSeq([i \in 1..Horizon |-> i], LAMBDA i : \E e \in rows :
                    e.upload = k[1] /\ e.copy = k[2] /\ e.line = i)
      OneUpload(sum, k) == FoldLeft(LAMBDA acc, i : Assess(acc, Row(k[1], i, k[2])), sum, Lines(k))
  IN {FoldLeft(OneUpload, [score |-> Base, lastWasReasoning |-> FALSE], uploads)}

\* The sums the loop can end with.  The query orders by timestamp alone:
\* rows of one instant come in any order.
Sums(rows) ==
  LET At(t) == {e \in rows : e.time = t}
      Instant(sums, t) == UNION {{FoldLeft(Assess, sum, s) : s \in SetToSeqs(At(t))} : sum \in sums}
  IN FoldLeft(Instant, {[score |-> Base, lastWasReasoning |-> FALSE]}, [t \in 1..Horizon |-> t])

\* The answers of GET /openclaw/transparency/:taskId.
computeTransparencyScore(rows) == {Clamp(sum.score) : sum \in Sums(rows)}

Rows(t) == {e \in events : TaskOf[e.upload] = t}

----------------------------------------------------------------------------
(* The specification                                                       *)

Init ==
  /\ events = {}
  /\ received = [u \in Uploads |-> 0]
  /\ stored = [u \in Uploads |-> 0]

\* Mutant: the rows are inserted one by one, and the request fails between.
MutantOneByOne(u) ==
  /\ received[u] < MaxReceived[u]
  /\ received' = [received EXCEPT ![u] = @ + 1]
  /\ stored' = [stored EXCEPT ![u] = @ + 1]
  /\ \E some \in SUBSET RowsOf(u, stored[u] + 1) : events' = events \union some

\* The request is handled; whether the client hears of it or sends the
\* upload again makes no difference to the server.
ingestTranscript(u) ==
  /\ received[u] < MaxReceived[u]
  /\ received' = [received EXCEPT ![u] = @ + 1]
  /\ stored' = [stored EXCEPT ![u] = @ + 1]
  /\ events' = events \union RowsOf(u, stored[u] + 1)

\* An entry cannot be classified, or the statement throws.
FailIngest(u) ==
  /\ received[u] < MaxReceived[u]
  /\ received' = [received EXCEPT ![u] = @ + 1]
  /\ UNCHANGED <<events, stored>>

Next == \E u \in Uploads : ingestTranscript(u) \/ FailIngest(u)

Spec == Init /\ [][Next]_vars

----------------------------------------------------------------------------
(* Properties                                                              *)

EventRow == [upload: Uploads, line: Nat, copy: Nat, time: 1..Horizon,
             role: {"user", "assistant", "tool", "system"},
             eventType: {"tool_error", "tool_invocation", "reasoning", "response", "system", "user_input"},
             severity: {"ERROR", "INFO"}]

TypeOK ==
  /\ events \subseteq EventRow
  /\ received \in [Uploads -> Nat]
  /\ stored \in [Uploads -> Nat]
  /\ \A u \in Uploads : stored[u] <= received[u] /\ received[u] <= MaxReceived[u]

IsReasoning(e) == e.eventType = "reasoning"

\* The event directly before e is a reasoning step.
IsExplained(e, rows) == \E d \in rows :
  d.time < e.time /\ IsReasoning(d) /\ ~\E f \in rows : d.time < f.time /\ f.time < e.time

\* The score from counts alone: what every reasoning step, every invocation
\* directly after one, every other invocation and every error is worth.
\* (The comment of the function charges only for an "error without recovery"
\* and for an invocation with "no prior reasoning" anywhere before it.)
CountedScore(rows) ==
  LET reasoning == {e \in rows : IsReasoning(e)}
      calls == {e \in rows : e.eventType = "tool_invocation"}
      explained == {e \in calls : IsExplained(e, rows)}
      errors == {e \in rows : e.severity = "ERROR"} \ reasoning
  IN Clamp(Base + 10 * Cardinality(reasoning) + 5 * Cardinality(explained)
             - 15 * Cardinality(calls \ explained) - 10 * Cardinality(errors))

DistinctTimes(rows) == \A d, e \in rows : d.time = e.time => d = e

(* Whatever has arrived so far, and in whatever order, the score is the    *)
(* one that the transcript in its own order counts up to: it depends on    *)
(* the rows and their times, and not on when they were stored.             *)
ScoreFollowsTheTranscript == \A t \in Tasks :
  DistinctTimes(Rows(t)) => computeTransparencyScore(Rows(t)) = {CountedScore(Rows(t))}

\* The score of rows can only have risen, or fallen, for every order.
NoneBelow(new, old) ==
  /\ \A n \in new : \E o \in old : n >= o
  /\ \A o \in old : \E n \in new : n >= o

(* "Clearer reasoning traces = higher transparency scores": reasoning that *)
(* arrives, late, again, next to errors or between other events, never     *)
(* lowers a score.                                                         *)
ReasoningNeverHurts == [][\A t \in Tasks :
  (\A e \in Rows(t)' \ Rows(t) : IsReasoning(e)) =>
     NoneBelow(computeTransparencyScore(Rows(t)'), computeTransparencyScore(Rows(t)))]_events

\* The most that one event can change, with what it makes of the next one:
\* a reasoning step before an unexplained invocation, or an error before an
\* explained one.
Leverage == 30

(* An upload, also one that is stored again, moves the score by no more    *)
(* than its own events can, however it falls between those of others.      *)
UploadsMoveTheScoreLittle == [][\A u \in Uploads : stored'[u] # stored[u] =>
  \A n \in computeTransparencyScore(Rows(TaskOf[u])') :
    \E o \in computeTransparencyScore(Rows(TaskOf[u])) :
      n - o \in -(Leverage * Len(EntriesOf[u])) .. Leverage * Len(EntriesOf[u])]_vars

\* d answers for the invocation e: among the rows there is nothing but
\* reasoning from the one to the other.
Answers(d, e, rows) ==
  /\ IsReasoning(d) /\ d.time < e.time
  /\ \A f \in rows \ {e} : d.time <= f.time /\ f.time <= e.time => IsReasoning(f)

\* The rows that came with e, and those of other uploads.
Own(e) == RowsOf(e.upload, e.copy)
Others(e, rows) == {f \in rows : f.upload # e.upload}

\* The upload explains its invocation; no other upload comes in between.
Explained(e) == \E d \in Own(e) : Answers(d, e, Own(e))
Undisturbed(e, rows) == \E d \in Own(e) : Answers(d, e, Own(e) \union Others(e, rows))

Invocations(rows) == {e \in rows : e.eventType = "tool_invocation"}
Errors(rows) == {e \in rows : e.severity = "ERROR"}
Unexplained(rows) == {e \in Invocations(rows) : ~Explained(e)}

\* Four copies of an invocation cost what those of its reasoning earn.
Strained(rows) == {e \in Invocations(rows) : Explained(e) /\ (e.copy > 4 \/ ~Undisturbed(e, rows))}

(* A score falls below the base only by what an agent did not explain or   *)
(* got wrong, and by 5 for an invocation that its upload did explain when  *)
(* it is stored more than four times or when events of other uploads, of   *)
(* another session for instance, get between it and its reasoning.  This   *)
(* is so while uploads are missing, and for any order, ties and repeats.   *)
ExplainedCallsAreSpared == \A t \in Tasks : \A s \in computeTransparencyScore(Rows(t)) :
  s >= Base - 15 * Cardinality(Unexplained(Rows(t))) - 10 * Cardinality(Errors(Rows(t)))
            - 5 * Cardinality(Strained(Rows(t)))

============================================================================
