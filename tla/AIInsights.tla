------------------------------ MODULE AIInsights ------------------------------
(* The AI insight of one analysis run: its ai_insights row, the requests that  *)
(* ensure the row exists and the background tasks that generate its content    *)
(* (ai/insight_service.py, ai/insights.py, AIInsightRepository). A request     *)
(* and the task it leaves behind are one element of Tasks: the task starts     *)
(* when its request has answered. A flush writes the columns the session has   *)
(* changed and no other, so two tasks can overwrite each other's columns.      *)
EXTENDS NumberOrder, Sequences, SequencesExt

CONSTANTS
    Tasks,        \* requests, each followed by its background task
    FindingSets,  \* the sets of findings a run may have
    Responses,    \* answers of the language model: [text, finding_ids]
    MaxTop,       \* _MAX_TOP_FINDINGS
    Faults,       \* subset of {"crash", "delete"}
    None

VARIABLES
    run,          \* status of the analysis run, or "deleted"
    findings,     \* the findings the run has once it succeeded
    insight,      \* the committed row, or None
    task,         \* what each task has read and which step is next
    calls,        \* how often a task has begun to call the model (history)
    blind         \* a session wrote over a row it had not read (history)

vars == <<run, findings, insight, task, calls, blind>>

ASSUME InsightFaultsAssumption == Faults \subseteq {"crash", "delete"}

ASSUME TasksAssumption == IsFiniteSet(Tasks)

ASSUME MaxTopAssumption == MaxTop \in Nat

ASSUME ResponsesAssumption ==
    \A r \in Responses : /\ DOMAIN r = {"text", "finding_ids"}
                          /\ r.finding_ids \in Seq(Range(r.finding_ids))

-----------------------------------------------------------------------------
(* What the model is told and what is kept of its answer.                     *)

severity_order == [critical |-> 0, warning |-> 1, observation |-> 2]

\* The findings of a run have a severity of the catalogue and ids of their own.
ASSUME FindingsAssumption ==
    \A fs \in FindingSets :
        /\ IsFiniteSet(fs)
        /\ \A f \in fs : f.severity \in DOMAIN severity_order /\ f.rule \in Int /\ f.id \in Int
        /\ \A f, g \in fs : f.id = g.id => f = g

Before(f, g) ==
    \/ severity_order[f.severity] < severity_order[g.severity]
    \/ /\ f.severity = g.severity
       /\ \/ f.rule < g.rule
          \/ f.rule = g.rule /\ f.id < g.id

\* The sorted list: the n-th finding has n - 1 findings before it.
SeverestFirst(fs) ==
    [n \in 1..Cardinality(fs) |->
        CHOOSE f \in fs : Cardinality({g \in fs : Before(g, f)}) = n - 1]

BuildKeepsLast(fs) ==
    LET Keep(top, f) == IF Len(top) = MaxTop \/ \E i \in DOMAIN top : top[i].rule = f.rule
                        THEN top ELSE Append(top, f)
    IN  FoldLeft(Keep, <<>>, Reverse(SeverestFirst(fs)))

\* The first finding of each rule, severest first, at most MaxTop of them.
build_insight_input(fs) ==
    LET Keep(top, f) == IF Len(top) = MaxTop \/ \E i \in DOMAIN top : top[i].rule = f.rule
                        THEN top ELSE Append(top, f)
    IN  FoldLeft(Keep, <<>>, SeverestFirst(fs))

Ids(fs) == {f.id : f \in fs}

ParseKeepsAll(response, allowed) ==
    LET ids == response.finding_ids
    IN  [text |-> response.text,
         finding_ids |-> SubSeq(ids, 1, IF Len(ids) < MaxTop THEN Len(ids) ELSE MaxTop)]

\* Findings outside the run are dropped, the rest is cut at MaxTop.
parse_insight_response(response, allowed) ==
    LET ids == response.finding_ids
        known == {i \in DOMAIN ids : ids[i] \in allowed}
        count == Cardinality(known)
    IN  [text |-> response.text,
         finding_ids |-> [n \in 1..(IF count < MaxTop THEN count ELSE MaxTop) |->
                             ids[Ascending(known)[n]]]]

-----------------------------------------------------------------------------
(* The row (AIInsightRecord).                                                 *)

Errors == {"ai_invalid_response", "ai_provider_unavailable"}

Citations == Seq(UNION {Ids(fs) : fs \in FindingSets})

Contents == [text : {r.text : r \in Responses}, finding_ids : Citations]

Rows == [status : {"pending", "generating", "ready", "failed"},
         content : {None} \union Contents,
         referenced_finding_ids : Citations,
         error : {None} \union Errors,
         attempt_count : Nat]

\* None is neither a row nor the content of one.
ASSUME NoneAssumption == None \notin Rows /\ None \notin Contents

Pending == [status |-> "pending", content |-> None, referenced_finding_ids |-> <<>>,
            error |-> None, attempt_count |-> 0]

BeginCountsNothing(row) == [row EXCEPT !.status = "generating", !.error = None]

BeginCountsTwice(row) ==
    [row EXCEPT !.status = "generating", !.error = None, !.attempt_count = @ + 2]

begin_generation(row) ==
    [row EXCEPT !.status = "generating", !.error = None, !.attempt_count = @ + 1]

CanBeginTwice(row) == row.status # "ready"

CanBegin(row) == row.status \notin {"ready", "generating"}

complete(row, content) ==
    [row EXCEPT !.status = "ready", !.content = content,
                !.referenced_finding_ids = content.finding_ids, !.error = None]

FailKeepsStatus(row, error_code) == [row EXCEPT !.error = error_code]

fail(row, error_code) == [row EXCEPT !.status = "failed", !.error = error_code]

\* The row after a session that has read `read` flushes `new`.
Flush(read, new) ==
    [c \in DOMAIN new |-> IF new[c] = read[c] THEN insight[c] ELSE new[c]]

-----------------------------------------------------------------------------
\* A task whose generation has begun, and one that is at work.
Begun == {"calling", "answered", "invalid", "unavailable", "completing", "failing"}
Working == {"read"} \union Begun

\* Takes task t to where `to` says.
Goto(t, to) == task' = [task EXCEPT ![t] = to]

Step(t, pc) == Goto(t, [task[t] EXCEPT !.pc = pc])

Stop(t, pc) == Goto(t, [pc |-> pc, row |-> None, facts |-> None, answer |-> None])

\* The session of task t flushes `new`; the history tells whether the row is
\* no longer the one it has read.
Write(t, new) ==
    /\ insight' = Flush(task[t].row, new)
    /\ blind' = (blind \/ task[t].row # insight)

Init ==
    /\ run = "running"
    /\ findings \in FindingSets
    /\ insight = None
    /\ task = [t \in Tasks |-> [pc |-> "idle", row |-> None, facts |-> None,
                                answer |-> None]]
    /\ calls = 0
    /\ blind = FALSE

\* The analysis ends (see AnalysisRuns).
FinishRun ==
    /\ run = "running"
    /\ run' \in {"succeeded", "failed"}
    /\ UNCHANGED <<findings, insight, task, calls, blind>>

\* delete_project: the run and, by its foreign key, the insight go.
DeleteRun ==
    /\ "delete" \in Faults
    /\ run # "deleted"
    /\ run' = "deleted"
    /\ insight' = None
    /\ UNCHANGED <<findings, task, calls, blind>>

\* The run's return or the generate endpoint: the row is looked for.
EnsureLookup(t) ==
    /\ task[t].pc = "idle"
    /\ run # "deleted"
    /\ Step(t, IF insight = None THEN "inserting" ELSE "queued")
    /\ UNCHANGED <<run, findings, insight, calls, blind>>

EnsureInsert(t) ==
    /\ task[t].pc = "inserting"
    /\ insight = None
    /\ run # "deleted"
    /\ insight' = Pending
    /\ Step(t, "queued")
    /\ UNCHANGED <<run, findings, calls, blind>>

\* The unique constraint or the foreign key refuses: the request fails, and
\* its background task is never added.
EnsureRaises(t) ==
    /\ task[t].pc = "inserting"
    /\ insight # None \/ run = "deleted"
    /\ Step(t, "refused")
    /\ UNCHANGED <<run, findings, insight, calls, blind>>

\* generate: nothing to do for a run that has not succeeded or whose row says
\* that it is ready or in work.
Leave(t) ==
    /\ task[t].pc = "queued"
    /\ \/ run # "succeeded"
       \/ insight # None /\ ~CanBegin(insight)
    /\ Step(t, "done")
    /\ UNCHANGED <<run, findings, insight, calls, blind>>

ReadRow(t) ==
    /\ task[t].pc = "queued"
    /\ run = "succeeded"
    /\ CanBegin(insight)
    /\ Goto(t, [task[t] EXCEPT !.pc = "read", !.row = insight])
    /\ UNCHANGED <<run, findings, insight, calls, blind>>

Begin(t) ==
    /\ task[t].pc = "read"
    /\ insight # None
    /\ Write(t, begin_generation(task[t].row))
    /\ calls' = calls + 1
    /\ Goto(t, [task[t] EXCEPT !.pc = "calling", !.facts = build_insight_input(findings)])
    /\ UNCHANGED <<run, findings>>

\* client.generate returns, raises ValueError, or raises anything else.
Answer(t) ==
    /\ task[t].pc = "calling"
    /\ \/ \E response \in Responses :
            Goto(t, [task[t] EXCEPT !.pc = "answered",
                         !.answer = parse_insight_response(response, Ids(findings))])
       \/ Step(t, "invalid")
       \/ Step(t, "unavailable")
    /\ UNCHANGED <<run, findings, insight, calls, blind>>

\* Both ends read the row anew, in a session of their own.
Reread(t) ==
    /\ \/ /\ task[t].pc = "answered"
          /\ Goto(t, [task[t] EXCEPT !.pc = "completing", !.row = insight])
       \/ /\ task[t].pc \in {"invalid", "unavailable"}
          /\ Goto(t, [task[t] EXCEPT !.pc = "failing", !.row = insight,
                         !.answer = IF task[t].pc = "invalid" THEN "ai_invalid_response"
                                    ELSE "ai_provider_unavailable"])
    /\ UNCHANGED <<run, findings, insight, calls, blind>>

Finish(t) ==
    /\ task[t].pc \in {"completing", "failing"}
    /\ insight # None
    /\ task[t].row # None
    /\ LET row == task[t].row IN
       Write(t, IF task[t].pc = "completing" THEN complete(row, task[t].answer)
                                             ELSE fail(row, task[t].answer))
    /\ Stop(t, "done")
    /\ UNCHANGED <<run, findings, calls>>

\* The row is gone: nothing to write, or the UPDATE finds no row and raises.
RowGone(t) ==
    /\ task[t].pc \in {"read", "completing", "failing"}
    /\ insight = None
    /\ Stop(t, "done")
    /\ UNCHANGED <<run, findings, insight, calls, blind>>

\* The process ends, or a statement outside generate's try block raises: the
\* task is lost where it stands and its open transaction rolls back.
Crash(t) ==
    /\ "crash" \in Faults
    /\ task[t].pc \in Working \union {"queued"}
    /\ Stop(t, IF task[t].pc \in Begun THEN "lost" ELSE "crashed")
    /\ UNCHANGED <<run, findings, insight, calls, blind>>

Request(t) == EnsureLookup(t)

Background(t) ==
    \/ EnsureInsert(t) \/ EnsureRaises(t)
    \/ Leave(t) \/ ReadRow(t) \/ Begin(t) \/ Answer(t)
    \/ Reread(t) \/ Finish(t) \/ RowGone(t)

Next ==
    \/ FinishRun
    \/ DeleteRun
    \/ \E t \in Tasks : Request(t) \/ Background(t) \/ Crash(t)

\* A started request or task goes on; the client's timeout ends every call.
Spec == Init /\ [][Next]_vars /\ \A t \in Tasks : WF_vars(Background(t))

-----------------------------------------------------------------------------
\* Every variable has its type, and no row counts more attempts than there
\* were requests (AIInsightRecord).
InsightTypeOK ==
    /\ run \in {"running", "succeeded", "failed", "deleted"}
    /\ findings \in FindingSets
    /\ insight \in {None} \union Rows
    /\ insight # None => insight.attempt_count <= Cardinality(Tasks)
    /\ \A t \in Tasks : task[t].pc \in Working \union
                          {"idle", "inserting", "queued", "refused", "done", "crashed", "lost"}
    /\ calls \in 0..Cardinality(Tasks)
    /\ blind \in BOOLEAN

\* A ready insight has content, and what it cites, and what its column of
\* references lists, are findings of its own run, whatever the language model
\* answered and however tasks overlap (parse_insight_response, complete).
ReadyIsGrounded ==
    insight # None =>
      /\ insight.status = "ready" => insight.content # None
      /\ Range(insight.referenced_finding_ids) \subseteq Ids(findings)
      /\ insight.content # None =>
           /\ Range(insight.content.finding_ids) \subseteq Ids(findings)
           /\ Len(insight.content.finding_ids) <= MaxTop

\* The model is told the severest finding of every rule while there is room,
\* and one finding of a rule at most (build_insight_input).
FactsCoverRules ==
    \A t \in Tasks : task[t].facts # None =>
      LET facts == task[t].facts
          Rules == {f.rule : f \in findings}
      IN  /\ Range(facts) \subseteq findings
          /\ Len(facts) = IF Cardinality(Rules) < MaxTop THEN Cardinality(Rules) ELSE MaxTop
          /\ \A i, j \in DOMAIN facts : facts[i].rule = facts[j].rule => i = j
          /\ \A i \in DOMAIN facts, f \in findings :
               /\ f.rule = facts[i].rule => ~Before(f, facts[i])
               /\ Before(f, facts[i]) => \E j \in 1..i : facts[j].rule = f.rule

\* As long as no session has written over a row it had not read, every call of
\* the model was counted, a ready insight has no error, and its column of
\* references lists what its content cites. (Overlapping tasks alone do no harm:
\* two sessions that have read one row, and both begin or both end, do.)
RowIsExact ==
    insight # None /\ ~blind =>
      /\ insight.attempt_count = calls
      /\ insight.status = "ready" =>
           insight.error = None /\ insight.referenced_finding_ids = insight.content.finding_ids

\* As long as that has not happened, a ready insight is final: no second task
\* has begun whose late failure could turn it into a failed one (begin_generation,
\* fail).
ReadyIsFinal ==
    [][insight # None /\ insight.status = "ready" /\ insight' # None /\ ~blind'
         => insight' = insight]_vars

\* Content once shown is only replaced by other content: a failed regeneration
\* or a late failure of an overlapping task leaves it readable (fail).
ContentIsKept ==
    [][insight # None /\ insight.content # None /\ insight' # None
         => insight'.content # None]_vars

\* A generation that begins ends with a row a reader can act on, unless a
\* process was lost between the begin and the end of one: a task lost before its
\* begin leaves no row behind that says generating.
GenerationEnds ==
    insight # None /\ insight.status = "generating" ~>
      \/ insight = None
      \/ insight.status \in {"ready", "failed"}
      \/ \E t \in Tasks : task[t].pc = "lost"
=============================================================================
