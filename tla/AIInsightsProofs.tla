-------------------------- MODULE AIInsightsProofs --------------------------
(* Proofs about AIInsights, for any number of requests, any findings and any  *)
(* answers of the language model: the row keeps its type, what a reader is    *)
(* shown is grounded and kept, the row is exact and a ready one final as long  *)
(* as no session writes over a row it has not read, and what the model is     *)
(* told covers the rules (ai/insight_service.py,                              *)
(* ai/insights.py, AIInsightRepository).                                      *)
EXTENDS AIInsights, NumberOrderProofs

-----------------------------------------------------------------------------
(* The answer that is kept.                                                   *)

\* An answer that cites at most MaxTop findings, all of them allowed.
IsAnswer(answer, allowed) ==
    /\ answer \in [text : {r.text : r \in Responses}, finding_ids : Seq(allowed)]
    /\ Len(answer.finding_ids) <= MaxTop

\* What is kept of an answer is such an answer (parse_insight_response).
LEMMA AnswerIsGrounded ==
    ASSUME NEW response \in Responses, NEW allowed
    PROVE  IsAnswer(parse_insight_response(response, allowed), allowed)
<1> DEFINE ids == response.finding_ids
           known == {i \in DOMAIN ids : ids[i] \in allowed}
           count == Cardinality(known)
           size == IF count < MaxTop THEN count ELSE MaxTop
           answer == [n \in 1..size |-> ids[Ascending(known)[n]]]
<1>1. Len(ids) \in Nat /\ known \in SUBSET (1..Len(ids))
  BY ResponsesAssumption
<1>2. count \in Nat /\ \A n \in 1..count : Ascending(known)[n] \in known
  BY <1>1, AscendingLists
<1>3. size \in Nat /\ size <= MaxTop /\ size <= count
  BY <1>2, MaxTopAssumption
<1>4. \A n \in 1..size : ids[Ascending(known)[n]] \in allowed
  BY <1>2, <1>3
<1>5. parse_insight_response(response, allowed)
        = [text |-> response.text, finding_ids |-> answer]
  BY DEF parse_insight_response
<1>6. answer \in [1..size -> allowed]
  BY <1>4
<1>7. answer \in Seq(allowed) /\ Len(answer) = size
  <2> HIDE DEF answer, size
  <2> QED
    BY <1>3, <1>6
<1> HIDE DEF answer, size
<1> QED
  BY <1>3, <1>5, <1>7 DEF IsAnswer

-----------------------------------------------------------------------------
(* The invariant that holds however tasks overlap.                            *)

\* A task has its four fields and has read no row or a whole one; one that is
\* about to begin has read a row that allows it.
TasksOK ==
    /\ DOMAIN task = Tasks
    /\ \A t \in Tasks :
         /\ DOMAIN task[t] = {"pc", "row", "facts", "answer"}
         /\ task[t].row \in {None} \union Rows
         /\ task[t].pc = "read" => task[t].row # None /\ CanBegin(task[t].row)

\* What waits to be written: a grounded answer or the code of an error.
AnswersAreGrounded ==
    \A t \in Tasks :
      /\ task[t].pc \in {"answered", "completing"} =>
           IsAnswer(task[t].answer, Ids(findings))
      /\ task[t].pc = "failing" => task[t].answer \in Errors

\* A run that is still there lacks its row only until a request has inserted it.
RowIsThere ==
    run # "deleted" /\ insight = None =>
      \A t \in Tasks : task[t].pc \in {"idle", "inserting"} /\ task[t].row = None

\* No row, committed or read, counts an attempt that was not made.
AttemptsAreMade ==
    /\ insight # None => insight.attempt_count <= calls
    /\ \A t \in Tasks : task[t].row # None => task[t].row.attempt_count <= calls

\* Whoever has read a row with content finds content in the row.
ContentWasThere ==
    insight # None =>
      \A t \in Tasks :
        task[t].row # None /\ task[t].row.content # None => insight.content # None

NotBegun == {t \in Tasks : task[t].pc \in {"idle", "inserting", "queued", "read"}}

\* Every task begins at most once.
CallsArePaid == calls + Cardinality(NotBegun) <= Cardinality(Tasks)

InsightInv ==
    /\ InsightTypeOK
    /\ TasksOK
    /\ AnswersAreGrounded
    /\ RowIsThere
    /\ AttemptsAreMade
    /\ ContentWasThere
    /\ ReadyIsGrounded
    /\ CallsArePaid

-----------------------------------------------------------------------------
(* What holds as long as no session has written over a row it had not read.   *)

\* Every call was counted, a ready row is whole, and a task whose generation
\* has begun is the only one and has left its mark.
FreshRow ==
    ~blind =>
      /\ insight = None /\ run # "deleted" => calls = 0
      /\ insight # None =>
           /\ insight.attempt_count = calls
           /\ insight.status = "ready" =>
                /\ insight.error = None
                /\ insight.referenced_finding_ids = insight.content.finding_ids
           /\ \A t \in Tasks : task[t].pc \in Begun => insight.status = "generating"
      /\ \A s, t \in Tasks : task[s].pc \in Begun /\ task[t].pc \in Begun => s = t

-----------------------------------------------------------------------------
(* What the model's operators do.                                             *)

\* A flush keeps the columns the session did not change as they are committed
\* and writes the others.
LEMMA FlushWrites ==
    ASSUME NEW read \in Rows, NEW new \in Rows, insight \in Rows
    PROVE  /\ Flush(read, new) \in Rows
           /\ Flush(read, new).status =
                IF new.status = read.status THEN insight.status ELSE new.status
           /\ Flush(read, new).content =
                IF new.content = read.content THEN insight.content ELSE new.content
           /\ Flush(read, new).referenced_finding_ids =
                IF new.referenced_finding_ids = read.referenced_finding_ids
                THEN insight.referenced_finding_ids ELSE new.referenced_finding_ids
           /\ Flush(read, new).error =
                IF new.error = read.error THEN insight.error ELSE new.error
           /\ Flush(read, new).attempt_count =
                IF new.attempt_count = read.attempt_count THEN insight.attempt_count
                                                          ELSE new.attempt_count
           /\ read = insight => Flush(read, new) = new
<1>1. DOMAIN new = {"status", "content", "referenced_finding_ids", "error", "attempt_count"}
  BY DEF Rows
<1> QED
  BY <1>1 DEF Rows, Flush

\* What the three transitions of the row write.
LEMMA RowTransitions ==
    ASSUME NEW row \in Rows
    PROVE  /\ begin_generation(row) \in Rows
           /\ begin_generation(row).status = "generating"
           /\ begin_generation(row).content = row.content
           /\ begin_generation(row).referenced_finding_ids = row.referenced_finding_ids
           /\ begin_generation(row).error = None
           /\ begin_generation(row).attempt_count = row.attempt_count + 1
           /\ \A content \in Contents :
                /\ complete(row, content) \in Rows
                /\ complete(row, content).status = "ready"
                /\ complete(row, content).content = content
                /\ complete(row, content).referenced_finding_ids = content.finding_ids
                /\ complete(row, content).error = None
                /\ complete(row, content).attempt_count = row.attempt_count
           /\ \A code \in Errors :
                /\ fail(row, code) \in Rows
                /\ fail(row, code).status = "failed"
                /\ fail(row, code).content = row.content
                /\ fail(row, code).referenced_finding_ids = row.referenced_finding_ids
                /\ fail(row, code).attempt_count = row.attempt_count
<1>1. begin_generation(row) \in Rows
  <2>1. row.attempt_count \in Nat
    BY DEF Rows
  <2> DEFINE count == row.attempt_count + 1
  <2>2. count \in Nat
    BY <2>1
  <2>3. begin_generation(row) =
          [row EXCEPT !.status = "generating", !.error = None, !.attempt_count = count]
    BY DEF Rows, begin_generation
  <2> HIDE DEF count
  <2>4. [row EXCEPT !.status = "generating", !.error = None, !.attempt_count = count]
          \in Rows
    BY <2>2 DEF Rows
  <2> QED
    BY <2>3, <2>4
<1>2. /\ begin_generation(row).status = "generating"
      /\ begin_generation(row).content = row.content
      /\ begin_generation(row).referenced_finding_ids = row.referenced_finding_ids
      /\ begin_generation(row).error = None
      /\ begin_generation(row).attempt_count = row.attempt_count + 1
  BY DEF Rows, begin_generation
<1>3. ASSUME NEW content \in Contents
      PROVE  /\ complete(row, content) \in Rows
             /\ complete(row, content).status = "ready"
             /\ complete(row, content).content = content
             /\ complete(row, content).referenced_finding_ids = content.finding_ids
             /\ complete(row, content).error = None
             /\ complete(row, content).attempt_count = row.attempt_count
  BY DEF Rows, Contents, complete
<1>4. ASSUME NEW code \in Errors
      PROVE  /\ fail(row, code) \in Rows
             /\ fail(row, code).status = "failed"
             /\ fail(row, code).content = row.content
             /\ fail(row, code).referenced_finding_ids = row.referenced_finding_ids
             /\ fail(row, code).attempt_count = row.attempt_count
  BY DEF Rows, fail
<1> QED
  BY <1>1, <1>2, <1>3, <1>4

\* Ids of the run's findings make citations.
LEMMA CitationsOfRun ==
    ASSUME findings \in FindingSets, NEW ids \in Seq(Ids(findings))
    PROVE  ids \in Citations /\ Range(ids) \subseteq Ids(findings)
<1>1. Ids(findings) \subseteq UNION {Ids(fs) : fs \in FindingSets}
  OBVIOUS
<1>2. ids \in Citations
  <2> DEFINE All == UNION {Ids(fs) : fs \in FindingSets}
  <2>1. ids \in Seq(All)
    <3>1. Ids(findings) \subseteq All
      BY <1>1
    <3> HIDE DEF All
    <3> QED
      BY <3>1
  <2> QED
    BY <2>1 DEF Citations
<1> QED
  BY <1>2 DEF Range

\* An answer is a content, and a content is not None.
LEMMA ContentsOfRun ==
    ASSUME findings \in FindingSets, NEW answer, IsAnswer(answer, Ids(findings))
    PROVE  /\ answer \in Contents /\ answer # None
           /\ answer.finding_ids \in Citations
           /\ Range(answer.finding_ids) \subseteq Ids(findings)
<1>1. answer.finding_ids \in Seq(Ids(findings))
  BY DEF IsAnswer
<1>2. answer.finding_ids \in Citations /\ Range(answer.finding_ids) \subseteq Ids(findings)
  BY <1>1, CitationsOfRun
<1> QED
  BY <1>2, NoneAssumption DEF IsAnswer, Contents

Fields == {"pc", "row", "facts", "answer"}

\* A step of task t leaves the other tasks alone.
Moved(t) ==
    /\ DOMAIN task' = Tasks
    /\ DOMAIN task'[t] = Fields
    /\ \A s \in Tasks \ {t} : task'[s] = task[s]

\* Goto takes one task to the given state and leaves the others.
LEMMA GotoWrites ==
    ASSUME TasksOK, NEW t \in Tasks, NEW to, Goto(t, to), DOMAIN to = Fields
    PROVE  Moved(t) /\ task'[t] = to
  BY DEF Goto, TasksOK, Moved

\* Step writes the label of a task.
LEMMA StepWrites ==
    ASSUME TasksOK, NEW t \in Tasks, NEW pc, Step(t, pc)
    PROVE  /\ Moved(t)
           /\ task'[t].pc = pc
           /\ task'[t].row = task[t].row
           /\ task'[t].answer = task[t].answer
<1> DEFINE to == [task[t] EXCEPT !.pc = pc]
<1>1. DOMAIN task[t] = Fields
  BY DEF TasksOK, Fields
<1>2. Moved(t) /\ task'[t] = to
  BY <1>1, GotoWrites DEF Step
<1> QED
  BY <1>1, <1>2 DEF Fields

\* Stop writes the label and forgets what the task has read.
LEMMA StopWrites ==
    ASSUME TasksOK, NEW t \in Tasks, NEW pc, Stop(t, pc)
    PROVE  /\ Moved(t)
           /\ task'[t].pc = pc
           /\ task'[t].row = None
<1> DEFINE to == [pc |-> pc, row |-> None, facts |-> None, answer |-> None]
<1>1. Goto(t, to) /\ DOMAIN to = Fields
  BY DEF Stop, Fields
<1>2. Moved(t) /\ task'[t] = to
  BY <1>1, GotoWrites
<1> QED
  BY <1>2
-----------------------------------------------------------------------------
(* The invariant is inductive.                                                *)

Labels == Working \union {"idle", "inserting", "queued", "refused", "done", "crashed", "lost"}

\* Before the begin: the labels of NotBegun.
Waiting == {"idle", "inserting", "queued", "read"}

\* What a step of task t may leave it with: a label of the program, a row that
\* it had or has just read, what the label asks for, and no begin undone.
Sound(t) ==
    /\ task'[t].pc \in Labels
    /\ task'[t].pc \in Waiting => task[t].pc \in Waiting
    /\ task'[t].pc \in Begun => task[t].pc \in Begun
    /\ task'[t].row \in {None, insight, task[t].row}
    /\ task'[t].pc = "read" => task'[t].row # None /\ CanBegin(task'[t].row)
    /\ task'[t].pc \in {"answered", "completing"} =>
         IsAnswer(task'[t].answer, Ids(findings))
    /\ task'[t].pc = "failing" => task'[t].answer \in Errors
    /\ run # "deleted" /\ insight = None => task'[t].pc \in {"idle", "inserting"}

\* A set of tasks is finite.
LEMMA FiniteTasks ==
    ASSUME NEW S \in SUBSET Tasks
    PROVE  /\ IsFiniteSet(S)
           /\ Cardinality(S) \in Nat
           /\ Cardinality(S) <= Cardinality(Tasks)
           /\ Cardinality(Tasks) \in Nat
  BY TasksAssumption, FS_Subset, FS_CardinalityType

\* A step after which fewer tasks wait pays for no more calls than before.
LEMMA WaitersShrink ==
    ASSUME NotBegun' \subseteq NotBegun, CallsArePaid, calls \in Nat, calls' = calls
    PROVE  CallsArePaid'
<1>1. NotBegun \in SUBSET Tasks /\ NotBegun' \in SUBSET Tasks
  BY DEF NotBegun
<1>2. Cardinality(NotBegun') <= Cardinality(NotBegun)
  BY <1>1, FiniteTasks, FS_Subset
<1>3. /\ Cardinality(NotBegun) \in Nat
      /\ Cardinality(NotBegun') \in Nat
      /\ Cardinality(Tasks) \in Nat
  BY <1>1, FiniteTasks
<1> QED
  BY <1>2, <1>3 DEF CallsArePaid

\* A sound step of a task that writes no row keeps the invariant.
LEMMA QuietStep ==
    ASSUME InsightInv, NEW t \in Tasks, Moved(t), Sound(t),
           UNCHANGED <<run, findings, insight, calls, blind>>
    PROVE  InsightInv'
<1> USE DEF InsightInv
<1>1. InsightTypeOK'
  BY DEF InsightTypeOK, Moved, Sound, Labels
<1>2. TasksOK'
  BY DEF InsightTypeOK, TasksOK, Moved, Sound, Fields
<1>3. AnswersAreGrounded'
  BY DEF AnswersAreGrounded, Moved, Sound
<1>4. RowIsThere'
  BY DEF RowIsThere, Moved, Sound
<1>5. AttemptsAreMade'
  BY DEF AttemptsAreMade, Moved, Sound
<1>6. ContentWasThere'
  BY DEF ContentWasThere, Moved, Sound
<1>7. ReadyIsGrounded'
  BY DEF ReadyIsGrounded
<1>8. CallsArePaid'
  <2>1. NotBegun' \subseteq NotBegun
    BY DEF NotBegun, Moved, Sound, Waiting
  <2> QED
    BY <2>1, WaitersShrink DEF InsightTypeOK
<1> QED
  BY <1>1, <1>2, <1>3, <1>4, <1>5, <1>6, <1>7, <1>8

\* The steps of a task that write no row are sound.
LEMMA QuietActions ==
    ASSUME InsightInv, NEW t \in Tasks,
           \/ EnsureLookup(t) \/ EnsureRaises(t) \/ Leave(t) \/ ReadRow(t)
           \/ Answer(t) \/ Reread(t) \/ RowGone(t) \/ Crash(t)
    PROVE  Moved(t) /\ Sound(t) /\ UNCHANGED <<run, findings, insight, calls, blind>>
<1> USE DEF InsightInv, Labels, Working, Begun, Waiting
<1>1. CASE EnsureLookup(t)
  BY <1>1, StepWrites DEF EnsureLookup, Sound
<1>2. CASE EnsureRaises(t)
  BY <1>2, StepWrites DEF EnsureRaises, Sound
<1>3. CASE Leave(t)
  BY <1>3, StepWrites DEF Leave, Sound, RowIsThere
<1>4. CASE ReadRow(t)
  <2> DEFINE to == [task[t] EXCEPT !.pc = "read", !.row = insight]
  <2>1. /\ Goto(t, to)
        /\ DOMAIN to = Fields
        /\ to.pc = "read"
        /\ to.row = insight
        /\ to.answer = task[t].answer
    BY <1>4 DEF ReadRow, InsightInv, TasksOK, Fields
  <2> HIDE DEF to
  <2>2. Moved(t) /\ task'[t].pc = "read" /\ task'[t].row = insight
    BY <2>1, GotoWrites DEF Fields
  <2>3. task[t].pc = "queued" /\ run = "succeeded" /\ CanBegin(insight)
    BY <1>4 DEF ReadRow
  <2>4. insight # None
    BY <2>3 DEF RowIsThere
  <2> QED
    BY <1>4, <2>2, <2>3, <2>4 DEF ReadRow, Sound
<1>5. CASE Answer(t)
  <2>0. /\ task[t].pc = "calling"
        /\ UNCHANGED <<run, findings, insight, calls, blind>>
        /\ ~ (run # "deleted" /\ insight = None)
    BY <1>5 DEF Answer, RowIsThere
  <2>1. CASE Step(t, "invalid") \/ Step(t, "unavailable")
    BY <2>0, <2>1, StepWrites DEF Sound
  <2>2. ASSUME NEW response \in Responses,
               Goto(t, [task[t] EXCEPT !.pc = "answered",
                                !.answer = parse_insight_response(response, Ids(findings))])
        PROVE  Moved(t) /\ Sound(t)
    <3> DEFINE answer == parse_insight_response(response, Ids(findings))
               to == [task[t] EXCEPT !.pc = "answered", !.answer = answer]
    <3>1. IsAnswer(answer, Ids(findings))
      BY AnswerIsGrounded
    <3>2. /\ Goto(t, to)
          /\ DOMAIN to = Fields
          /\ to.pc = "answered"
          /\ to.answer = answer
          /\ to.row = task[t].row
      BY <2>2 DEF TasksOK, Fields
    <3> HIDE DEF to
    <3> HIDE DEF answer
    <3>3. /\ Moved(t)
          /\ task'[t].pc = "answered"
          /\ task'[t].answer = answer
          /\ task'[t].row = task[t].row
      BY <3>2, GotoWrites DEF Fields
    <3> QED
      BY <2>0, <3>1, <3>3 DEF Sound
  <2> QED
    BY <1>5, <2>0, <2>1, <2>2 DEF Answer
<1>6. CASE Reread(t)
  <2>0. /\ task[t].pc \in {"answered", "invalid", "unavailable"}
        /\ UNCHANGED <<run, findings, insight, calls, blind>>
        /\ ~ (run # "deleted" /\ insight = None)
    BY <1>6 DEF Reread, RowIsThere
  <2>1. ASSUME task[t].pc = "answered",
               Goto(t, [task[t] EXCEPT !.pc = "completing", !.row = insight])
        PROVE  Moved(t) /\ Sound(t)
    <3> DEFINE to == [task[t] EXCEPT !.pc = "completing", !.row = insight]
    <3>1. /\ Goto(t, to)
          /\ DOMAIN to = Fields
          /\ to.pc = "completing"
          /\ to.row = insight
          /\ to.answer = task[t].answer
      BY <2>1 DEF InsightInv, TasksOK, Fields
    <3> HIDE DEF to
    <3>2. /\ Moved(t)
          /\ task'[t].pc = "completing"
          /\ task'[t].row = insight
          /\ task'[t].answer = task[t].answer
      BY <3>1, GotoWrites DEF Fields
    <3> QED
      BY <2>0, <2>1, <3>2 DEF Sound, AnswersAreGrounded
  <2>2. ASSUME NEW code \in Errors,
               Goto(t, [task[t] EXCEPT !.pc = "failing", !.row = insight, !.answer = code])
        PROVE  Moved(t) /\ Sound(t)
    <3> DEFINE to == [task[t] EXCEPT !.pc = "failing", !.row = insight, !.answer = code]
    <3>1. /\ Goto(t, to)
          /\ DOMAIN to = Fields
          /\ to.pc = "failing"
          /\ to.row = insight
          /\ to.answer = code
      BY <2>2 DEF InsightInv, TasksOK, Fields
    <3> HIDE DEF to
    <3>2. /\ Moved(t)
          /\ task'[t].pc = "failing"
          /\ task'[t].row = insight
          /\ task'[t].answer = code
      BY <3>1, GotoWrites DEF Fields
    <3> QED
      BY <2>0, <3>2 DEF Sound
  <2> QED
    BY <1>6, <2>0, <2>1, <2>2 DEF Reread, Errors
<1>7. CASE RowGone(t)
  BY <1>7, StopWrites DEF RowGone, Sound, RowIsThere
<1>8. CASE Crash(t)
  BY <1>8, StopWrites DEF Crash, Sound, RowIsThere
<1> QED
  BY <1>1, <1>2, <1>3, <1>4, <1>5, <1>6, <1>7, <1>8

\* The insert of the row keeps the invariant.
LEMMA InsertStep ==
    ASSUME InsightInv, NEW t \in Tasks, EnsureInsert(t)
    PROVE  InsightInv'
<1> USE DEF InsightInv
<1>1. /\ task[t].pc = "inserting"
      /\ insight = None
      /\ run # "deleted"
      /\ insight' = Pending
      /\ UNCHANGED <<run, findings, calls, blind>>
  BY DEF EnsureInsert
<1>2. Moved(t) /\ task'[t].pc = "queued" /\ \A s \in Tasks : task'[s].row = None
  BY <1>1, StepWrites DEF EnsureInsert, Moved, RowIsThere
<1>0. <<>> \in Citations /\ Range(<<>>) = {}
  BY DEF Citations, Range
<1>3. /\ Pending \in Rows
      /\ Pending.status = "pending"
      /\ Pending.content = None
      /\ Pending.referenced_finding_ids = <<>>
      /\ Pending.attempt_count = 0
  BY <1>0 DEF Pending, Rows
<1>4. calls \in Nat /\ calls <= Cardinality(Tasks) /\ Cardinality(Tasks) \in Nat
  BY FiniteTasks DEF InsightTypeOK
<1>5. InsightTypeOK'
  BY <1>1, <1>2, <1>3, <1>4 DEF InsightTypeOK, Moved
<1>6. TasksOK'
  BY <1>1, <1>2 DEF TasksOK, Moved, Fields
<1>7. AnswersAreGrounded'
  BY <1>1, <1>2 DEF AnswersAreGrounded, Moved
<1>8. RowIsThere'
  BY <1>1, <1>3, NoneAssumption DEF RowIsThere
<1>9. AttemptsAreMade'
  BY <1>1, <1>2, <1>3, <1>4 DEF AttemptsAreMade
<1>10. ContentWasThere'
  BY <1>1, <1>2 DEF ContentWasThere
<1>11. ReadyIsGrounded'
  BY <1>0, <1>1, <1>3 DEF ReadyIsGrounded
<1>12. CallsArePaid'
  <2>1. NotBegun' \subseteq NotBegun
    BY <1>1, <1>2 DEF NotBegun, Moved
  <2> QED
    BY <1>1, <1>4, <2>1, WaitersShrink
<1> QED
  BY <1>5, <1>6, <1>7, <1>8, <1>9, <1>10, <1>11, <1>12

\* The begin of a generation keeps the invariant: its task has counted one
\* attempt more than it has read, and no longer waits.
LEMMA BeginStep ==
    ASSUME InsightInv, NEW t \in Tasks, Begin(t)
    PROVE  InsightInv'
<1> USE DEF InsightInv
<1> DEFINE row == task[t].row
           new == begin_generation(row)
           to == [task[t] EXCEPT !.pc = "calling", !.facts = build_insight_input(findings)]
<1>1. /\ task[t].pc = "read"
      /\ insight # None
      /\ insight' = Flush(row, new)
      /\ calls' = calls + 1
      /\ blind' \in BOOLEAN
      /\ UNCHANGED <<run, findings>>
  BY DEF Begin, Write
<1>2. /\ Moved(t)
      /\ task'[t].pc = "calling"
      /\ task'[t].row = row
  <2>1. /\ Goto(t, to)
        /\ DOMAIN to = Fields
        /\ to.pc = "calling"
        /\ to.row = task[t].row
        /\ to.answer = task[t].answer
    BY DEF Begin, InsightInv, TasksOK, Fields
  <2> HIDE DEF to
  <2> QED
    BY <2>1, GotoWrites DEF Fields
<1>3. row \in Rows /\ insight \in Rows /\ CanBegin(row) /\ row # None
  BY <1>1 DEF TasksOK, InsightTypeOK
<1>4. row.attempt_count \in Nat /\ row.attempt_count + 1 # row.attempt_count
  BY <1>3 DEF Rows
<1>5. /\ insight' \in Rows
      /\ insight'.status = "generating"
      /\ insight'.content = insight.content
      /\ insight'.referenced_finding_ids = insight.referenced_finding_ids
      /\ insight'.attempt_count = row.attempt_count + 1
  BY <1>1, <1>3, <1>4, FlushWrites, RowTransitions DEF CanBegin
<1> HIDE DEF row, new, to
<1>6. calls \in Nat /\ row.attempt_count <= calls
  BY <1>3 DEF InsightTypeOK, AttemptsAreMade, row
<1>7. CallsArePaid' /\ calls' <= Cardinality(Tasks)
  <2>1. t \in NotBegun /\ NotBegun \in SUBSET Tasks
    BY <1>1 DEF NotBegun
  <2>2. NotBegun' = NotBegun \ {t}
    BY <1>2 DEF NotBegun, Moved
  <2>3. Cardinality(NotBegun') = Cardinality(NotBegun) - 1
    BY <2>1, <2>2, FiniteTasks, FS_RemoveElement
  <2>4. /\ Cardinality(NotBegun) \in Nat
        /\ Cardinality(NotBegun') \in Nat
        /\ Cardinality(Tasks) \in Nat
    BY <2>1, <2>2, FiniteTasks
  <2> QED
    BY <1>1, <1>6, <2>3, <2>4 DEF CallsArePaid
<1>8. InsightTypeOK'
  <2>1. insight' \in Rows /\ insight'.attempt_count <= Cardinality(Tasks)
    BY <1>1, <1>4, <1>5, <1>6, <1>7, FiniteTasks
  <2>2. calls' \in 0..Cardinality(Tasks)
    BY <1>1, <1>6, <1>7, FiniteTasks
  <2> QED
    BY <1>1, <1>2, <2>1, <2>2 DEF InsightTypeOK, Moved, Working, Begun
<1>9. TasksOK'
  BY <1>1, <1>2, <1>3 DEF TasksOK, Moved, Fields
<1>10. AnswersAreGrounded'
  BY <1>1, <1>2 DEF AnswersAreGrounded, Moved
<1>11. RowIsThere'
  BY <1>1, <1>5, NoneAssumption DEF RowIsThere
<1>12. AttemptsAreMade'
  <2>1. insight'.attempt_count <= calls'
    BY <1>1, <1>4, <1>5, <1>6
  <2>2. \A s \in Tasks : task'[s].row = task[s].row
    BY <1>2 DEF Moved, row
  <2>3. \A s \in Tasks : task[s].row # None => task[s].row \in Rows
    BY DEF TasksOK
  <2>4. \A s \in Tasks : task'[s].row # None => task'[s].row.attempt_count <= calls'
    BY <1>1, <1>6, <2>2, <2>3 DEF AttemptsAreMade, Rows
  <2> QED
    BY <2>1, <2>4 DEF AttemptsAreMade
<1>13. ContentWasThere'
  BY <1>1, <1>2, <1>5 DEF ContentWasThere, Moved, row
<1>14. ReadyIsGrounded'
  BY <1>1, <1>5 DEF ReadyIsGrounded
<1> QED
  BY <1>7, <1>8, <1>9, <1>10, <1>11, <1>12, <1>13, <1>14

\* What the end of a generation writes: a grounded content, or a failure that
\* leaves the content as it is committed.
LEMMA FinishWrites ==
    ASSUME InsightInv, NEW t \in Tasks, Finish(t)
    PROVE  /\ insight \in Rows /\ insight' \in Rows
           /\ insight'.attempt_count = insight.attempt_count
           /\ insight.content # None => insight'.content # None
           /\ insight'.content # None =>
                insight'.content = insight.content \/ IsAnswer(insight'.content, Ids(findings))
           /\ Range(insight'.referenced_finding_ids) \subseteq Ids(findings)
           /\ insight'.status = "ready" => insight'.content # None
           /\ task[t].row = insight /\ insight'.status = "ready" =>
                \/ insight' = insight
                \/ /\ insight'.error = None
                   /\ insight'.referenced_finding_ids = insight'.content.finding_ids
<1> DEFINE row == task[t].row
           answer == task[t].answer
<1>1. /\ task[t].pc \in {"completing", "failing"}
      /\ insight # None
      /\ row # None
      /\ insight' = Flush(row, IF task[t].pc = "completing" THEN complete(row, answer)
                                                            ELSE fail(row, answer))
  BY DEF Finish, Write
<1>2. row \in Rows /\ insight \in Rows
  BY <1>1 DEF InsightInv, TasksOK, InsightTypeOK
<1>3. row.content # None => insight.content # None
  BY <1>1 DEF InsightInv, ContentWasThere
<1>4. /\ insight.status = "ready" => insight.content # None
      /\ Range(insight.referenced_finding_ids) \subseteq Ids(findings)
  BY <1>1 DEF InsightInv, ReadyIsGrounded
<1>5. findings \in FindingSets
  BY DEF InsightInv, InsightTypeOK
<1>6. CASE task[t].pc = "completing"
  <2>1. IsAnswer(answer, Ids(findings))
    BY <1>6 DEF InsightInv, AnswersAreGrounded
  <2>2. /\ answer \in Contents /\ answer # None
        /\ Range(answer.finding_ids) \subseteq Ids(findings)
    BY <1>5, <2>1, ContentsOfRun
  <2> DEFINE new == complete(row, answer)
  <2>3. insight' = Flush(row, new)
    BY <1>1, <1>6
  <2>4. /\ new \in Rows
        /\ new.status = "ready"
        /\ new.content = answer
        /\ new.referenced_finding_ids = answer.finding_ids
        /\ new.error = None
        /\ new.attempt_count = row.attempt_count
    BY <1>2, <2>2, RowTransitions
  <2> HIDE DEF new, row, answer
  <2>5. /\ insight' \in Rows
        /\ insight'.attempt_count = insight.attempt_count
        /\ insight'.content = IF answer = row.content THEN insight.content ELSE answer
        /\ insight'.referenced_finding_ids \in
             {insight.referenced_finding_ids, answer.finding_ids}
        /\ row = insight => insight' = new
    BY <1>2, <2>3, <2>4, FlushWrites
  <2>6. Range(insight'.referenced_finding_ids) \subseteq Ids(findings)
    BY <1>4, <2>2, <2>5
  <2> QED
    BY <1>2, <1>3, <2>1, <2>2, <2>4, <2>5, <2>6 DEF row
<1>7. CASE task[t].pc = "failing"
  <2>1. answer \in Errors
    BY <1>7 DEF InsightInv, AnswersAreGrounded
  <2> DEFINE new == fail(row, answer)
  <2>2. insight' = Flush(row, new)
    BY <1>1, <1>7
  <2>3. /\ new \in Rows
        /\ new.status = "failed"
        /\ new.content = row.content
        /\ new.referenced_finding_ids = row.referenced_finding_ids
        /\ new.attempt_count = row.attempt_count
    BY <1>2, <2>1, RowTransitions
  <2> HIDE DEF new, row, answer
  <2>4. /\ insight' \in Rows
        /\ insight'.attempt_count = insight.attempt_count
        /\ insight'.content = insight.content
        /\ insight'.referenced_finding_ids = insight.referenced_finding_ids
        /\ insight'.status \in {"failed", insight.status}
        /\ row = insight => insight' = new
    BY <1>2, <2>2, <2>3, FlushWrites
  <2>5. \/ ~ (insight'.content # None)
        \/ insight'.content = insight.content
    BY <2>4
  <2> QED
    BY <1>2, <1>4, <2>3, <2>4, <2>5 DEF row
<1> QED
  BY <1>1, <1>6, <1>7

\* The end of a generation keeps the invariant.
LEMMA FinishStep ==
    ASSUME InsightInv, NEW t \in Tasks, Finish(t)
    PROVE  InsightInv'
<1> USE DEF InsightInv
<1>1. /\ insight # None
      /\ task[t].pc \in {"completing", "failing"}
      /\ blind' \in BOOLEAN
      /\ UNCHANGED <<run, findings, calls>>
  BY DEF Finish, Write
<1>2. Moved(t) /\ task'[t].pc = "done" /\ task'[t].row = None
  BY StopWrites DEF Finish
<1>3. /\ insight \in Rows /\ insight' \in Rows
      /\ insight'.attempt_count = insight.attempt_count
      /\ insight.content # None => insight'.content # None
  BY FinishWrites
<1>4. InsightTypeOK'
  BY <1>1, <1>2, <1>3 DEF InsightTypeOK, Moved
<1>5. TasksOK'
  BY <1>1, <1>2 DEF TasksOK, Moved, Fields
<1>6. AnswersAreGrounded'
  BY <1>1, <1>2 DEF AnswersAreGrounded, Moved
<1>7. RowIsThere'
  BY <1>1, <1>3, NoneAssumption DEF RowIsThere
<1>8. AttemptsAreMade'
  BY <1>1, <1>2, <1>3 DEF AttemptsAreMade, Moved
<1>9. ContentWasThere'
  BY <1>1, <1>2, <1>3 DEF ContentWasThere, Moved
<1>10. ReadyIsGrounded'
  <2>1. findings \in FindingSets
    BY DEF InsightTypeOK
  <2>2. /\ insight'.status = "ready" => insight'.content # None
        /\ Range(insight'.referenced_finding_ids) \subseteq Ids(findings)
    BY FinishWrites
  <2>3. ASSUME NEW answer, IsAnswer(answer, Ids(findings))
        PROVE  /\ Range(answer.finding_ids) \subseteq Ids(findings)
               /\ Len(answer.finding_ids) <= MaxTop
    BY <2>1, <2>3, ContentsOfRun DEF IsAnswer
  <2>4. insight'.content # None =>
          /\ Range(insight'.content.finding_ids) \subseteq Ids(findings)
          /\ Len(insight'.content.finding_ids) <= MaxTop
    BY <1>1, <2>3, FinishWrites DEF ReadyIsGrounded
  <2> QED
    BY <1>1, <2>2, <2>4 DEF ReadyIsGrounded
<1>11. CallsArePaid'
  <2>1. NotBegun' \subseteq NotBegun
    BY <1>1, <1>2 DEF NotBegun, Moved
  <2> QED
    BY <1>1, <2>1, WaitersShrink DEF InsightTypeOK
<1> QED
  BY <1>4, <1>5, <1>6, <1>7, <1>8, <1>9, <1>10, <1>11

\* The end and the deletion of the run keep the invariant, and so does a step
\* of something else.
LEMMA RunStep ==
    ASSUME InsightInv, FinishRun \/ DeleteRun \/ UNCHANGED vars
    PROVE  InsightInv'
<1> USE DEF InsightInv
<1>1. /\ UNCHANGED <<findings, task, calls, blind>>
      /\ run' \in {"running", "succeeded", "failed", "deleted"}
      /\ insight' \in {insight, None}
      /\ run' # "deleted" => run # "deleted" /\ insight' = insight
  BY DEF FinishRun, DeleteRun, vars, InsightTypeOK
<1>2. InsightTypeOK'
  BY <1>1 DEF InsightTypeOK
<1>3. TasksOK' /\ AnswersAreGrounded' /\ RowIsThere' /\ AttemptsAreMade'
  BY <1>1 DEF TasksOK, AnswersAreGrounded, RowIsThere, AttemptsAreMade
<1>4. ContentWasThere' /\ ReadyIsGrounded'
  BY <1>1 DEF ContentWasThere, ReadyIsGrounded
<1>5. CallsArePaid'
  BY <1>1 DEF CallsArePaid, NotBegun
<1> QED
  BY <1>2, <1>3, <1>4, <1>5

\* The invariant holds at first.
LEMMA InitInv == Init => InsightInv
<1> SUFFICES ASSUME Init PROVE InsightInv
  OBVIOUS
<1> USE DEF Init
<1>1. InsightTypeOK
  <2>1. Cardinality(Tasks) \in Nat
    BY FiniteTasks
  <2>2. calls \in 0..Cardinality(Tasks) /\ \A t \in Tasks : task[t].pc = "idle"
    BY <2>1
  <2> QED
    BY <2>2 DEF InsightTypeOK
<1>2. TasksOK /\ AnswersAreGrounded /\ RowIsThere /\ AttemptsAreMade
  BY DEF TasksOK, AnswersAreGrounded, RowIsThere, AttemptsAreMade
<1>3. ContentWasThere /\ ReadyIsGrounded
  BY DEF ContentWasThere, ReadyIsGrounded
<1>4. CallsArePaid
  BY FiniteTasks DEF CallsArePaid, NotBegun
<1> QED
  BY <1>1, <1>2, <1>3, <1>4 DEF InsightInv

\* Every step keeps it.
LEMMA InvStep == InsightInv /\ [Next]_vars => InsightInv'
  BY QuietStep, QuietActions, InsertStep, BeginStep, FinishStep, RunStep
  DEF Next, Request, Background

\* So it holds in every reachable state.
LEMMA InsightInvHolds == Spec => []InsightInv
  BY InitInv, InvStep, PTL DEF Spec

\* Every reachable state has its types, and no row counts more attempts than
\* there were requests (AIInsightRecord, begin_generation).
THEOREM InsightsTypeCorrect == Spec => []InsightTypeOK
<1>1. InsightInv => InsightTypeOK
  BY DEF InsightInv
<1> QED
  BY <1>1, InsightInvHolds, PTL

\* However the tasks overlap, whatever the model answers and wherever a process
\* is lost, a ready insight has content and cites findings of its own run only
\* (parse_insight_response, complete).
THEOREM InsightsAreGrounded == Spec => []ReadyIsGrounded
<1>1. InsightInv => ReadyIsGrounded
  BY DEF InsightInv
<1> QED
  BY <1>1, InsightInvHolds, PTL

\* Content once shown is only replaced by other content: no begin, no failure
\* and no late task of an earlier generation takes it away (fail).
THEOREM InsightContentIsKept == Spec => ContentIsKept
<1> DEFINE Kept == insight # None /\ insight.content # None /\ insight' # None
                     => insight'.content # None
<1>1. ASSUME InsightInv, [Next]_vars
      PROVE  [Kept]_vars
  <2>1. ASSUME NEW t \in Tasks, EnsureInsert(t)
        PROVE  Kept
    BY <2>1 DEF EnsureInsert
  <2>2. ASSUME NEW t \in Tasks, Begin(t)
        PROVE  Kept
    <3>1. /\ task[t].row \in Rows
          /\ insight # None => insight \in Rows
      BY <1>1, <2>2 DEF Begin, InsightInv, TasksOK, InsightTypeOK
    <3> QED
      BY <2>2, <3>1, FlushWrites, RowTransitions DEF Begin, Write
  <2>3. ASSUME NEW t \in Tasks, Finish(t)
        PROVE  Kept
    BY <1>1, <2>3, FinishWrites
  <2>4. ASSUME UNCHANGED insight \/ insight' = None
        PROVE  Kept
    BY <2>4
  <2>5. CASE UNCHANGED vars
    BY <2>5
  <2>6. CASE FinishRun \/ DeleteRun
    BY <2>4, <2>6 DEF FinishRun, DeleteRun
  <2>7. ASSUME NEW t \in Tasks,
               \/ EnsureLookup(t) \/ EnsureRaises(t) \/ Leave(t) \/ ReadRow(t)
               \/ Answer(t) \/ Reread(t) \/ RowGone(t) \/ Crash(t)
        PROVE  Kept
    BY <1>1, <2>4, <2>7, QuietActions
  <2> HIDE DEF Kept
  <2> QED
    BY <1>1, <2>1, <2>2, <2>3, <2>5, <2>6, <2>7 DEF Next, Request, Background
<1> QED
  BY <1>1, InsightInvHolds, PTL DEF Spec, ContentIsKept

-----------------------------------------------------------------------------
(* Tasks that write what they have read.                                      *)

FreshInv == InsightInv /\ FreshRow

\* A begin on the row that was read finds no other task begun, and marks it.
LEMMA FreshBegin ==
    ASSUME FreshInv, NEW t \in Tasks, Begin(t), ~blind'
    PROVE  FreshRow' /\ insight.status # "ready"
<1> USE DEF FreshInv
<1> DEFINE to == [task[t] EXCEPT !.pc = "calling", !.facts = build_insight_input(findings)]
<1>1. /\ task[t].pc = "read"
      /\ insight # None
      /\ insight' = Flush(task[t].row, begin_generation(task[t].row))
      /\ task[t].row = insight
      /\ ~blind
      /\ calls' = calls + 1
      /\ run' = run
  BY DEF Begin, Write
<1>2. /\ Goto(t, to)
      /\ DOMAIN to = Fields
      /\ to.pc = "calling"
  BY DEF Begin, InsightInv, TasksOK, Fields
<1> HIDE DEF to
<1>3. Moved(t) /\ task'[t].pc = "calling"
  BY <1>2, GotoWrites DEF InsightInv
<1>4. insight \in Rows /\ insight.attempt_count = calls /\ CanBegin(insight)
  BY <1>1 DEF InsightInv, InsightTypeOK, TasksOK, FreshRow
<1>5. insight' = begin_generation(insight) /\ insight' \in Rows
  BY <1>1, <1>4, FlushWrites, RowTransitions
<1>6. insight'.attempt_count = calls' /\ insight'.status = "generating"
  BY <1>1, <1>4, <1>5, RowTransitions
<1>7. \A s \in Tasks : task[s].pc \notin Begun
  BY <1>1, <1>4 DEF FreshRow, CanBegin
<1>8. \A s \in Tasks : task'[s].pc \in Begun => s = t
  BY <1>3, <1>7 DEF Moved
<1>9. insight' # None
  BY <1>5, NoneAssumption
<1> QED
  BY <1>4, <1>6, <1>8, <1>9 DEF FreshRow, CanBegin

\* An end that writes on the row that was read is that of the only generation.
LEMMA FreshFinish ==
    ASSUME FreshInv, NEW t \in Tasks, Finish(t), ~blind'
    PROVE  FreshRow' /\ insight.status # "ready"
<1> USE DEF FreshInv
<1>1. /\ task[t].pc \in {"completing", "failing"}
      /\ task[t].row = insight
      /\ insight # None
      /\ ~blind
      /\ UNCHANGED <<run, calls>>
  BY DEF Finish, Write
<1>2. Moved(t) /\ task'[t].pc = "done"
  BY StopWrites DEF Finish, InsightInv
<1>3. task[t].pc \in Begun
  BY <1>1 DEF Begun
<1>4. insight.status = "generating" /\ insight.attempt_count = calls
  BY <1>1, <1>3 DEF FreshRow
<1>5. \A s \in Tasks : task'[s].pc \notin Begun
  <2>1. \A s \in Tasks : task[s].pc \in Begun => s = t
    BY <1>1, <1>3 DEF FreshRow
  <2>2. task'[t].pc \notin Begun
    BY <1>2 DEF Begun
  <2> QED
    BY <1>2, <2>1, <2>2 DEF Moved
<1>6. /\ insight' \in Rows
      /\ insight'.attempt_count = calls'
      /\ insight'.status = "ready" =>
           /\ insight'.error = None
           /\ insight'.referenced_finding_ids = insight'.content.finding_ids
  BY <1>1, <1>4, FinishWrites
<1>7. insight' # None
  BY <1>6, NoneAssumption
<1> QED
  BY <1>4, <1>5, <1>6, <1>7 DEF FreshRow

\* The other steps of a task write at most the first row, before any has begun.
LEMMA FreshQuiet ==
    ASSUME FreshInv, NEW t \in Tasks,
           \/ EnsureLookup(t) \/ EnsureInsert(t) \/ EnsureRaises(t) \/ Leave(t)
           \/ ReadRow(t) \/ Answer(t) \/ Reread(t) \/ RowGone(t) \/ Crash(t)
    PROVE  FreshRow'
<1> USE DEF FreshInv
<1>1. CASE EnsureInsert(t)
  <2>1. /\ insight = None
        /\ run # "deleted"
        /\ insight' = Pending
        /\ UNCHANGED <<calls, blind>>
    BY <1>1 DEF EnsureInsert
  <2>2. Moved(t) /\ task'[t].pc = "queued"
    BY <1>1, StepWrites DEF EnsureInsert, InsightInv
  <2>3. \A s \in Tasks : task'[s].pc \notin Begun
    BY <2>1, <2>2 DEF InsightInv, RowIsThere, Moved, Begun
  <2>4. Pending.status = "pending" /\ Pending.attempt_count = 0 /\ Pending # None
    <3>1. <<>> \in Citations
      BY DEF Citations
    <3>2. Pending \in Rows
      BY <3>1 DEF Pending, Rows
    <3> QED
      BY <3>2, NoneAssumption DEF Pending
  <2> QED
    BY <2>1, <2>3, <2>4 DEF FreshRow
<1>2. CASE ~EnsureInsert(t)
  <2>1. Moved(t) /\ Sound(t) /\ UNCHANGED <<run, findings, insight, calls, blind>>
    BY <1>2, QuietActions
  <2>2. \A s \in Tasks : task'[s].pc \in Begun => task[s].pc \in Begun
    BY <2>1 DEF Moved, Sound
  <2> QED
    BY <2>1, <2>2 DEF FreshRow
<1> QED
  BY <1>1, <1>2

\* What has been written blindly stays so.
LEMMA BlindStays == InsightInv /\ [Next]_vars => (blind => blind')
<1> SUFFICES ASSUME InsightInv, [Next]_vars, blind
             PROVE  blind'
  OBVIOUS
<1>1. ASSUME NEW t \in Tasks, EnsureInsert(t) \/ Begin(t) \/ Finish(t)
      PROVE  blind'
  BY <1>1 DEF EnsureInsert, Begin, Finish, Write
<1>2. ASSUME NEW t \in Tasks,
             \/ EnsureLookup(t) \/ EnsureRaises(t) \/ Leave(t) \/ ReadRow(t)
             \/ Answer(t) \/ Reread(t) \/ RowGone(t) \/ Crash(t)
      PROVE  blind'
  BY <1>2, QuietActions
<1>3. CASE FinishRun \/ DeleteRun \/ UNCHANGED vars
  BY <1>3 DEF FinishRun, DeleteRun, vars
<1> QED
  BY <1>1, <1>2, <1>3 DEF Next, Request, Background

\* Every step keeps the fresh row.
LEMMA FreshStep == FreshInv /\ [Next]_vars => FreshInv'
<1> SUFFICES ASSUME FreshInv, [Next]_vars
             PROVE  FreshInv'
  OBVIOUS
<1>1. InsightInv' /\ (blind => blind')
  BY InvStep, BlindStays DEF FreshInv
<1>2. CASE blind'
  BY <1>1, <1>2 DEF FreshInv, FreshRow
<1>3. CASE FinishRun \/ DeleteRun \/ UNCHANGED vars
  <2>1. FreshRow'
    BY <1>3 DEF FreshInv, FreshRow, FinishRun, DeleteRun, vars
  <2> QED
    BY <1>1, <2>1 DEF FreshInv
<1>4. ASSUME ~blind', NEW t \in Tasks, Request(t) \/ Background(t) \/ Crash(t)
      PROVE  FreshRow'
  BY <1>4, FreshBegin, FreshFinish, FreshQuiet DEF Request, Background
<1> QED
  BY <1>1, <1>2, <1>3, <1>4 DEF FreshInv, Next

LEMMA FreshInit == Init => FreshInv
<1> SUFFICES ASSUME Init PROVE FreshRow
  BY InitInv DEF FreshInv
<1> QED
  BY DEF Init, FreshRow, Begun

\* As long as no session has written over a row it had not read, every call was
\* counted, a ready insight has no error, and its references are those of its
\* content (begin_generation, complete, fail).
THEOREM FreshRowsAreExact == Spec => []RowIsExact
<1>1. FreshInv => RowIsExact
  BY DEF FreshInv, FreshRow, RowIsExact
<1> QED
  BY <1>1, FreshInit, FreshStep, PTL DEF Spec

\* As long as none has, a ready insight is final: no second task has begun that
\* could fail later (begin_generation, fail).
THEOREM ReadyInsightsAreFinal == Spec => ReadyIsFinal
<1> DEFINE Final == insight # None /\ insight.status = "ready" /\ insight' # None /\ ~blind'
                      => insight' = insight
<1>1. ASSUME FreshInv, [Next]_vars
      PROVE  [Final]_vars
  <2>1. ASSUME NEW t \in Tasks, EnsureInsert(t)
        PROVE  Final
    BY <2>1 DEF EnsureInsert
  <2>2. ASSUME NEW t \in Tasks, Begin(t)
        PROVE  Final
    BY <1>1, <2>2, FreshBegin
  <2>3. ASSUME NEW t \in Tasks, Finish(t)
        PROVE  Final
    BY <1>1, <2>3, FreshFinish
  <2>4. ASSUME UNCHANGED insight \/ insight' = None
        PROVE  Final
    BY <2>4
  <2>5. CASE UNCHANGED vars
    BY <2>5
  <2>6. CASE FinishRun \/ DeleteRun
    BY <2>4, <2>6 DEF FinishRun, DeleteRun
  <2>7. ASSUME NEW t \in Tasks,
               \/ EnsureLookup(t) \/ EnsureRaises(t) \/ Leave(t) \/ ReadRow(t)
               \/ Answer(t) \/ Reread(t) \/ RowGone(t) \/ Crash(t)
        PROVE  Final
    BY <1>1, <2>4, <2>7, QuietActions DEF FreshInv
  <2> HIDE DEF Final
  <2> QED
    BY <1>1, <2>1, <2>2, <2>3, <2>5, <2>6, <2>7 DEF Next, Request, Background
<1> QED
  BY <1>1, FreshInit, FreshStep, PTL DEF Spec, ReadyIsFinal

-----------------------------------------------------------------------------
(* What the model is told.                                                    *)

\* The key of the sort orders the findings of a run.
LEMMA BeforeOrders ==
    ASSUME NEW fs \in FindingSets
    PROVE  /\ \A f \in fs : ~Before(f, f)
           /\ \A f, g \in fs : f = g \/ Before(f, g) \/ Before(g, f)
           /\ \A f, g, h \in fs : Before(f, g) /\ Before(g, h) => Before(f, h)
<1>1. \A f \in fs : severity_order[f.severity] \in Int /\ f.rule \in Int /\ f.id \in Int
  BY FindingsAssumption DEF severity_order
<1>2. \A f, g \in fs : severity_order[f.severity] = severity_order[g.severity]
                         => f.severity = g.severity
  BY FindingsAssumption DEF severity_order
<1>3. \A f, g \in fs : f.id = g.id => f = g
  BY FindingsAssumption
<1> QED
  BY <1>1, <1>2, <1>3 DEF Before

\* The sorted list holds every finding once, each after those before it.
LEMMA SortedLists ==
    ASSUME NEW fs \in FindingSets
    PROVE  /\ Cardinality(fs) \in Nat
           /\ \A n \in 1..Cardinality(fs) : SeverestFirst(fs)[n] \in fs
           /\ \A f \in fs : \E n \in 1..Cardinality(fs) : SeverestFirst(fs)[n] = f
           /\ \A m, n \in 1..Cardinality(fs) :
                 Before(SeverestFirst(fs)[m], SeverestFirst(fs)[n]) => m < n
<1> DEFINE N == Cardinality(fs)
           Below(f) == {g \in fs : Before(g, f)}
           rank == [f \in fs |-> Cardinality(Below(f))]
           s == SeverestFirst(fs)
<1>1. IsFiniteSet(fs) /\ N \in Nat
  BY FindingsAssumption, FS_CardinalityType
<1>2. \A f \in fs : IsFiniteSet(Below(f)) /\ Cardinality(Below(f)) \in Nat
  <2> SUFFICES ASSUME NEW f \in fs
               PROVE  IsFiniteSet(Below(f)) /\ Cardinality(Below(f)) \in Nat
    OBVIOUS
  <2>1. Below(f) \in SUBSET fs
    OBVIOUS
  <2> HIDE DEF Below
  <2> QED
    BY <1>1, <2>1, FS_Subset, FS_CardinalityType
<1>3. \A f \in fs : rank[f] \in 0..(N - 1)
  <2> SUFFICES ASSUME NEW f \in fs
               PROVE  rank[f] \in 0..(N - 1)
    OBVIOUS
  <2>1. Below(f) \in SUBSET fs /\ f \notin Below(f)
    BY BeforeOrders
  <2>2. rank[f] = Cardinality(Below(f))
    OBVIOUS
  <2> HIDE DEF Below, rank
  <2>3. Cardinality(Below(f)) <= N /\ Cardinality(Below(f)) # N
    BY <1>1, <2>1, FS_Subset
  <2> QED
    BY <1>1, <1>2, <2>2, <2>3
<1>4. \A f, g \in fs : Before(f, g) => rank[f] < rank[g]
  <2> SUFFICES ASSUME NEW f \in fs, NEW g \in fs, Before(f, g)
               PROVE  rank[f] < rank[g]
    OBVIOUS
  <2>1. Below(f) \in SUBSET Below(g) /\ f \in Below(g) /\ f \notin Below(f)
    BY BeforeOrders
  <2>2. rank[f] = Cardinality(Below(f)) /\ rank[g] = Cardinality(Below(g))
    OBVIOUS
  <2> HIDE DEF Below, rank
  <2>3. Cardinality(Below(f)) <= Cardinality(Below(g)) /\ Cardinality(Below(f)) # Cardinality(Below(g))
    BY <1>2, <2>1, FS_Subset
  <2> QED
    BY <1>2, <2>2, <2>3
<1>5. \A f, g \in fs : rank[f] = rank[g] => f = g
  <2>1. \A f \in fs : rank[f] \in Int
    BY <1>1, <1>3
  <2> HIDE DEF rank
  <2> QED
    BY <1>4, <2>1, BeforeOrders
<1>6. \A k \in 0..(N - 1) : \E f \in fs : rank[f] = k
  <2> DEFINE T == 0..(N - 1)
  <2>1. IsFiniteSet(T) /\ Cardinality(T) = N
    BY <1>1, FS_Interval
  <2>2. rank \in [fs -> T]
    <3>1. rank = [f \in fs |-> rank[f]]
      OBVIOUS
    <3> HIDE DEF rank
    <3> QED
      BY <1>3, <3>1
  <2> HIDE DEF rank, T
  <2>3. rank \in Injection(fs, T)
    BY <1>5, <2>2 DEF Injection, IsInjective
  <2>4. rank \in Surjection(fs, T)
    BY <2>1, <2>3, FS_Injection
  <2> QED
    BY <2>4 DEF Surjection, T
<1>7. \A n \in 1..N : s[n] \in fs /\ rank[s[n]] = n - 1
  <2> SUFFICES ASSUME NEW n \in 1..N
               PROVE  s[n] \in fs /\ rank[s[n]] = n - 1
    OBVIOUS
  <2>0. n - 1 \in 0..(N - 1)
    BY <1>1
  <2>1. PICK f \in fs : rank[f] = n - 1
    BY <1>6, <2>0
  <2>2. s[n] = CHOOSE g \in fs : Cardinality(Below(g)) = n - 1
    BY DEF SeverestFirst
  <2>3. \A g \in fs : rank[g] = Cardinality(Below(g))
    OBVIOUS
  <2> HIDE DEF Below, rank, s
  <2> QED
    BY <2>1, <2>2, <2>3
<1> HIDE DEF rank, s
<1>8. \A f \in fs : \E n \in 1..N : s[n] = f
  <2> SUFFICES ASSUME NEW f \in fs
               PROVE  \E n \in 1..N : s[n] = f
    OBVIOUS
  <2> DEFINE n == rank[f] + 1
  <2>1. n \in 1..N /\ n - 1 = rank[f]
    BY <1>1, <1>3
  <2> HIDE DEF n
  <2>2. s[n] = f
    BY <1>5, <1>7, <2>1
  <2> QED
    BY <2>1, <2>2
<1>9. \A m, n \in 1..N : Before(s[m], s[n]) => m < n
  <2> SUFFICES ASSUME NEW m \in 1..N, NEW n \in 1..N, Before(s[m], s[n])
               PROVE  m < n
    OBVIOUS
  <2>1. m - 1 < n - 1
    BY <1>4, <1>7
  <2> QED
    BY <1>1, <2>1
<1> QED
  BY <1>1, <1>7, <1>8, <1>9 DEF s

\* One step of build_insight_input.
KeepFirst(top, f) ==
    IF Len(top) = MaxTop \/ \E i \in DOMAIN top : top[i].rule = f.rule
    THEN top ELSE Append(top, f)

\* What is told of the first n findings of the sorted list: the first of each
\* rule, and of every rule while there is room.
Told(fs, n, top) ==
    /\ top \in Seq(fs)
    /\ Len(top) <= MaxTop
    /\ \A i, j \in 1..Len(top) : top[i].rule = top[j].rule => i = j
    /\ Len(top) < MaxTop => \A m \in 1..n : \E i \in 1..Len(top) :
                               top[i].rule = SeverestFirst(fs)[m].rule
    /\ \A i \in 1..Len(top) : \A f \in fs :
          /\ f.rule = top[i].rule => ~Before(f, top[i])
          /\ Before(f, top[i]) => \E j \in 1..i : top[j].rule = f.rule

\* The next finding of the list keeps that.
LEMMA ToldStep ==
    ASSUME NEW fs \in FindingSets, NEW n \in 1..Cardinality(fs), NEW top, Told(fs, n - 1, top)
    PROVE  Told(fs, n, KeepFirst(top, SeverestFirst(fs)[n]))
<1> DEFINE s == SeverestFirst(fs)
           f == s[n]
           new == Append(top, f)
           k == Len(top)
<1>1. /\ Cardinality(fs) \in Nat
      /\ \A m \in 1..Cardinality(fs) : s[m] \in fs
      /\ \A h \in fs : \E m \in 1..Cardinality(fs) : s[m] = h
      /\ \A m \in 1..Cardinality(fs) : Before(s[m], f) => m < n
  BY SortedLists
<1>2. f \in fs /\ k \in Nat /\ n \in Nat /\ DOMAIN top = 1..k
  BY <1>1 DEF Told
<1>3. CASE k = MaxTop
  BY <1>3, MaxTopAssumption DEF KeepFirst, Told
<1>4. CASE k # MaxTop /\ \E i \in 1..k : top[i].rule = f.rule
  <2>1. KeepFirst(top, f) = top
    BY <1>2, <1>4 DEF KeepFirst
  <2>2. \A m \in 1..n : m \in 1..(n - 1) \/ m = n
    BY <1>2
  <2> HIDE DEF s
  <2> QED
    BY <1>4, <2>1, <2>2 DEF Told, s
<1>5. CASE k # MaxTop /\ ~\E i \in 1..k : top[i].rule = f.rule
  <2>1. KeepFirst(top, f) = new
    BY <1>2, <1>5 DEF KeepFirst
  <2>2. k < MaxTop
    <3>1. k <= MaxTop
      BY DEF Told
    <3>2. k # MaxTop
      BY <1>5
    <3> HIDE DEF k
    <3> QED
      BY <1>2, <3>1, <3>2, MaxTopAssumption
  <2>3. new \in Seq(fs) /\ Len(new) = k + 1 /\ new[k + 1] = f /\ \A i \in 1..k : new[i] = top[i]
    BY <1>2 DEF Told
  <2> HIDE DEF s, new, f
  <2>4. \A m \in 1..(n - 1) : \E i \in 1..k : top[i].rule = s[m].rule
    BY <2>2 DEF Told, s
  <2>5. \A i \in 1..(k + 1) : i \in 1..k \/ i = k + 1
    BY <1>2
  <2>6. \A i, j \in 1..(k + 1) : new[i].rule = new[j].rule => i = j
    <3>1. \A i, j \in 1..k : top[i].rule = top[j].rule => i = j
      BY DEF Told
    <3> QED
      BY <1>5, <2>3, <2>5, <3>1
  <2>7. \A m \in 1..n : \E i \in 1..(k + 1) : new[i].rule = s[m].rule
    <3>1. \A m \in 1..n : m \in 1..(n - 1) \/ m = n
      BY <1>2
    <3>2. \A i \in 1..k : i \in 1..(k + 1)
      BY <1>2
    <3>3. k + 1 \in 1..(k + 1)
      BY <1>2
    <3> QED
      BY <2>3, <2>4, <3>1, <3>2, <3>3 DEF f
  <2>8. \A h \in fs : Before(h, f) => \E i \in 1..k : top[i].rule = h.rule
    <3> SUFFICES ASSUME NEW h \in fs, Before(h, f)
                 PROVE  \E i \in 1..k : top[i].rule = h.rule
      OBVIOUS
    <3>1. PICK m \in 1..Cardinality(fs) : s[m] = h
      BY <1>1
    <3>2. m \in 1..(n - 1)
      BY <1>1, <1>2, <3>1
    <3> QED
      BY <2>4, <3>1, <3>2
  <2>9. \A i \in 1..(k + 1) : \A h \in fs :
          /\ h.rule = new[i].rule => ~Before(h, new[i])
          /\ Before(h, new[i]) => \E j \in 1..i : new[j].rule = h.rule
    <3> SUFFICES ASSUME NEW i \in 1..(k + 1), NEW h \in fs
                 PROVE  /\ h.rule = new[i].rule => ~Before(h, new[i])
                        /\ Before(h, new[i]) => \E j \in 1..i : new[j].rule = h.rule
      OBVIOUS
    <3>1. CASE i \in 1..k
      <4>1. /\ h.rule = top[i].rule => ~Before(h, top[i])
            /\ Before(h, top[i]) => \E j \in 1..i : top[j].rule = h.rule
        BY <3>1 DEF Told
      <4>2. \A j \in 1..i : j \in 1..k
        BY <1>2, <3>1
      <4> QED
        BY <2>3, <3>1, <4>1, <4>2
    <3>2. CASE i = k + 1
      <4>1. \A j \in 1..k : j \in 1..i
        BY <1>2, <3>2
      <4> QED
        BY <1>5, <2>3, <2>8, <3>2, <4>1
    <3> QED
      BY <2>5, <3>1, <3>2
  <2>10. Len(new) <= MaxTop
    BY <1>2, <2>2, <2>3, MaxTopAssumption
  <2> QED
    BY <2>1, <2>3, <2>6, <2>7, <2>9, <2>10 DEF Told, s, f
<1> QED
  BY <1>2, <1>3, <1>4, <1>5

\* What the model is told of all findings (build_insight_input).
LEMMA FactsAreTold ==
    ASSUME NEW fs \in FindingSets
    PROVE  Told(fs, Cardinality(fs), build_insight_input(fs))
<1> DEFINE N == Cardinality(fs)
           s == SeverestFirst(fs)
           V == Seq(fs)
           empty == <<>>
           Eq(g) == g = [d \in SUBSET (DOMAIN s) |->
                            IF d = {} THEN empty
                            ELSE LET x == Max(d) IN KeepFirst(g[d \ {x}], s[x])]
           step == [q \in (1..N) \X V |-> KeepFirst(q[2], s[q[1]])]
<1>1. N \in Nat /\ DOMAIN s = 1..N /\ \A n \in 1..N : s[n] \in fs
  BY SortedLists DEF SeverestFirst
<1>2. build_insight_input(fs) = (CHOOSE g : Eq(g))[DOMAIN s]
  BY DEF build_insight_input, FoldLeft, MapThenFoldSet, KeepFirst
<1>3. step \in [(1..N) \X V -> V] /\ empty \in V
  <2> HIDE DEF s
  <2> QED
    BY <1>1 DEF KeepFirst
<1>4. \E g : Eq(g)
  <2>1. PICK g \in [SUBSET (1..N) -> V] : FoldedLeft(g, N, empty, step)
    <3> HIDE DEF step, V, empty, N, Eq
    <3>1. \E g \in [SUBSET (1..N) -> V] : FoldedLeft(g, N, empty, step)
      BY <1>1, <1>3, PrefixesExist
    <3> QED
      BY <3>1
  <2>2. \A d \in SUBSET (1..N) : d # {} => Max(d) \in 1..N
    BY <1>1, MaxIsThere
  <2> HIDE DEF V, empty, N, s
  <2>3. \A d \in SUBSET (1..N) : d # {} =>
           step[<<Max(d), g[d \ {Max(d)}]>>] = KeepFirst(g[d \ {Max(d)}], s[Max(d)])
    BY <2>2
  <2>4. \A d \in SUBSET (1..N) :
           g[d] = IF d = {} THEN empty ELSE KeepFirst(g[d \ {Max(d)}], s[Max(d)])
    <3> HIDE DEF step
    <3> QED
      BY <2>1, <2>3 DEF FoldedLeft
  <2>5. g = [d \in SUBSET (1..N) |-> g[d]]
    OBVIOUS
  <2> QED
    BY <1>1, <2>4, <2>5
<1> DEFINE g == CHOOSE f : Eq(f)
<1>6. Eq(g)
  <2> HIDE DEF Eq
  <2> QED
    BY <1>4
<1> HIDE DEF g, N, s
<1>7. g[1..0] = empty
  <2> HIDE DEF empty
  <2> QED
    BY <1>1, <1>6
<1>8. \A n \in 1..N : g[1..n] = KeepFirst(g[1..(n - 1)], s[n])
  <2> SUFFICES ASSUME NEW n \in 1..N
               PROVE  g[1..n] = KeepFirst(g[1..(n - 1)], s[n])
    OBVIOUS
  <2>1. 1..n # {} /\ Max(1..n) = n /\ (1..n) \ {n} = 1..(n - 1)
    <3>1. n \in Nat /\ n >= 1
      BY <1>1
    <3> QED
      BY <3>1, PrefixStep
  <2>2. 1..n \in SUBSET (DOMAIN s)
    BY <1>1
  <2> HIDE DEF empty
  <2> QED
    BY <1>6, <2>1, <2>2
<1> DEFINE T == {n \in Nat : n <= N /\ ~Told(fs, n, g[1..n])}
<1> HIDE DEF Eq
<1>9. T = {}
  <2> SUFFICES ASSUME T # {} PROVE FALSE
    OBVIOUS
  <2>1. PICK n \in T : \A m \in T : n <= m
    BY LeastMember
  <2>2. n \in Nat /\ n <= N /\ ~Told(fs, n, g[1..n])
    OBVIOUS
  <2>3. n # 0
    <3>1. Told(fs, 0, empty)
      BY MaxTopAssumption DEF Told
    <3> QED
      BY <1>7, <2>2, <3>1
  <2>4. n \in 1..N /\ n - 1 \in Nat /\ n - 1 <= N /\ n - 1 \notin T
    BY <1>1, <2>1, <2>2, <2>3
  <2>5. Told(fs, n - 1, g[1..(n - 1)])
    BY <2>4
  <2>6. Told(fs, n, KeepFirst(g[1..(n - 1)], SeverestFirst(fs)[n]))
    BY <2>4, <2>5, ToldStep DEF N
  <2> QED
    BY <1>8, <2>2, <2>4, <2>6 DEF s
<1>10. Told(fs, N, g[1..N])
  BY <1>1, <1>9
<1> QED
  BY <1>1, <1>2, <1>10 DEF N, g

\* The list is as long as there are rules to tell of, up to MaxTop.
LEMMA FactsCount ==
    ASSUME NEW fs \in FindingSets, NEW facts, Told(fs, Cardinality(fs), facts)
    PROVE  Len(facts) = IF Cardinality({f.rule : f \in fs}) < MaxTop
                        THEN Cardinality({f.rule : f \in fs}) ELSE MaxTop
<1> DEFINE Rules == {f.rule : f \in fs}
           k == Len(facts)
           T == {facts[i].rule : i \in 1..k}
           rule == [i \in 1..k |-> facts[i].rule]
<1>1. k \in Nat /\ \A i \in 1..k : facts[i] \in fs
  BY DEF Told
<1>2. IsFiniteSet(1..k) /\ Cardinality(1..k) = k
  BY <1>1, FS_Interval
<1>3. Cardinality(T) = k
  <2>1. rule \in Bijection(1..k, T)
    BY DEF Told, Bijection, Injection, Surjection, IsInjective
  <2> HIDE DEF rule, T
  <2> QED
    BY <1>2, <2>1, FS_Bijection DEF ExistsBijection
<1>4. IsFiniteSet(Rules)
  <2>1. IsFiniteSet(fs) /\ \A r \in Rules : \E f \in fs : r = f.rule
    BY FindingsAssumption
  <2> DEFINE w == [f \in fs |-> f.rule]
  <2>2. \A r \in Rules : \E f \in fs : r = w[f]
    OBVIOUS
  <2> HIDE DEF w, Rules
  <2> QED
    BY <2>1, <2>2, FiniteImage
<1>5. T \in SUBSET Rules
  BY <1>1
<1>6. k < MaxTop => T = Rules
  <2> SUFFICES ASSUME k < MaxTop, NEW f \in fs
               PROVE  f.rule \in T
    BY <1>5
  <2>1. PICK m \in 1..Cardinality(fs) : SeverestFirst(fs)[m] = f
    BY SortedLists
  <2>2. PICK i \in 1..k : facts[i].rule = f.rule
    BY <2>1 DEF Told
  <2> QED
    BY <2>2
<1> HIDE DEF T, Rules
<1>7. k <= Cardinality(Rules) /\ Cardinality(Rules) \in Nat
  BY <1>3, <1>4, <1>5, FS_Subset, FS_CardinalityType
<1>8. k <= MaxTop
  BY DEF Told
<1> QED
  BY <1>1, <1>3, <1>6, <1>7, <1>8, MaxTopAssumption DEF Rules

\* What a task tells the model is what was built from the findings of the run.
FactsAreBuilt ==
    \A t \in Tasks : task[t].facts # None => task[t].facts = build_insight_input(findings)

\* Whatever findings a run has, the model is told the severest of every rule
\* while there is room and one of a rule at most (build_insight_input).
THEOREM FactsAreFair == Spec => []FactsCoverRules
<1>1. Init => FactsAreBuilt
  BY DEF Init, FactsAreBuilt
<1>2. InsightInv /\ FactsAreBuilt /\ [Next]_vars => FactsAreBuilt'
  <2> SUFFICES ASSUME InsightInv, FactsAreBuilt, [Next]_vars
               PROVE  FactsAreBuilt'
    OBVIOUS
  <2>0. TasksOK /\ DOMAIN task = Tasks
    BY DEF InsightInv, TasksOK
  <2> DEFINE Passes(t, to) == to.facts \in {None, task[t].facts, build_insight_input(findings)}
  <2>1. ASSUME NEW t \in Tasks, NEW to, Goto(t, to), findings' = findings, Passes(t, to)
        PROVE  FactsAreBuilt'
    BY <2>0, <2>1 DEF Goto, FactsAreBuilt
  <2>2. ASSUME UNCHANGED <<task, findings>>
        PROVE  FactsAreBuilt'
    BY <2>2 DEF FactsAreBuilt
  <2>3. CASE FinishRun \/ DeleteRun \/ UNCHANGED vars
    BY <2>2, <2>3 DEF FinishRun, DeleteRun, vars
  <2>4. ASSUME NEW t \in Tasks, Request(t) \/ Background(t) \/ Crash(t)
        PROVE  \E to : Goto(t, to) /\ findings' = findings /\ Passes(t, to)
    <3>0. DOMAIN task[t] = {"pc", "row", "facts", "answer"}
      BY <2>0 DEF InsightInv, TasksOK
    <3>1. /\ \A pc : [task[t] EXCEPT !.pc = pc].facts = task[t].facts
          /\ \A pc, row : [task[t] EXCEPT !.pc = pc, !.row = row].facts = task[t].facts
          /\ \A pc, answer : [task[t] EXCEPT !.pc = pc, !.answer = answer].facts = task[t].facts
          /\ \A pc, row, answer :
                [task[t] EXCEPT !.pc = pc, !.row = row, !.answer = answer].facts = task[t].facts
          /\ \A pc, facts : [task[t] EXCEPT !.pc = pc, !.facts = facts].facts = facts
      BY <3>0
    <3> DEFINE Taken == \E to : Goto(t, to) /\ findings' = findings /\ Passes(t, to)
    <3>2. ASSUME NEW to, Goto(t, to), findings' = findings, Passes(t, to)
          PROVE  Taken
      BY <3>2
    <3> HIDE DEF Taken
    <3>3. ASSUME NEW pc, Step(t, pc), findings' = findings
          PROVE  Taken
      BY <3>1, <3>2, <3>3 DEF Step
    <3>4. ASSUME NEW pc, Stop(t, pc), findings' = findings
          PROVE  Taken
      BY <3>2, <3>4 DEF Stop
    <3>5. ASSUME ReadRow(t) PROVE Taken
      BY <3>1, <3>2, <3>5 DEF ReadRow
    <3>6. ASSUME Begin(t) PROVE Taken
      BY <3>1, <3>2, <3>6 DEF Begin
    <3>7. ASSUME Answer(t) PROVE Taken
      <4>0. findings' = findings
        BY <3>7 DEF Answer
      <4>1. ASSUME NEW answer,
                   Goto(t, [task[t] EXCEPT !.pc = "answered", !.answer = answer])
            PROVE  Taken
        <5> DEFINE to == [task[t] EXCEPT !.pc = "answered", !.answer = answer]
        <5>1. Goto(t, to) /\ to.facts = task[t].facts
          BY <3>1, <4>1
        <5> HIDE DEF to
        <5>2. Passes(t, to)
          BY <5>1
        <5> HIDE DEF Passes
        <5> QED
          BY <3>2, <4>0, <5>1, <5>2
      <4> HIDE DEF Passes
      <4> QED
        BY <3>3, <3>7, <4>0, <4>1 DEF Answer
    <3>8. ASSUME Reread(t) PROVE Taken
      <4>0. findings' = findings
        BY <3>8 DEF Reread, Errors
      <4>1. ASSUME NEW to, Goto(t, to), to.facts = task[t].facts
            PROVE  Taken
        BY <3>2, <4>0, <4>1
      <4> HIDE DEF Passes
      <4>2. ASSUME Goto(t, [task[t] EXCEPT !.pc = "completing", !.row = insight])
            PROVE  Taken
        BY <3>1, <4>1, <4>2
      <4>3. ASSUME NEW answer,
                   Goto(t, [task[t] EXCEPT !.pc = "failing", !.row = insight, !.answer = answer])
            PROVE  Taken
        <5> DEFINE to == [task[t] EXCEPT !.pc = "failing", !.row = insight, !.answer = answer]
        <5>1. Goto(t, to) /\ to.facts = task[t].facts
          BY <3>0, <4>3
        <5> HIDE DEF to
        <5> QED
          BY <4>1, <5>1
      <4>4. \/ Goto(t, [task[t] EXCEPT !.pc = "completing", !.row = insight])
            \/ \E answer \in Errors :
                 Goto(t, [task[t] EXCEPT !.pc = "failing", !.row = insight, !.answer = answer])
        BY <3>8 DEF Reread, Errors
      <4> QED
        BY <4>2, <4>3, <4>4
    <3>9. Taken
      BY <2>4, <3>3, <3>4, <3>5, <3>6, <3>7, <3>8 DEF Request, Background, EnsureLookup,
         EnsureInsert, EnsureRaises, Leave, Finish, RowGone, Crash
    <3> QED
      BY <3>9 DEF Taken
  <2> HIDE DEF Passes
  <2> QED
    BY <2>1, <2>3, <2>4 DEF Next
<1>3. InsightInv /\ FactsAreBuilt => FactsCoverRules
  <2> SUFFICES ASSUME InsightInv, FactsAreBuilt, NEW t \in Tasks, task[t].facts # None
               PROVE  LET facts == task[t].facts
                          Rules == {f.rule : f \in findings}
                      IN  /\ Range(facts) \subseteq findings
                          /\ Len(facts) = IF Cardinality(Rules) < MaxTop
                                          THEN Cardinality(Rules) ELSE MaxTop
                          /\ \A i, j \in DOMAIN facts : facts[i].rule = facts[j].rule => i = j
                          /\ \A i \in DOMAIN facts, f \in findings :
                               /\ f.rule = facts[i].rule => ~Before(f, facts[i])
                               /\ Before(f, facts[i]) => \E j \in 1..i : facts[j].rule = f.rule
    BY DEF FactsCoverRules
  <2> DEFINE facts == task[t].facts
  <2>1. findings \in FindingSets
    BY DEF InsightInv, InsightTypeOK
  <2>2. Told(findings, Cardinality(findings), facts)
    BY <2>1, FactsAreTold DEF FactsAreBuilt
  <2> HIDE DEF facts
  <2>3. Len(facts) = IF Cardinality({f.rule : f \in findings}) < MaxTop
                     THEN Cardinality({f.rule : f \in findings}) ELSE MaxTop
    BY <2>1, <2>2, FactsCount
  <2>4. DOMAIN facts = 1..Len(facts) /\ Range(facts) \subseteq findings
    BY <2>2 DEF Told, Range
  <2> QED
    BY <2>2, <2>3, <2>4 DEF Told, facts
<1> QED
  BY <1>1, <1>2, <1>3, InsightInvHolds, PTL DEF Spec
=============================================================================
