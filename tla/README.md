# ControlCheck AI Core: TLA+ models and proofs

This directory holds TLA+ models of ControlCheck AI Core, the TLC
configurations that model-check them, and proofs checked by TLAPS. File names
and line numbers refer to `src/controlcheck/` of the repository unless they
name another directory.

## 1. Inventory

ControlCheck ingests project-control workbooks (schedule, cost, progress),
runs a rule engine over them, scores the health of a project and lets an
organisation follow the findings up to their closure. It is a FastAPI
application over PostgreSQL (READ COMMITTED, one session per request), an
object store, and a Celery worker with Redis as the broker.

| Component | State | Operations | Talks to | What makes it correct | Here |
|---|---|---|---|---|---|
| Asynchronous analysis jobs (`jobs_api.py`, `persistence/job_repository.py`, `worker/`) | `analysis_jobs` rows, transient uploads, broker messages, the position of every worker | presign, create job, poll, claim, execute, requeue, fail, complete, recover stale | object store, broker, analysis service | one worker at a time per job, no workbook lost before its run is recorded, a settled job stays settled, every job settles; what of it the code keeps, and for which jobs | `AnalysisJobs`, `JobHistory`, `JobContract` |
| Analysis service (`application.py`, `persistence/repositories.py`) | `analysis_runs`, findings, health scores, idempotency records, catalogue versions | `run`, `run_snapshot`, reconcile an in-doubt commit, record a failure | ingestion, engine, database | findings exactly for succeeded runs, a retried operation gives its findings once, true answers | `AnalysisRuns`, `AnalysisContract` |
| Snapshot ingestion (`ingestion/service.py`, `persistence/ingestion_repositories.py`) | `data_snapshots`, raw and canonical rows, stored workbooks | `ingest`, find duplicate, complete, reconcile | object store, database | no snapshot without its object, no object left behind, one snapshot per workbook | `SnapshotIngestion`, `SnapshotRegistry` |
| Findings, actions, governance (`api.py`, `actions_api.py`, `governance_api.py`, `governance.py` and their repositories) | findings, corrective actions, closure approvals, policy, escalations | change a status, create and update an action, close, request and decide an approval, scan and acknowledge escalations | database | closure gates hold, maker is not checker, decisions are final, a pending approval is the one the gate asks for, no duplicate escalation; when requests overlap, what is left of it | `FindingClosure`, `FindingEscalations`, `GovernanceHistory` |
| AI insight (`ai/insight_service.py`, `ai/insights.py`, `AIInsightRepository`) | one insight row per run | ensure pending, begin, complete, fail | language model, database | what is shown cites findings of its run and stays shown, the row is exact and a ready one final until a session writes over a row it has not read, a generation ends | `AIInsights` |
| Workbook extraction, mapping and validation (`ingestion/extractor.py`, `mapper.py`, `ingestion_repositories.py`, `dataset_loader.py`) | none; raw and canonical rows of a snapshot | read the sheets, map and check rows, validate the WBS tree, derive the status of a domain, store, load | | no column is lost, the kept WBS is a forest, the counts agree, blocked domains are reported | `WorkbookExtraction`, `WorkbookMapping`, `GovernedFacts` |
| Control rules, gating, health score (`engine.py`, `rules/`, `health/scoring.py`, `application.py`) | none | gate rules by domain, evaluate the twenty rules, score, withhold | | a rule sees whole sheets, a score is shown only where rules ran, findings have identities | `ControlRules`, `HealthScore` |
| Validated schedule import (`ingestion/preflight_validator.py`, `validated_import.py`) | none | preflight an exported schedule, build a governed workbook from it | ingestion, analysis service | what the preflight passes reaches the rules with its meaning | `ScheduleImport` |
| Database schema and migrations (`alembic/versions/`, `persistence/*models.py`) | 46 tables, `alembic_version` | upgrade, downgrade, delete a project | every component's rows | migrations apply and undo, the schema is the ORM classes', a project can be deleted | `DatabaseSchema`, `SchemaModels`, `Migrations`, `Deployment` |
| Authentication, projects, reports, telemetry, object store, web client, offline evaluation, tools | rows written by one statement each, or none | | | | not modelled |

How they interact. The API calls the analysis service in the request (a small
workbook) or inserts an `analysis_jobs` row for a worker, which calls the same
service. The service calls ingestion, then the engine, and commits findings and
score. Findings are then changed by users through the governance API. All
components share the database; ingestion and the workers share the object
store; workers and beat share the broker. Nothing spans two of these stores
with one transaction, so most hard behaviour is there:

* *Concurrency*: several API instances, pool processes and a beat; requests
  are sequences of READ COMMITTED statements, with almost no row locks.
* *Failure*: a call of the store, a statement, a COMMIT or only its
  acknowledgement is lost; a process is killed between any two steps.
* *Time*: hard time limit of a task, grace period of the stale recovery,
  overdue findings.
* *Retries*: Celery retries, redelivery of a lost worker's message, the beat
  that posts a queued row again and again, clients that repeat a request.

`PROJECT.json` lists under `hazards` where each of these bites.

## 2. Plan

Order: what loses or duplicates a customer's work first.

1. `AnalysisJobs`, `JobHistory` and the abstract `JobContract`; proofs (done).
2. `FindingClosure`, `FindingEscalations`, which EXTENDS it and composes the
   escalation scan with the closure, and `GovernanceHistory`; proofs (done).
3. `SnapshotIngestion`, refining the abstract `SnapshotRegistry`; proofs (done).
4. `AnalysisRuns`, refining the abstract `AnalysisContract`; proofs (done).
5. `AIInsights`: the insight row of a run under overlapping background tasks;
   proofs (done).
6. The pure core: extraction, mapping, stored facts, schedule import, rules and
   score as operators, composed in `AnalysisPipeline`; the schema and its
   migrations, composed with the pipeline in `Deployment`; proofs (done).
7. What section 7 names as left out. None of it has state that several actors
   change.

Each component's proofs are in a module of their own that EXTENDS the component
and TLAPS. The closure and the escalations share one,
`GovernanceProofs`; `AnalysisPipelineProofs` has the upload, the rules and the
score, `DeploymentProofs` the migrations and the deletion. The MC modules add
symmetry sets and the instances (workbooks, schedules, answers of the model).

Where the code has no lock, no version and no constraint, what it is meant to
keep is not kept when two actors overlap. Such a meaning is stated twice. As a
document, docstring or comment has it, without a condition, it is a property of
a *violated* run, and TLC gives the overlap. What is left of it is a property
of a passing run and a theorem: a history variable names the job, request or
scan that was hit, and the property says that nothing else is affected. Neither
the models nor the theorems assume that requests are serial, that one scan runs
at a time, that a task ends within the grace or that a client never posts an
object twice.

No module uses a RECURSIVE operator; `NumberOrder` has the one idea that would
need it, the members of a set of numbers in their order, and `NumberOrderProofs`
what is proved of it and of sums and folds.

## 3. The modules

### 3.1 `AnalysisJobs`: the asynchronous pipeline

The queue table, the transient uploads, the broker and the workers. A worker
executes a task in several transactions and storage calls (`executor.py`
99-150, `tasks.py` 25-62); each is one action and `pc[w]` says which is next:

| `pc` | next in the code | actions |
|---|---|---|
| `started` | `claim_job` | `Claim`, `Skip`, `ClaimRaises` |
| `claimed` | `storage.get` | `Download`, `DownloadFindsNothing`, `DownloadRaises` |
| `downloaded` | `AnalysisService.run` | `Analyse`, `AnalyseRaises` |
| `failing` | `mark_failed` or `requeue` | `Release`, `ReleaseRaises` |
| `analysed` | `mark_completed` | `Complete`, `CompleteRaises` |
| `completed` | `storage.delete` | `DeleteUpload`, `DeleteRaises` |
| `raised` | `process_job`'s handler | `Retry`, `FailPermanently`, `FailPermanentlyRaises` |

`Upload` and `CreateJob` are the client, `Poll` and `RecoverStale` the beat,
`Deliver` the broker, `Tick` the time; `Crash` kills a process whose message is
redelivered, `KillAtTimeLimit` one whose message is acknowledged. Ages and
clocks count ticks: `Grace` stands for `grace_minutes` (30 minutes) and
`TimeLimit` for `task_time_limit` (one hour). The soft limit (3540 s) raises
inside the task; its effect is that of the exceptions of the fault actions.
Redis's redelivery after the visibility timeout gives a second copy of a
message, which `Poll` gives too. The analysis is one step here; its own steps
are `AnalysisRuns`.

`JobHistory` EXTENDS it with what befell each job: `taken`, the jobs whose row
`recover_stale` took from a task that was still executing them; `faulted`, those
of which a transaction raised; how often each row was recovered; how many faults
there were. The code promises its queue semantics only to a job that was spared
the first two, so the properties are of those jobs, with the limits as they are:
the hard limit of a task is twice the grace in every run, as in the code.

`JobContract` is what the queue promises for a job: attempts one at a time, one
run an attempt at most, a completed job names the run of its last attempt, given
up only after `MAX_ATTEMPTS`, final once settled. It is a promise job by job and
ends for a job that is `void`. `JobsContract` is the refinement, with `void` the
jobs that were not spared, or whose counters have left the bounds of the model.
It uses `MAX_ATTEMPTS <= MaxRetries + 1`, which are 3 and 3 in the code
(`RetriesAssumption`).

### 3.2 `FindingClosure` and `FindingEscalations`

One finding, its corrective actions, approvals and policy. A request is a
sequence of reads and one commit: `request[c]` holds what client `c`'s request
has read and which statement is next.

| Request | statements |
|---|---|
| `close_finding` | `StartClose` (authority, evidence, actions), `CheckApproval` (policy, latest approval), `CommitClose` |
| `request_closure_approval` | `StartAsk` (the gate), `CheckReadiness`, `LookForPending` (`request_approval` looks again), `InsertApproval` (its insert and the commit; nothing is asked again) |
| `decide_closure_approval` | `StartDecide`, `CommitDecision` |
| `PatchStatus`, `CreateAction`, `UpdateAction`, `UpdatePolicy` | one step: they write what they were sent, whatever they read |

A row that a session has read keeps its values in that session, another one is
read anew (`SeesPending`). An approval's `requested_at` is the start of its
request, so a row's rank is chosen at `StartAsk` and used at the insert. The
repository refuses `in_review` for a finding although the request schema admits
it and `tests/test_finding_status_guard_v0613.py` calls it valid: `PatchStatus`
does what the repository does.

`FindingEscalations` EXTENDS it with the clock (`Expire`, `Postpone`), any number
of scans and the acknowledgement. A scan is its statements: the time and the
finding (`ScanFinding`), for each subject the look for an active escalation and
the flush of a row (`Escalate`), the overdue actions (`ScanActions`), the commit
that makes the rows visible (`CommitScan`). `EscalationsNext` interleaves both.

`GovernanceHistory` adds which requests were `overtaken` (another one committed a
change of what they had read and will act upon), which approvals such a request
inserted (`blind`), on which subjects a scan was `outrun` by another one after it
had looked, which subjects such a scan escalated (`doubled`), and whether the
policy was ever `relaxed`.

### 3.3 `SnapshotIngestion` and `SnapshotRegistry`

`ingest` as steps of `pc[u]`: `Lookup` (find a duplicate), `Put` (the object,
outside any transaction), `Insert` (the row with its dedupe key), `Fill` (rows,
`storage.exists`, `complete`), `Commit`. The snapshot and its rows are
invisible to others until the COMMIT, so `snapshot` holds committed rows only;
the key of an open transaction is in the unique index already, so `Insert`
waits while another transaction holds the key (`Blocked`). `WriteRaises`,
`CommitRaises` and `Crash` are the ways it can fail; `Reconcile`, `Delete`,
`FindWinner` are the two except blocks.

`SnapshotRegistry` is what this promises: uploads of one workbook share one
snapshot unless a new one is forced, an answer names a registered snapshot of
the same workbook, a refused upload has none then and ever after.
`RegistryContract` is the refinement; the registry's `rows` are the uploads
with a committed snapshot.

Assumption: when a COMMIT raises it has taken effect or never will. A server
that executes it after the client gave up can let `Reconcile` find nothing,
delete the object and then see the snapshot appear; a variant of `CommitRaises`
without the assumption violates `SnapshotHasSource`.

### 3.4 `AnalysisRuns` and `AnalysisContract`

`AnalysisService.run`: `Lookup` of the idempotency key, `Ingest` (one step,
its contract is 3.3), the catalogue (`ReadCatalogue`, and `LoseCatalogue` when
another first analysis inserted the version in between), `Start` (the run is
committed as running), `Engine`, `Complete` (findings, score, status and key in
one COMMIT) and the handler: `Reconcile`, `Fail`. `StartRaises`,
`CompleteRaises`, `ReconcileRaises`, `FailRaises`, `Refuse`, `Crash` are the
faults. A call opens at most one run, so the run has the identity of its call;
`Operations` are what clients want done, `Tries` how often they send it. An API
instance runs the analysis inside its event loop, so overlapping calls are
calls to different instances.

`AnalysisContract` says: results of a run appear at once and stay, a failed
run never has any, a keyed operation of a client that waits for its answers
has results once, every answer is true then and ever after.

### 3.5 `AIInsights`

One run, its row and several requests, each of which leaves a background task.
`EnsureLookup`, `EnsureInsert`, `EnsureRaises` are `ensure_pending`; `Leave`,
`ReadRow`, `Begin`, `Answer`, `Reread`, `Finish`, `RowGone` are `generate` in
its sessions. `content` and `referenced_finding_ids` are two columns, and a
flush writes the columns that the session changed (`Flush`), so two tasks can
leave the content of one beside the references of the other. `blind` and `calls`
are history: whether a session ever wrote over a row that was no longer the one
it had read, and how often the model was called. Overlapping tasks alone do no
harm; two sessions that have read one row, and both begin or both end, do. A task
that dies before its begin is `crashed`, one that dies after it is `lost`.
`build_insight_input` and `parse_insight_response` are the two data functions
that decide what the model is told and what of its answer is kept. The first
sorts the findings, here by giving each the number of findings before it
(`SeverestFirst`), and its instance of findings is finite with one severity
each (`FindingsAssumption`).

### 3.6 The pipeline of one upload

`AnalysisPipeline` puts the pure parts in the order of the services; each of
them is a module of operators:

| Module | Code |
|---|---|
| `WorkbookExtraction` | `extractor.py`, `profile.py`: header keys, raw rows, scalars |
| `WorkbookMapping` | `mapper.py`: the checks of a row, duplicates, the WBS hierarchy, domain statuses |
| `GovernedFacts` | `service.py` `_complete_mapped`, `ingestion_repositories.py`, `dataset_loader.py`: what is stored, counted and read back |
| `ScheduleImport` | `preflight_validator.py`, `validated_import.py` |
| `ControlRules` | `rules/*.py` with the evidence and severity of each of the twenty rules |
| `HealthScore` | `engine.py` (`run_gated`), `health/scoring.py`, availability in `application.py` |

Its actions are `UploadWorkbook`, `ImportSchedule` (which uploads what it
built) and `run_snapshot`, one request at a time; races and failures of these
requests are 3.3 and 3.4. A cell is a pair of a class and a number: a text is
known by what the code's conversions tell apart (blank, spaces, padded, a
numeral, a percent, a date, an outline code, a gapped outline code) and by an
identity. Numbers are in hundredths (a number of 100 is 1.00), dates are days;
the progress values of the instances are multiples of a quarter, so the rules'
float arithmetic is exact there. What the code sorts, or numbers in the order of
a set, is `Ascending` of `NumberOrder`; DQ-002, whose entity is the sorted list
of the repeated ids, names them in one of their orders.

Names of findings are made by constants: `Folded` (letters in one case),
`Segments` (a text folded and split at its slashes and bars), `_norm_text` and
`Length`. A rule joins the names of an entity with slashes, CST-004 those of a
pair with a bar (`Written`, `Barred`); `normalize_entity` sorts the segments of
the result, here by forgetting their order and keeping how often each occurs.
Nothing is assumed of these functions, so the theorems hold for any folding; the
instance has names that differ in case, with a slash in either order, with a
bar, and of up to 301 characters. `DatabaseAccepts` has the widths of the texts, the ranges of the
integers and amounts and the digits of the progress columns that PostgreSQL
enforces and no earlier step does; a column that is left out may be refused too
(`othersFit`), so an ingest of anything may end with
`snapshot_service_unavailable`. `FindingsFit` is the width of the entity column.

An export says whether it is a CSV file, whose header is its first row
(`HeaderRow`); of a date the preflight's number is the year, of a WBS code its
first two parts (`_as_number`); an id that is the number 0 is a missing one
(`IdText`); a text that begins with an equals sign is a formula in the workbook
that is built, and read back as nothing (`AsWritten`).

Named assumptions: a sheet has a cell in each of its columns in every row
(`IsSheet`, which `openpyxl` gives), an export has rows of any width, its WBS
codes have one to three parts (`CodesAssumption`: the number of such a cell has
a digit for each part, so this bounds the encoding and not the code), and
`None` is neither a number nor an error code (`NoneAssumption`). Some
theorems add that it is not a function either (`NoneIsNoFunction`).

### 3.7 The database and its deployments

`DatabaseSchema` has the statements of a migration and what PostgreSQL does
with them: a table is its foreign keys with their deletion rules, its unique
keys and its checks; a statement changes tables (`TablesAfter`) and rows
(`RowsAfter`: the rows of a dropped table go, a run loses the column of a
dropped reference, and the two updates of the downgrades give each run an old
snapshot and each health snapshot a score); `Script` executes a list of
statements and says whether all were accepted; `Survivors` and `Resists` are the deletion of a project by
cascades (at most `MaxRounds` = 6 of them follow each other; the proof shows that in
this schema two of them delete all there is). `Migrations` has
the sixteen revisions, each a list of statements up and down; `SchemaModels`
the tables as the ORM classes declare them. `Deployment` composes them with the
pipeline: revisions are applied and undone in every order their graph allows;
at the head a workbook is analysed, `Settle` leaves its rows in the tables,
with or without what users add, and then come a deletion or more migrations.
A command that runs several revisions is several steps. One project is
created in a behaviour.

## 4. What the runs check

| Run | Module | Question and bounds |
|---|---|---|
| `jobs` | `JobHistory` | One job, two workers, the beat, retries and one fault of any kind, with tasks that run for up to twice the grace: who holds a job, what is left of a settled status, what a queued row needs, what bounds the attempts, the refinement of `JobContract`, and that a spared job settles. Two workers are enough to race, two attempts and one retry are the least at which a first one differs from a last, and four claims let a job outlive two recoveries. |
| `jobs_reopened` | `MCAnalysisJobs` | *Violated* (`SettledIsFinal`): a task that outlives the grace takes a completed job back to queued. |
| `jobs_unsettled` | `MCAnalysisJobs` | *Violated* (`EveryJobSettles`), with fairness and without any fault: two jobs are posted for one object; the first to complete deletes it, and the other is recovered, polled and started for ever. |
| `governance` | `MCGovernance` | Two overlapping requests of any kind with three approvals, a user who manages and one who does not, a policy that changes, or two overlapping scans over the finding and its action: who decides, what a resolved finding went through, and the gates, decisions, pending approvals and escalations unless something was overtaken. Three approvals let a pending one lie under two others. |
| `closure_gates_raced` | `MCGovernance` | *Violated* (`GatesHoldAtClosure`): an action created while the finding is being closed does not stop the closure. |
| `escalations_duplicated` | `MCGovernance` | *Violated* (`NoDuplicateEscalation`): two scans that overlap escalate one subject twice. |
| `snapshot_ingestion` | `MCSnapshotIngestion` | Three uploads of two workbooks, one flawed, forced or not, every fault: refinement, storage and database agree, all are answered. Three uploads let one win the key, one lose it and one come later. |
| `analysis_runs` | `MCAnalysisRuns` | Two keyed operations of two calls, one client patient, one not, every fault: refinement, results match the status, every call ends. |
| `runs_repeated` | `MCAnalysisRuns` | *Violated*: two overlapping calls with one key produce two sets of findings. |
| `ai_insights` | `MCAIInsights` | Three requests with their tasks, so that two overlap and a third comes after; answers that cite known, foreign, repeated and too many findings; lost processes and deletion of the run: what is shown is grounded, the row is exact and a ready one final until a session writes over a row it has not read, a generation ends. |
| `analysis_pipeline` | `MCDeployment` | About two thousand workbooks, families that change one thing of a clean one (headers, missing sheets, all parent functions on four WBS codes, odd cells in every column, project information, costs and progress around each threshold, repeated identities, names that are folded, split or too long, numbers too large), a hundred schedule exports, CSV and workbook, and every path through the migrations with what they leave. |
| `import_overdue` | `MCDeployment` | *Violated*: the preflight takes progress as a number between 0 and 100, the rules read 1 as complete; an overdue activity at 35 percent is not reported. |

A violated run shows the disagreement of the code with the document, docstring
or comment quoted under `findings`. Section 8 lists what else was seen.

Every property of a passing run has a mutant: an operator in the module, next
to the definition it changes, that a plausible mistake would make of it and
under which the property fails.

Named bounds: `MaxClaims`, `MaxRuns`, `MaxCopies` (counters of `AnalysisJobs`
stop counting there, see `BoundsAssumption`; the contract is void for a job whose
counters have got there), `MaxFaults`, `MaxApprovals`, `MaxEscalations`, `Tries`,
`MaxRounds`. `MCGovernance` follows in each behaviour the requests of a closure
or those of the escalations, which share no variable but the status of the
finding and of its actions; the theorems are about both together. Deadlock is
checked for the jobs (`IdleBeat` is a beat that finds nothing to do) and the
governance. It is not for the ingestion and the analysis runs, nor for the
insights: there the system stops when every call is answered and every task has
ended. It is for the deployment, where a revision can always be applied or
undone.

`EscalationsTypeOK` and `InsightTypeOK` are checked and proved; the other type
invariants of section 6, `ResultWasCommitted`, `ContentIsKept` and
`ScanEscalatesWhatIsLate`, are proved and checked by no run.

## 5. Fairness

* `AnalysisJobs`: the beat's two periodic tasks, the time and the steps of a
  running worker are weakly fair: they stay enabled and the processes are
  scheduled. Delivery of a message is strongly fair: the broker's list is
  served in order, so a message that is pending whenever a worker gets free is
  delivered. Clients, crashes and faults have no fairness. In `jobs` at most
  `MaxFaults` calls fail or processes are lost, wherever that happens; the
  analysis may fail as often as it is tried. `jobs_unsettled` has all of this
  fairness and no fault, so its job is not stuck for want of a step.
* `SnapshotIngestion`, `AnalysisRuns`: a call that has begun takes its next
  step (a request handler runs to its end unless its process dies). An insert
  that waits for a key needs no more: the holder's transaction ends.
* `AIInsights`: a task that has begun takes its next step unless it is lost:
  the client of the language model has a timeout, so every call returns. No
  request is owed. The pipeline and the deployment have no fairness.

## 6. What is proved

For all values of the constants that satisfy the named assumptions:

| Theorem | Assumes besides | Says |
|---|---|---|
| `AnalysisJobsProofs!TypeCorrect` | | `TypeOK` |
| `ResultsAreCommitted` | | `ResultWasCommitted`, `UploadOutlivesItsJob` |
| `RowsAreTakenAfterGrace`, `ClaimsAreExclusive` | | `TakenAfterGrace`, `OneHolderPerJob` |
| `QueuedJobsCanBeDownloaded`, `SettledJobsAreFinal` | | `QueuedJobHasUpload`, `SettledStaysSettled` |
| `JobsKeepTheirContract`, `AttemptsArePaidFor` | | `JobsContract`, `AttemptsPaidByRecoveries` |
| `GovernanceProofs!TypeCorrect`, `DecidersAreIndependent` | | `TypeOK`, `MakerChecker` |
| `ScansOnlyRead` | | `EscalationsSpec => Spec`: what is proved of the closure holds with scans |
| `EscalationsTypeCorrect`, `ScansEscalate` | | `EscalationsTypeOK`, `ScanEscalatesWhatIsLate` |
| `ResolvedFindingsWereReviewed`, `GatesGuardClosure` | | `ResolvedWasReviewed`, `GatesHoldUnlessOvertaken` |
| `DecisionsAreFinal`, `PendingApprovalsAreLatest` | | `DecidedOnceUnlessOvertaken`, `PendingIsLatestUnlessOvertaken` |
| `EscalationsAreSuppressed` | | `EscalatedOnceUnlessOutrun` |
| `SnapshotIngestionProofs!TypeCorrect`, `SnapshotsHaveTheirSource`, `NoObjectIsLeftBehind` | | `TypeOK`, `SnapshotHasSource`, `NothingLeftBehind` |
| `IngestionImplementsRegistry` | | `RegistryContract` |
| `AnalysisRunsProofs!TypeCorrect`, `ResultsFollowTheStatus` | | `TypeOK`, `ResultsMatchStatus` |
| `ServiceImplementsContract` | | `ServiceContract` |
| `AIInsightsProofs!InsightsTypeCorrect`, `InsightsAreGrounded` | | `InsightTypeOK`, `ReadyIsGrounded` |
| `InsightContentIsKept` | | `ContentIsKept` |
| `FreshRowsAreExact`, `ReadyInsightsAreFinal` | | `RowIsExact`, `ReadyIsFinal` |
| `FactsAreFair` | | `FactsCoverRules` |
| `AnalysisPipelineProofs!ExtractionKeepsColumns` | | `ColumnsAreKept` |
| `HierarchyIsAForest`, `RulesSeeWholeSheets` | `NoneIsNoFunction` | `HierarchyIsForest`, `ExecutedRulesSeeWholeSheets` |
| `ImportsReachTheRules` | `NoneIsNoFunction` | `ImportReachesTheRules` |
| `OrphansAreReported` | | `OrphansHaveNoNode` |
| `ScoresHaveRules`, `CountsAddUp` | | `ScoresAreBacked`, `CountsReconcile` |
| `OverrunsAreExposures`, `FailuresRepeatIdentities` | `NoneIsNoFunction` | `OverrunIsExposure`, `FailureIsRepeatedIdentity` |
| `DeploymentProofs!MigrationsAlwaysApply`, `HeadIsMetadata` | | `MigrationsApplyAndUndo`, `HeadIsTheModels` |
| `SchemaFollowsRevisions` | | `db.tables = SchemaAt(applied)`: the schema does not depend on the path |
| `ProjectsCanBeDeleted` | | `DeletionTakesTheProject` |
| `DeploymentsKeepThePipeline` | `NoneIsNoFunction` | the nine pipeline invariants above, under `DeploymentSpec` |

The theorems about the jobs are of `HistorySpec`, those about the governance of
`Spec`, `EscalationsSpec` or `HistorySpec`: any number of workers, clients and
scanners, every fault, any hard limit and any grace. `NoneIsNoFunction` says
that the model's `None` is not a row or a sheet, which TLA+ leaves open.

How they go. Each is an inductive invariant with one step per action:

* `RowsAreTakenAfterGrace`: the row of a job somebody is engaged with is not
  older than that worker's task, or the row was taken already (`ClaimInv`).
* `ClaimsAreExclusive`: a holder's row is `processing` and only `recover_stale`
  changes that under it, which takes the job, or the last retry of another
  message, which leaves it `failed` and not to be claimed (`HolderInv`).
* `QueuedJobsCanBeDownloaded`: a copy is gone only when a job made from it is
  settled and nobody holds it, and nothing leaves that state but what befalls a
  taken job (`FreedJobIsOver`).
* `SettledJobsAreFinal`: retries are paid for by claims, and a worker that still
  owns a row has the row's current attempts (`OwnerInv`), so the permanent
  failure of the last retry meets no completed row.
* `JobsKeepTheirContract` adds that runs are opened by claims (`RunsInv`) and
  maps claims, the committed run and the three ways to settle to the steps of
  `JobContract`.
* `AttemptsArePaidFor` is of every job, taken or not. The invariant counts what
  may still come: besides the attempts so far one for a row that is queued, and
  one for each number below `MAX_ATTEMPTS` that is not claimed yet or whose claim
  is held, since such a claim may be released to the queue; all of them together
  are within `MAX_ATTEMPTS` and the recoveries (`AttemptsInv`).
* `DecidersAreIndependent`: a decision under way is on a row, by a manager
  other than its requester, and rows keep their requester (`RowsInv`). Even
  `TypeOK` needs this: a decision on a missing row would make one.
* `GatesGuardClosure`, `DecisionsAreFinal`, `PendingApprovalsAreLatest`: what a
  request has read still holds as long as it was not overtaken, statement by
  statement (`ReadsInv`): a decision's row is pending, a request that is about to
  insert has every row below its rank and none of them pending on top.
* `ResolvedFindingsWereReviewed`: a closure past its check has seen an approval that
  an independent manager decided, and decisions are overwritten but never cleared,
  whatever is overtaken (`ClosureInv`).
* `EscalationsAreSuppressed`: a subject that a scan has looked up and found free
  is free until another scan commits it, which outruns the first (`NewIsInactive`).
  `ScansEscalate` needs only what the scan itself has read.
* `SnapshotIngestion`: at which steps an upload has an object, a row, an
  answer (all local to the upload), and one holder per dedupe key
  (`KeysAreExclusive`), for which `Insert` looks at open transactions and
  committed rows. The refinement maps the COMMIT, with or without its answer,
  to `Register`, every answering step to `Answer` and the rest to stuttering.
* `AnalysisRuns`: the run, results and answer of a call at each step, one
  active call per patient operation, and no call past its lookup while a run
  of its operation has results (`FirstToPublish`). The refinement maps the
  write of the results to `Publish`, the recorded failure to `Fail`.
* `AIInsights`: the answer a task holds is grounded in the run's findings,
  which do not change (`InsightInv`). Until a session has written over a row it
  had not read, at most one task's generation has begun, the row says
  `generating` while it has, and every call is counted (`FreshRow`). `FactsAreFair`:
  the ranks of the findings are the positions of the sorted list, since a rank
  is taken once and there are as many ranks as findings; then what has been
  told after each finding of the list, along its prefixes (`Told`).
* The pipeline: what is stored is what the functions make of the book
  (`PipelineInv`), so its theorems are about those functions for every input.
  *Columns*: the keys given to the first columns stay distinct (`GoodKeys`).
  *Hierarchy*: a code that cannot reach a top is in a loop and a loop cannot be
  entered from the kept codes; a walk that is longer than the codes are many
  repeats one; the rounds of `SpreadEnds` reach what is reachable.
  *Counts*: rows, facts and issues are partitioned by domain, and an ingestion
  that got as far as a snapshot had every batch completed (`Completed`).
  *Score*: findings are finite because each is one of finitely many candidates
  made of names and rows of the dataset. *Overruns*: amounts are numbers
  (`CellsInv`, `HasAmounts`), a cost is part of its exposure.
  *Identities*: each rule's findings are told apart by their entities as soon as
  rows have ids of their own (`Identified`), and entities by their normalized
  forms as soon as their names are plain and differ when folded: one segment for
  each name, so the segments count the names.
  *Imports*: what the preflight lets pass is, column by column, what the mapper
  reads without an error from the line that is built; the built WBS codes are
  distinct and have all codes above them, so none is missing, repeated or in a
  loop (`TreeIsValid`) and neither sheet is blocked. That the database takes the
  rows is not claimed: it is in the run that the property speaks of.
* The deployments: the database is always the one the applied revisions stand
  for (`DeploymentInv`). `SchemaAt(S)` writes down, table by table, the schema
  that a set `S` of revisions leaves, in whatever order they were applied, and
  `KeptAt` what the rows owe to it: no run refers to a governed snapshot before
  revision 0010 gives it the column, and a run has exactly one of its two
  snapshots. *Creations*: the tables have an order in which every foreign key
  points backwards, within the revision or to one it comes after (`Follows`), so
  a revision may be created front to back and dropped back to front, and no
  other applied revision refers to its tables (`Unneeded`). *The four revisions
  that alter a table* are followed statement by statement with the rows in it
  (`Turns`): the copied snapshots and the filled scores come before the
  constraints that ask for them. `DeploymentInv` is needed for all three
  theorems: what a downgrade finds depends on the upgrades and on the rows that
  requests left since. *Deletion*: in the schema of all revisions the
  tables of a project are reached from it by one cascade, what hangs on them by
  a second, and there it ends (`CascadesEnd`); a key that restricts belongs to a
  table of the first round, so its rows are gone when it is checked
  (`DeletionWorks`).
* `DeploymentsKeepThePipeline`: a migration or a deletion happens only between
  requests and leaves the pipeline alone, and what is settled leaves nothing, so
  every inductive invariant of the pipeline is one of the deployments.

Induction over data is not available as a rule. Where a sum, a fold or a list
is taken, the proofs use the least counterexample among finitely many positions
instead, and sums over sets as functions of their subsets
(`NumberOrderProofs`); sorted lists are `Ascending`, which counts and does not
recur. These lemmas hold for all lists and sets.

Writing the proof of `FailuresRepeatIdentities` corrected the property, which
names every cause of a failed analysis (section 8). That of
`MigrationsAlwaysApply` corrected the copy of the governed snapshots in the
downgrade of 0010, which selects them through the runs: without runs in the
table it copies none.

Only model-checked:

* Liveness (`JobsSettleAfterFaults`, `EveryUploadIsAnswered`, `EveryCallEnds`,
  `GenerationEnds`): the prover has no rules for fairness and ENABLED.
* The six violated runs, whose counterexamples TLC gives.

Every safety invariant and action property of a passing run is stated by a
theorem.

## 7. Not modelled, and why

* `_run_legacy`, the flexible loader it uses, `SnapshotRepository.fail` and the
  branch of `complete` for a status it is never given: no route of the API
  reaches them. The API always analyses a governed snapshot.
* Authentication, projects, settings, feedback, telemetry: each request reads,
  or writes one row in one transaction. Reports: rendered from a run that is
  final. Web client: its polling and retries are the clients of the models.
* Object storage and workbook loaders: pure I/O; put, get, exists and delete
  are the external store of `SnapshotIngestion` and `AnalysisJobs`, with their
  failures. The MS Project converter (`mpp_converter.py`, called at the start of
  `ingest` for `.mpp` files) calls an external library; what it returns is
  ingested like any workbook.
* Offline evaluation, command line, document tools: sequential functions of
  their input files that share no state with the service.

Detail left out of what is modelled: the two quality scores and the preview of
a preflight; names, disciplines and free text; `invalid_record`, which no row
can cause after the checks before it; the order number and description in the
identity that DQ-002 compares; predecessor lists are read as their relations,
plain ids only; texts that no rule compares, whose widths are `othersFit`. Of the schema:
columns, indexes (but for the renamed ones of telemetry) and range checks,
unless a migration changes them; every table an ingest may write counts as
having rows, which can only get in the way of more statements.

## 8. What else was seen

Behaviour of the code found while modelling; what a document denies of it is a
violated run where a property can say it:

* Two managers who decide at once both succeed and the later decision replaces
  the earlier; two requests for an approval that overlap leave two pending rows,
  and the gate asks only for the later one. An acknowledged escalation stays
  active for ever, since no code resolves one. Two overlapping updates of an
  action can leave `completed_at` and its status apart.
* A crash between `mark_completed` and `storage.delete` leaves the transient
  copy; a crash after the run was opened leaves it running for ever
  (`docs/superpowers/specs/2026-08-26-controlcheck-vercel-hybrid-no-card-design.md`
  112 has a timeout of the analysis recorded as a failed run; a process that is
  killed records nothing).
* `storage.get` is called outside the try block (`executor.py` 117): while the
  store fails, a job is claimed, recovered and claimed again, and its last retry
  is skipped because the row is not queued. It is not recorded as failed, which
  `jobs_unsettled` shows for a copy that is gone.
* A process that is lost during a generation leaves `generating`, which
  `begin_generation` refuses ever after. Two tasks that both read `pending` both
  begin: the model is called twice and one attempt is counted, the later end can
  turn a ready insight into a failed one (its content stays readable,
  `ContentIsKept`), and two that end together can leave the content of one beside
  the references of the other.
* A run of a snapshot with a blocked domain has scores that are NULL, and
  `reports_api.py` 144-148 rounds `float(None)`: such a run, and so every
  validated schedule import, cannot be reported, although its status passes the
  check at 226.
* The converter of `.mpp` files leaves the project id empty, so each of their
  snapshots has a `missing_project_value` error, and reads slack that is not
  given in days as 0.
* A value that PostgreSQL refuses in a raw or canonical row (for example a
  progress of a thousand) is answered as `snapshot_service_unavailable`.
* Two rows with one record id make the whole analysis fail, and so do two rows
  above 100 percent that PRG-002 names alike: two periods of one WBS code, or a
  row without a code whose id is the code of another. Names collide that differ
  only in case, or in the order of what their slashes separate ("A/B" and "B/A"),
  and a pair of CST-004 whose parts have bars of their own. A group of duplicates
  whose ids together, with their separators, have more than 300 characters fails
  the analysis too. `FailureIsRepeatedIdentity` shows that nothing else does.
* A schedule that passes the preflight may still be refused by PostgreSQL: a
  float outside INTEGER is only a warning ("excessive_float") or none, and ids,
  names and codes are asked for no length.
* The import: a name of spaces passes the preflight and the row is dropped by
  the build; missing slack becomes float 0 and so a critical activity; the
  MS Project column "finish" becomes the actual finish even in the future; a
  WBS code "1..2" has no node; the predecessor "A-100" is read as A with a lag
  of -100; a data row wider than the header row is taken as the header.
* The rules divide by the budget (`rules/cost.py` 55, 88). With a negative one
  CST-001 fires when the actual cost is below it, although the formula it
  records says "actual > budget", and CST-002 may not (budget -200, actual -300,
  open commitments 100); `OverrunIsExposure` speaks of positive budgets.
* CST-001 and CST-002 never fire for a budget of zero. The engine counts
  `missing_project_value` as an error although `service.py` 190 derives the
  project.
* Undoing and reapplying revision 20260825_0011 turns a partial health snapshot
  into a computed one of score 0 and band Critical.
* `tests/test_ai_insight_migration.py` asserts the head 20260907_0002; the head
  of `alembic/versions` is 20260908_0001.
* Deleting a project removes its rows (`DeletionTakesTheProject`) and leaves its
  workbooks in the object store.
