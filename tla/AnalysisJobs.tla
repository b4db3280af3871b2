---------------------------- MODULE AnalysisJobs ----------------------------
(***************************************************************************)
(* The asynchronous analysis pipeline: the analysis_jobs table, the         *)
(* transient upload copies in object storage, the Celery messages, the      *)
(* worker processes that execute a job and the beat that polls the table    *)
(* and recovers stale rows.                                                 *)
(*                                                                          *)
(* A worker executes one task in several database transactions and storage  *)
(* calls; every one of them is a step of its own here, and a crash, a hard  *)
(* time limit, a beat tick or another worker can come between any two.      *)
(***************************************************************************)
EXTENDS Naturals, FiniteSets

CONSTANTS
  Jobs,         \* rows of analysis_jobs
  Keys,         \* storage keys of presigned uploads
  Workers,      \* Celery pool processes
  MAX_ATTEMPTS, \* executor.MAX_ATTEMPTS
  MaxRetries,   \* max_retries of the process_job task
  PollLimit,    \* ids fetched per beat tick
  Grace,        \* grace_minutes of recover_stale, in ticks
  TimeLimit,    \* task_time_limit of the Celery application, in ticks
  Faults,       \* what may go wrong in a behaviour: a subset of AllFaults
  SharedKeys,   \* may a client post two jobs for one uploaded object?
  MaxClaims,    \* bound: the attempts counter is followed up to this value
  MaxRuns,      \* bound: the runs of one job are told apart up to this number
  MaxCopies     \* bound: equal pending messages are counted up to this number

(* crash: a pool process dies; timeout: a task reaches the hard time limit; *)
(* database: a transaction of the worker raises, with or without its        *)
(* effect; storage: a storage call raises; analysis: AnalysisService.run    *)
(* raises.                                                                  *)
AllFaults == {"crash", "timeout", "database", "storage", "analysis"}

NoKey == "no key"  \* storage_key of a row that is not inserted yet

ASSUME JobsAssumption == IsFiniteSet(Jobs)

ASSUME KeysAssumption == NoKey \notin Keys

ASSUME LimitsAssumption ==
  /\ MAX_ATTEMPTS \in Nat \ {0}
  /\ MaxRetries \in Nat
  /\ PollLimit \in Nat \ {0}
  /\ Grace \in Nat
  /\ TimeLimit \in Nat \ {0}
  /\ Faults \subseteq AllFaults
  /\ SharedKeys \in BOOLEAN

(* executor.MAX_ATTEMPTS and max_retries of process_job are both 3: the last *)
(* retry of a message comes no sooner than the last attempt of its job.     *)
ASSUME RetriesAssumption == MAX_ATTEMPTS <= MaxRetries + 1

ASSUME BoundsAssumption ==
  /\ MaxClaims \in Nat /\ MaxClaims > MAX_ATTEMPTS /\ MaxClaims > MaxRetries
  /\ MaxRuns \in 1..MaxClaims
  /\ MaxCopies \in Nat \ {0}

VARIABLES
  status,    \* row: status, "none" until the row is inserted
  attempts,  \* row: attempts
  age,       \* row: ticks since started_at, while it is set
  key,       \* row: storage_key
  created,   \* row: created_at, as the rank of the insertion
  result,    \* row: analysis_run_id, 0 when NULL
  error,     \* row: whether error_code is set
  upload,    \* object storage: the transient copy under each key
  runs,      \* analysis runs recorded so far for the workbook of each job
  messages,  \* broker: pending process_job messages by job and retry count
  pc,        \* worker: where its task stands
  task,      \* worker: the message it holds unacknowledged
  claim,     \* worker: job.attempts as read when it claimed
  clock,     \* worker: ticks since its task started
  outcome    \* worker: the run its AnalysisService.run returned

rowVars == <<status, attempts, age, key, created, result, error>>
workerVars == <<pc, task, claim, clock, outcome>>
vars == <<rowVars, upload, runs, messages, workerVars>>

NoTask == [job |-> "no job", retries |-> 0]
Tasks == [job : Jobs, retries : 0..MaxRetries]

Statuses == {"none", "queued", "processing", "completed", "failed"}
Settled == {"completed", "failed"}

(* started: process_job called; claimed: row is processing; downloaded:     *)
(* storage.get returned; failing: run() raised, in the except block;        *)
(* analysed: run() returned; completed: mark_completed committed; raised:   *)
(* an exception left execute and process_job handles it.                    *)
Positions == {"idle", "started", "claimed", "downloaded", "failing",
              "analysed", "completed", "raised"}

(* The positions between the commit of the claim and the transaction that   *)
(* gives the row its next status.                                           *)
Holding == {"claimed", "downloaded", "failing", "analysed"}
Holds(w, j) == pc[w] \in Holding /\ task[w].job = j

UpTo(bound, n) == IF n < bound THEN n ELSE bound

RowsOK ==
  /\ status \in [Jobs -> Statuses]
  /\ attempts \in [Jobs -> 0..MaxClaims]
  /\ age \in [Jobs -> 0..Grace + 1]
  /\ key \in [Jobs -> Keys \cup {NoKey}]
  /\ created \in [Jobs -> Nat]
  /\ result \in [Jobs -> 0..MaxRuns]
  /\ error \in [Jobs -> BOOLEAN]

StoresOK ==
  /\ upload \in [Keys -> {"none", "stored", "deleted"}]
  /\ runs \in [Jobs -> 0..MaxRuns]
  /\ messages \in [Jobs -> [0..MaxRetries -> 0..MaxCopies]]

WorkersOK ==
  /\ pc \in [Workers -> Positions]
  /\ task \in [Workers -> Tasks \cup {NoTask}]
  /\ \A w \in Workers : pc[w] # "idle" => task[w] \in Tasks
  /\ claim \in [Workers -> 0..MaxClaims]
  /\ clock \in [Workers -> 0..TimeLimit]
  /\ outcome \in [Workers -> 0..MaxRuns]

TypeOK == RowsOK /\ StoresOK /\ WorkersOK

Init ==
  /\ status = [j \in Jobs |-> "none"]
  /\ attempts = [j \in Jobs |-> 0]
  /\ age = [j \in Jobs |-> 0]
  /\ key = [j \in Jobs |-> NoKey]
  /\ created = [j \in Jobs |-> 0]
  /\ result = [j \in Jobs |-> 0]
  /\ error = [j \in Jobs |-> FALSE]
  /\ upload = [k \in Keys |-> "none"]
  /\ runs = [j \in Jobs |-> 0]
  /\ messages = [j \in Jobs |-> [r \in 0..MaxRetries |-> 0]]
  /\ pc = [w \in Workers |-> "idle"]
  /\ task = [w \in Workers |-> NoTask]
  /\ claim = [w \in Workers |-> 0]
  /\ clock = [w \in Workers |-> 0]
  /\ outcome = [w \in Workers |-> 0]
-----------------------------------------------------------------------------
(* The client and the API.                                                  *)

(* The browser PUTs the workbook under the presigned key, which             *)
(* create_upload_url made from a fresh UUID.                                *)
Upload(k) ==
  /\ upload[k] = "none"
  /\ upload' = [upload EXCEPT ![k] = "stored"]
  /\ UNCHANGED <<rowVars, runs, messages, workerVars>>

(* created_at of the next row: later than that of every row in the table.   *)
InsertRank == 1 + Cardinality({i \in Jobs : status[i] # "none"})

(* POST analysis-runs/async: the object must exist, the row is inserted     *)
(* queued.  Nothing stops a client from posting one key twice.              *)
CreateJob(j, k) ==
  /\ status[j] = "none"
  /\ upload[k] = "stored"
  /\ SharedKeys \/ \A i \in Jobs : key[i] # k
  /\ status' = [status EXCEPT ![j] = "queued"]
  /\ key' = [key EXCEPT ![j] = k]
  /\ created' = [created EXCEPT ![j] = InsertRank]
  /\ UNCHANGED <<attempts, age, result, error, upload, runs, messages,
                 workerVars>>
-----------------------------------------------------------------------------
(* The broker and the beat.                                                 *)

Post(queue, j, r) ==
  [queue EXCEPT ![j][r] = UpTo(MaxCopies, queue[j][r] + 1)]

Queued == {j \in Jobs : status[j] = "queued"}

(* poll_queued_jobs sends a message for each of the oldest queued rows,     *)
(* whether or not an earlier message for the row is still pending.  The     *)
(* rows stay queued: only a claim changes them.                             *)
Poll ==
  /\ Queued # {}
  /\ \E S \in SUBSET Queued :
       /\ Cardinality(S) = UpTo(PollLimit, Cardinality(Queued))
       /\ \A i \in S, j \in Queued \ S : created[i] < created[j]
       /\ messages' = [j \in Jobs |->
            [r \in 0..MaxRetries |->
               IF j \in S /\ r = 0 THEN UpTo(MaxCopies, messages[j][r] + 1)
                                   ELSE messages[j][r]]]
  /\ UNCHANGED <<rowVars, upload, runs, workerVars>>

(* Mutants of Stale: the cutoff is one tick early; the wrong status is      *)
(* looked for; the status is not looked at.                                 *)
StaleOfAnyStatus(j) == age[j] > Grace
StaleAtGrace(j) == status[j] = "processing" /\ age[j] >= Grace
StaleQueued(j) == status[j] = "queued" /\ age[j] > Grace

Stale(j) == status[j] = "processing" /\ age[j] > Grace

(* recover_stale: one UPDATE over every stale row; attempts stays.          *)
RecoverStale ==
  /\ \E j \in Jobs : Stale(j)
  /\ status' = [j \in Jobs |-> IF Stale(j) THEN "queued" ELSE status[j]]
  /\ age' = [j \in Jobs |-> IF Stale(j) THEN 0 ELSE age[j]]
  /\ UNCHANGED <<attempts, key, created, result, error, upload, runs,
                 messages, workerVars>>

(* Time passes for the rows being processed and for the running tasks; no   *)
(* task outlives the hard limit, and without the timeout fault every task   *)
(* ends before it.                                                          *)
Tick ==
  /\ \/ \E j \in Jobs : status[j] = "processing" /\ age[j] <= Grace
     \/ \E w \in Workers : pc[w] # "idle"
  /\ \A w \in Workers : pc[w] # "idle" =>
       IF "timeout" \in Faults THEN clock[w] < TimeLimit
                               ELSE clock[w] + 1 < TimeLimit
  /\ age' = [j \in Jobs |-> IF status[j] = "processing"
                              THEN UpTo(Grace + 1, age[j] + 1) ELSE age[j]]
  /\ clock' = [w \in Workers |-> IF pc[w] = "idle" THEN clock[w]
                                                   ELSE clock[w] + 1]
  /\ UNCHANGED <<status, attempts, key, created, result, error, upload, runs,
                 messages, pc, task, claim, outcome>>

(* A free worker takes a message; acks_late keeps it unacknowledged.        *)
Deliver(w, j, r) ==
  /\ pc[w] = "idle"
  /\ messages[j][r] > 0
  /\ messages' = [messages EXCEPT ![j][r] = @ - 1]
  /\ pc' = [pc EXCEPT ![w] = "started"]
  /\ task' = [task EXCEPT ![w] = [job |-> j, retries |-> r]]
  /\ UNCHANGED <<rowVars, upload, runs, claim, clock, outcome>>
-----------------------------------------------------------------------------
(* The worker: AnalysisJobExecutor.execute inside process_job.              *)

At(w, here) == pc[w] = here

Goto(w, there) ==
  /\ pc' = [pc EXCEPT ![w] = there]
  /\ UNCHANGED <<task, clock>>

(* The task is over and its message acknowledged.                           *)
Finish(w) ==
  /\ pc' = [pc EXCEPT ![w] = "idle"]
  /\ task' = [task EXCEPT ![w] = NoTask]
  /\ claim' = [claim EXCEPT ![w] = 0]
  /\ clock' = [clock EXCEPT ![w] = 0]
  /\ outcome' = [outcome EXCEPT ![w] = 0]

(* Mutant of Claim: the status of the row is not read.                     *)
ClaimAnyRow(w) ==
  LET j == task[w].job
      n == UpTo(MaxClaims, attempts[j] + 1) IN
  /\ At(w, "started")
  /\ status' = [status EXCEPT ![j] = "processing"]
  /\ age' = [age EXCEPT ![j] = 0]
  /\ attempts' = [attempts EXCEPT ![j] = n]
  /\ claim' = [claim EXCEPT ![w] = n]
  /\ Goto(w, "claimed")
  /\ UNCHANGED <<key, created, result, error, upload, runs, messages, outcome>>

(* The row after claim_job on a queued row: SELECT FOR UPDATE, status,       *)
(* started_at and attempts in one transaction.                              *)
ClaimRow(j) ==
  /\ status[j] = "queued"
  /\ status' = [status EXCEPT ![j] = "processing"]
  /\ age' = [age EXCEPT ![j] = 0]
  /\ attempts' = [attempts EXCEPT ![j] = UpTo(MaxClaims, @ + 1)]
  /\ UNCHANGED <<key, created, result, error>>

Claim(w) ==
  /\ At(w, "started")
  /\ ClaimRow(task[w].job)
  /\ claim' = [claim EXCEPT ![w] = UpTo(MaxClaims, attempts[task[w].job] + 1)]
  /\ Goto(w, "claimed")
  /\ UNCHANGED <<upload, runs, messages, outcome>>

(* claim_job found no queued row: either the job is completed and execute   *)
(* returns None, or JobError ends the task as skipped.  SKIP LOCKED lets a  *)
(* task give up on a row that another one is just claiming; that is the     *)
(* same skip one moment after the other claim's commit.                     *)
Skip(w) ==
  /\ At(w, "started")
  /\ status[task[w].job] # "queued"
  /\ Finish(w)
  /\ UNCHANGED <<rowVars, upload, runs, messages>>

(* The claim's transaction raised: either it left no trace, or it committed *)
(* and the row is claimed by a task that is in process_job's handler.       *)
ClaimRaises(w) ==
  /\ At(w, "started")
  /\ "database" \in Faults
  /\ ClaimRow(task[w].job) \/ UNCHANGED rowVars
  /\ Goto(w, "raised")
  /\ UNCHANGED <<upload, runs, messages, claim, outcome>>

(* Mutant of Download: the copy is removed as soon as it is read.           *)
DownloadAndDelete(w) ==
  LET k == key[task[w].job] IN
  /\ At(w, "claimed")
  /\ upload[k] = "stored"
  /\ upload' = [upload EXCEPT ![k] = "deleted"]
  /\ Goto(w, "downloaded")
  /\ UNCHANGED <<rowVars, runs, messages, claim, outcome>>

Download(w) ==
  /\ At(w, "claimed")
  /\ upload[key[task[w].job]] = "stored"
  /\ Goto(w, "downloaded")
  /\ UNCHANGED <<rowVars, upload, runs, messages, claim, outcome>>

(* storage.get is called outside the try block: its exception leaves        *)
(* execute with the row still processing, when the copy is not there and    *)
(* when the storage fails.                                                  *)
DownloadFindsNothing(w) ==
  /\ At(w, "claimed")
  /\ upload[key[task[w].job]] # "stored"
  /\ Goto(w, "raised")
  /\ UNCHANGED <<rowVars, upload, runs, messages, claim, outcome>>

DownloadRaises(w) ==
  /\ At(w, "claimed")
  /\ "storage" \in Faults
  /\ Goto(w, "raised")
  /\ UNCHANGED <<rowVars, upload, runs, messages, claim, outcome>>

(* AnalysisService.run commits the run and returns it.                      *)
Analyse(w) ==
  LET j == task[w].job
      n == UpTo(MaxRuns, runs[j] + 1) IN
  /\ At(w, "downloaded")
  /\ runs' = [runs EXCEPT ![j] = n]
  /\ outcome' = [outcome EXCEPT ![w] = n]
  /\ Goto(w, "analysed")
  /\ UNCHANGED <<rowVars, upload, messages, claim>>

(* Mutant of AnalyseRaises: the copy is removed although the job goes back  *)
(* to the queue.                                                            *)
AnalyseRaisesAndDeletes(w) ==
  /\ At(w, "downloaded")
  /\ "analysis" \in Faults
  /\ upload' = [upload EXCEPT ![key[task[w].job]] = "deleted"]
  /\ Goto(w, "failing")
  /\ UNCHANGED <<rowVars, runs, messages, claim, outcome>>

AnalyseRaises(w) ==
  /\ At(w, "downloaded")
  /\ "analysis" \in Faults
  /\ Goto(w, "failing")
  /\ UNCHANGED <<rowVars, upload, runs, messages, claim, outcome>>

(* The row after mark_failed, and after requeue: both UPDATE by id alone.   *)
MarkFailed(j) ==
  /\ status' = [status EXCEPT ![j] = "failed"]
  /\ error' = [error EXCEPT ![j] = TRUE]
  /\ UNCHANGED age

Requeue(j) ==
  /\ status' = [status EXCEPT ![j] = "queued"]
  /\ age' = [age EXCEPT ![j] = 0]
  /\ UNCHANGED error

(* Mutant of Release: one attempt too many.                                 *)
ReleaseLate(w) ==
  LET j == task[w].job IN
  /\ At(w, "failing")
  /\ IF claim[w] > MAX_ATTEMPTS THEN MarkFailed(j) ELSE Requeue(j)
  /\ Goto(w, "raised")
  /\ UNCHANGED <<attempts, key, created, result, upload, runs, messages,
                 claim, outcome>>

(* The except block: mark_failed on the last attempt, requeue before it,    *)
(* decided on the attempts read at the claim; then re-raise.                *)
Release(w) ==
  LET j == task[w].job IN
  /\ At(w, "failing")
  /\ IF claim[w] >= MAX_ATTEMPTS THEN MarkFailed(j) ELSE Requeue(j)
  /\ Goto(w, "raised")
  /\ UNCHANGED <<attempts, key, created, result, upload, runs, messages,
                 claim, outcome>>

ReleaseRaises(w) ==
  /\ At(w, "failing")
  /\ "database" \in Faults
  /\ Goto(w, "raised")
  /\ UNCHANGED <<rowVars, upload, runs, messages, claim, outcome>>

(* The row after mark_completed: an UPDATE by id alone, error_code is not   *)
(* cleared.                                                                 *)
MarkCompleted(j, n) ==
  /\ status' = [status EXCEPT ![j] = "completed"]
  /\ result' = [result EXCEPT ![j] = n]
  /\ UNCHANGED <<attempts, age, key, created, error>>

Complete(w) ==
  /\ At(w, "analysed")
  /\ MarkCompleted(task[w].job, outcome[w])
  /\ Goto(w, "completed")
  /\ UNCHANGED <<upload, runs, messages, claim, outcome>>

(* mark_completed raised, with or without its effect.                       *)
CompleteRaises(w) ==
  /\ At(w, "analysed")
  /\ "database" \in Faults
  /\ MarkCompleted(task[w].job, outcome[w]) \/ UNCHANGED rowVars
  /\ Goto(w, "raised")
  /\ UNCHANGED <<upload, runs, messages, claim, outcome>>

(* storage.delete of the transient copy; its failure is only logged.        *)
DeleteUpload(w) ==
  /\ At(w, "completed")
  /\ upload' = [upload EXCEPT ![key[task[w].job]] = "deleted"]
  /\ Finish(w)
  /\ UNCHANGED <<rowVars, runs, messages>>

DeleteRaises(w) ==
  /\ At(w, "completed")
  /\ "storage" \in Faults
  /\ Finish(w)
  /\ UNCHANGED <<rowVars, upload, runs, messages>>

(* process_job's handler before the last retry: a new message with the      *)
(* retry count advanced.  Its countdown is not told apart from the wait in  *)
(* the queue.                                                               *)
Retry(w) ==
  /\ At(w, "raised")
  /\ task[w].retries < MaxRetries
  /\ messages' = Post(messages, task[w].job, task[w].retries + 1)
  /\ Finish(w)
  /\ UNCHANGED <<rowVars, upload, runs>>

(* process_job's handler at the last retry: _fail_job_permanently marks     *)
(* the row failed whatever its status is, and swallows its own failure.     *)
FailPermanently(w) ==
  /\ At(w, "raised")
  /\ task[w].retries >= MaxRetries
  /\ MarkFailed(task[w].job)
  /\ Finish(w)
  /\ UNCHANGED <<attempts, key, created, result, upload, runs, messages>>

FailPermanentlyRaises(w) ==
  /\ At(w, "raised")
  /\ task[w].retries >= MaxRetries
  /\ "database" \in Faults
  /\ Finish(w)
  /\ UNCHANGED <<rowVars, upload, runs, messages>>

(* task_reject_on_worker_lost: the message of a lost process is redelivered *)
(* with its retry count unchanged.                                          *)
Crash(w) ==
  /\ "crash" \in Faults
  /\ pc[w] # "idle"
  /\ messages' = Post(messages, task[w].job, task[w].retries)
  /\ Finish(w)
  /\ UNCHANGED <<rowVars, upload, runs>>

(* task_time_limit: the process is killed and the message acknowledged.     *)
KillAtTimeLimit(w) ==
  /\ pc[w] # "idle"
  /\ clock[w] = TimeLimit
  /\ Finish(w)
  /\ UNCHANGED <<rowVars, upload, runs, messages>>

(* A beat tick that finds nothing to do.                                    *)
IdleBeat ==
  /\ \A j \in Jobs : status[j] \notin {"queued", "processing"}
  /\ \A j \in Jobs, r \in 0..MaxRetries : messages[j][r] = 0
  /\ \A w \in Workers : pc[w] = "idle"
  /\ UNCHANGED vars
-----------------------------------------------------------------------------
(* What a task does when nothing it calls fails but the analysis.           *)
Execute(w) ==
  \/ Claim(w) \/ Skip(w)
  \/ Download(w) \/ DownloadFindsNothing(w)
  \/ Analyse(w) \/ AnalyseRaises(w)
  \/ Release(w) \/ Complete(w) \/ DeleteUpload(w)
  \/ Retry(w) \/ FailPermanently(w)

DatabaseFault(w) ==
  ClaimRaises(w) \/ ReleaseRaises(w) \/ CompleteRaises(w) \/ FailPermanentlyRaises(w)

StorageFault(w) == DownloadRaises(w) \/ DeleteRaises(w)

Loss(w) == Crash(w) \/ KillAtTimeLimit(w)

Work ==
  \/ \E k \in Keys : Upload(k)
  \/ \E j \in Jobs, k \in Keys : CreateJob(j, k)
  \/ Poll
  \/ Tick
  \/ \E w \in Workers, j \in Jobs, r \in 0..MaxRetries : Deliver(w, j, r)
  \/ \E w \in Workers : Execute(w)
  \/ IdleBeat

Next ==
  \/ Work
  \/ RecoverStale
  \/ \E w \in Workers : DatabaseFault(w) \/ StorageFault(w) \/ Loss(w)

Spec == Init /\ [][Next]_vars

(* The beat keeps ticking, time passes, a running worker takes its next     *)
(* step, and the broker serves its messages in order, so a message that is  *)
(* pending again and again when a worker is free is delivered.  Clients and *)
(* faults owe nothing.                                                      *)
Fairness ==
  /\ WF_vars(Poll)
  /\ WF_vars(RecoverStale)
  /\ WF_vars(Tick)
  /\ \A w \in Workers : WF_vars(Execute(w)) /\ WF_vars(KillAtTimeLimit(w))
  /\ \A j \in Jobs, r \in 0..MaxRetries :
       SF_vars(\E w \in Workers : Deliver(w, j, r))

FairSpec == Spec /\ Fairness
-----------------------------------------------------------------------------
(* Safety of every configuration.                                           *)

(* The transient copy is removed only after a job that was made from it     *)
(* has its analysis run recorded: execute marks the job completed, then     *)
(* deletes, so no crash or fault can lose a workbook nobody analysed.       *)
UploadOutlivesItsJob ==
  \A k \in Keys : upload[k] = "deleted" =>
    \E j \in Jobs : key[j] = k /\ result[j] # 0

(* A job that names a run names one that was committed, and a completed     *)
(* job names one, whichever of several executions of the job came last.     *)
ResultWasCommitted ==
  \A j \in Jobs :
    /\ result[j] <= runs[j]
    /\ status[j] = "completed" => result[j] # 0

(* What the documentation says without a condition.  JobHistory states what *)
(* holds instead, and when.                                                 *)

(* "Idempotent: a job that is already completed is a no-op": no step takes  *)
(* a job out of a terminal status.                                          *)
SettledIsFinal ==
  [][\A j \in Jobs : status[j] \in Settled => status'[j] = status[j]]_vars

(* "Permanent failures are recorded on the job row": a queued job is        *)
(* eventually completed or failed.                                          *)
EveryJobSettles ==
  \A j \in Jobs : status[j] = "queued" ~> status[j] \in Settled
=============================================================================
