------------------------- MODULE AnalysisJobsProofs -------------------------
(***************************************************************************)
(* Proofs about AnalysisJobs for every set of jobs, keys and workers, every *)
(* limit and every set of faults: of AnalysisJobs itself first, and then of  *)
(* its history, with no condition on limits, faults or clients.             *)
(***************************************************************************)
EXTENDS JobHistory, FiniteSetTheorems, TLAPS

(* What a task does while its process lives, and the definitions of it.     *)
TaskStep(w) == Execute(w) \/ DatabaseFault(w) \/ StorageFault(w)

(* The next created_at is a number.                                         *)
LEMMA InsertRankIsNat == InsertRank \in Nat
<1>1. IsFiniteSet({i \in Jobs : status[i] # "none"})
  BY JobsAssumption, FS_Subset
<1> QED BY <1>1, FS_CardinalityType DEF InsertRank

(* The end of a task leaves the worker idle and everything else as typed.   *)
LEMMA FinishTypeOK ==
  ASSUME WorkersOK, NEW w \in Workers, Finish(w)
  PROVE  WorkersOK'
BY LimitsAssumption, BoundsAssumption DEF WorkersOK, Finish, Positions, Tasks

LEMMA GotoTypeOK ==
  ASSUME WorkersOK, NEW w \in Workers, NEW there \in Positions,
         pc[w] # "idle", Goto(w, there),
         claim' \in [Workers -> 0..MaxClaims],
         outcome' \in [Workers -> 0..MaxRuns]
  PROVE  WorkersOK'
BY DEF WorkersOK, Goto

LEMMA PostTypeOK ==
  ASSUME StoresOK, NEW j \in Jobs, NEW r \in 0..MaxRetries
  PROVE  Post(messages, j, r) \in [Jobs -> [0..MaxRetries -> 0..MaxCopies]]
<1>1. UpTo(MaxCopies, messages[j][r] + 1) \in 0..MaxCopies
  <2>1. messages[j][r] \in 0..MaxCopies
    BY DEF StoresOK
  <2> QED BY <2>1, BoundsAssumption DEF UpTo
<1> QED BY <1>1 DEF Post, StoresOK

(* What an action that leaves a table alone owes to its type.               *)
LEMMA UnchangedTypeOK ==
  /\ RowsOK /\ UNCHANGED rowVars => RowsOK'
  /\ StoresOK /\ UNCHANGED <<upload, runs, messages>> => StoresOK'
  /\ WorkersOK /\ UNCHANGED workerVars => WorkersOK'
BY DEF RowsOK, StoresOK, WorkersOK, rowVars, workerVars

(* A busy worker holds a message of an inserted job.                        *)
LEMMA BusyTask ==
  ASSUME WorkersOK, NEW w \in Workers, pc[w] # "idle"
  PROVE  /\ task[w].job \in Jobs
         /\ task[w].retries \in 0..MaxRetries
BY DEF WorkersOK, Tasks

LEMMA ClaimRowTypeOK ==
  ASSUME RowsOK, NEW j \in Jobs, ClaimRow(j)
  PROVE  RowsOK'
<1>1. UpTo(MaxClaims, attempts[j] + 1) \in 0..MaxClaims
  BY BoundsAssumption DEF RowsOK, UpTo
<1> QED BY <1>1, LimitsAssumption DEF ClaimRow, RowsOK, Statuses

LEMMA MarkCompletedTypeOK ==
  ASSUME RowsOK, NEW j \in Jobs, NEW n \in 0..MaxRuns, MarkCompleted(j, n)
  PROVE  RowsOK'
BY DEF MarkCompleted, RowsOK, Statuses

LEMMA TaskStepTypeOK ==
  ASSUME TypeOK, NEW w \in Workers, TaskStep(w)
  PROVE  TypeOK'
<1> DEFINE j == task[w].job
<1> USE LimitsAssumption, BoundsAssumption
<1>0. /\ RowsOK /\ StoresOK /\ WorkersOK
      /\ pc[w] # "idle"
      /\ j \in Jobs /\ task[w].retries \in 0..MaxRetries
  <2>1. pc[w] # "idle"
    BY DEF TaskStep, Execute, DatabaseFault, StorageFault, Claim, Skip, ClaimRaises,
           Download, DownloadFindsNothing, DownloadRaises, Analyse,
           AnalyseRaises, Release, ReleaseRaises, Complete, CompleteRaises,
           DeleteUpload, DeleteRaises, Retry, FailPermanently,
           FailPermanentlyRaises, At
  <2> QED BY <2>1, BusyTask DEF TypeOK
<1>1. CASE Claim(w)
  <2>1. UpTo(MaxClaims, attempts[j] + 1) \in 0..MaxClaims
    BY <1>0 DEF RowsOK, UpTo
  <2>2. RowsOK'
    BY <1>0, <1>1, ClaimRowTypeOK DEF Claim
  <2>3. WorkersOK'
    <3>1. claim' \in [Workers -> 0..MaxClaims]
      BY <1>0, <1>1, <2>1 DEF Claim, WorkersOK
    <3>2. outcome' \in [Workers -> 0..MaxRuns]
      BY <1>0, <1>1 DEF Claim, WorkersOK
    <3> QED BY <1>0, <1>1, <3>1, <3>2, GotoTypeOK DEF Claim, Positions
  <2> QED BY <1>0, <1>1, <2>2, <2>3, UnchangedTypeOK DEF Claim, TypeOK
<1>2. CASE Skip(w) \/ DeleteRaises(w) \/ FailPermanentlyRaises(w)
  BY <1>0, <1>2, FinishTypeOK, UnchangedTypeOK
  DEF Skip, DeleteRaises, FailPermanentlyRaises, TypeOK
<1>3. CASE \/ ClaimRaises(w) \/ Download(w) \/ DownloadFindsNothing(w)
           \/ DownloadRaises(w) \/ AnalyseRaises(w) \/ ReleaseRaises(w)
           \/ CompleteRaises(w)
  <2>1. /\ Goto(w, "raised") \/ Goto(w, "downloaded") \/ Goto(w, "failing")
        /\ UNCHANGED <<upload, runs, messages, claim, outcome>>
        /\ \/ UNCHANGED rowVars
           \/ ClaimRow(j)
           \/ MarkCompleted(j, outcome[w])
    BY <1>3 DEF ClaimRaises, Download, DownloadFindsNothing, DownloadRaises,
                AnalyseRaises, ReleaseRaises, CompleteRaises
  <2>2. WorkersOK'
    <3>1. /\ claim' \in [Workers -> 0..MaxClaims]
          /\ outcome' \in [Workers -> 0..MaxRuns]
      BY <1>0, <2>1 DEF WorkersOK
    <3> QED BY <1>0, <2>1, <3>1, GotoTypeOK DEF Positions
  <2>3. outcome[w] \in 0..MaxRuns
    BY <1>0 DEF WorkersOK
  <2>4. RowsOK'
    BY <1>0, <2>1, <2>3, ClaimRowTypeOK, MarkCompletedTypeOK, UnchangedTypeOK
  <2> QED BY <1>0, <2>1, <2>2, <2>4, UnchangedTypeOK DEF TypeOK
<1>4. CASE Analyse(w)
  <2>1. UpTo(MaxRuns, runs[j] + 1) \in 0..MaxRuns
    BY <1>0 DEF StoresOK, UpTo
  <2>2. StoresOK'
    BY <1>0, <1>4, <2>1 DEF Analyse, StoresOK
  <2>3. WorkersOK'
    <3>1. /\ claim' \in [Workers -> 0..MaxClaims]
          /\ outcome' \in [Workers -> 0..MaxRuns]
      BY <1>0, <1>4, <2>1 DEF Analyse, WorkersOK
    <3> QED BY <1>0, <1>4, <3>1, GotoTypeOK DEF Analyse, Positions
  <2> QED BY <1>0, <1>4, <2>2, <2>3, UnchangedTypeOK DEF Analyse, TypeOK
<1>5. CASE Release(w)
  <2>1. RowsOK'
    <3>1. CASE MarkFailed(j)
      BY <1>0, <1>5, <3>1 DEF Release, MarkFailed, RowsOK, Statuses
    <3>2. CASE Requeue(j)
      BY <1>0, <1>5, <3>2 DEF Release, Requeue, RowsOK, Statuses
    <3> QED BY <1>5, <3>1, <3>2 DEF Release
  <2>2. WorkersOK'
    <3>1. /\ claim' \in [Workers -> 0..MaxClaims]
          /\ outcome' \in [Workers -> 0..MaxRuns]
      BY <1>0, <1>5 DEF Release, WorkersOK
    <3> QED BY <1>0, <1>5, <3>1, GotoTypeOK DEF Release, Positions
  <2> QED BY <1>0, <1>5, <2>1, <2>2, UnchangedTypeOK DEF Release, TypeOK
<1>6. CASE Complete(w)
  <2>1. RowsOK'
    BY <1>0, <1>6, MarkCompletedTypeOK DEF Complete, WorkersOK
  <2>2. WorkersOK'
    <3>1. /\ claim' \in [Workers -> 0..MaxClaims]
          /\ outcome' \in [Workers -> 0..MaxRuns]
      BY <1>0, <1>6 DEF Complete, WorkersOK
    <3> QED BY <1>0, <1>6, <3>1, GotoTypeOK DEF Complete, Positions
  <2> QED BY <1>0, <1>6, <2>1, <2>2, UnchangedTypeOK DEF Complete, TypeOK
<1>7. CASE DeleteUpload(w)
  <2>1. StoresOK'
    BY <1>0, <1>7 DEF DeleteUpload, StoresOK
  <2> QED BY <1>0, <1>7, <2>1, FinishTypeOK, UnchangedTypeOK
          DEF DeleteUpload, TypeOK
<1>8. CASE Retry(w)
  <2>1. StoresOK'
    <3>1. task[w].retries + 1 \in 0..MaxRetries
      BY <1>0, <1>8 DEF Retry
    <3> QED BY <1>0, <1>8, <3>1, PostTypeOK DEF Retry, StoresOK
  <2> QED BY <1>0, <1>8, <2>1, FinishTypeOK, UnchangedTypeOK DEF Retry, TypeOK
<1>9. CASE FailPermanently(w)
  <2>1. RowsOK'
    BY <1>0, <1>9 DEF FailPermanently, MarkFailed, RowsOK, Statuses
  <2> QED BY <1>0, <1>9, <2>1, FinishTypeOK, UnchangedTypeOK
          DEF FailPermanently, TypeOK
<1> QED
  BY <1>1, <1>2, <1>3, <1>4, <1>5, <1>6, <1>7, <1>8, <1>9
  DEF TaskStep, Execute, DatabaseFault, StorageFault

(* The table and the broker only ever hold values of their columns' types,  *)
(* and a busy worker holds a message.                                       *)
THEOREM TypeCorrect == Spec => []TypeOK
<1> USE LimitsAssumption, BoundsAssumption
<1>1. Init => TypeOK
  BY DEF Init, TypeOK, RowsOK, StoresOK, WorkersOK, Statuses, Positions
<1>2. TypeOK /\ [Next]_vars => TypeOK'
  <2> SUFFICES ASSUME TypeOK, [Next]_vars PROVE TypeOK'
    OBVIOUS
  <2>0. RowsOK /\ StoresOK /\ WorkersOK
    BY DEF TypeOK
  <2>1. ASSUME NEW k \in Keys, Upload(k) PROVE TypeOK'
    BY <2>0, <2>1, UnchangedTypeOK DEF Upload, TypeOK, StoresOK
  <2>2. ASSUME NEW j \in Jobs, NEW k \in Keys, CreateJob(j, k) PROVE TypeOK'
    <3>1. RowsOK'
      BY <2>0, <2>2, InsertRankIsNat DEF CreateJob, RowsOK, Statuses
    <3> QED BY <2>0, <2>2, <3>1, UnchangedTypeOK DEF CreateJob, TypeOK
  <2>3. ASSUME Poll PROVE TypeOK'
    <3>1. \A j \in Jobs, r \in 0..MaxRetries :
            UpTo(MaxCopies, messages[j][r] + 1) \in 0..MaxCopies
      BY <2>0 DEF StoresOK, UpTo
    <3>2. messages' \in [Jobs -> [0..MaxRetries -> 0..MaxCopies]]
      BY <2>0, <2>3, <3>1 DEF Poll, StoresOK
    <3> QED BY <2>0, <2>3, <3>2, UnchangedTypeOK DEF Poll, TypeOK, StoresOK
  <2>4. ASSUME RecoverStale PROVE TypeOK'
    <3>1. RowsOK'
      BY <2>0, <2>4 DEF RecoverStale, RowsOK, Statuses, Stale
    <3> QED BY <2>0, <2>4, <3>1, UnchangedTypeOK DEF RecoverStale, TypeOK
  <2>5. ASSUME Tick PROVE TypeOK'
    <3>1. age' \in [Jobs -> 0..Grace + 1]
      BY <2>0, <2>5 DEF Tick, RowsOK, UpTo
    <3>2. clock' \in [Workers -> 0..TimeLimit]
      BY <2>0, <2>5 DEF Tick, WorkersOK
    <3> QED BY <2>0, <2>5, <3>1, <3>2, UnchangedTypeOK
            DEF Tick, TypeOK, RowsOK, WorkersOK
  <2>6. ASSUME NEW w \in Workers, NEW j \in Jobs, NEW r \in 0..MaxRetries,
               Deliver(w, j, r)
        PROVE  TypeOK'
    <3>1. StoresOK'
      BY <2>0, <2>6 DEF Deliver, StoresOK
    <3>2. WorkersOK'
      BY <2>0, <2>6 DEF Deliver, WorkersOK, Positions, Tasks
    <3> QED BY <2>0, <2>6, <3>1, <3>2, UnchangedTypeOK DEF Deliver, TypeOK
  <2>7. ASSUME NEW w \in Workers, TaskStep(w) PROVE TypeOK'
    BY <2>7, TaskStepTypeOK
  <2>8. ASSUME NEW w \in Workers, Crash(w) PROVE TypeOK'
    <3>1. StoresOK'
      BY <2>0, <2>8, BusyTask, PostTypeOK DEF Crash, StoresOK
    <3> QED BY <2>0, <2>8, <3>1, FinishTypeOK, UnchangedTypeOK
            DEF Crash, TypeOK
  <2>9. ASSUME NEW w \in Workers, KillAtTimeLimit(w) PROVE TypeOK'
    BY <2>0, <2>9, FinishTypeOK, UnchangedTypeOK DEF KillAtTimeLimit, TypeOK
  <2>10. CASE UNCHANGED vars
    BY <2>0, <2>10, UnchangedTypeOK DEF vars, TypeOK
  <2> QED
    BY <2>1, <2>2, <2>3, <2>4, <2>5, <2>6, <2>7, <2>8, <2>9, <2>10
    DEF Next, Work, IdleBeat, Loss, TaskStep
<1> QED BY <1>1, <1>2, PTL DEF Spec
-----------------------------------------------------------------------------
(* Committed results.  ResultWasCommitted and UploadOutlivesItsJob are not  *)
(* inductive: they lean on what a worker carries between its steps, the     *)
(* committed run it is about to record and the recorded result of the job   *)
(* whose copy it is about to delete.                                        *)
CarriedResults ==
  \A w \in Workers :
    /\ pc[w] = "analysed" => outcome[w] \in 1..runs[task[w].job]
    /\ pc[w] = "completed" => result[task[w].job] # 0

NoResultBeforeInsert == \A j \in Jobs : status[j] = "none" => result[j] = 0

ResultInv ==
  /\ ResultWasCommitted
  /\ UploadOutlivesItsJob
  /\ CarriedResults
  /\ NoResultBeforeInsert

(* Steps that touch neither the results, the runs nor the copies, and bring *)
(* no worker to a position that carries a result.                           *)
LEMMA ResultInvKept ==
  ASSUME TypeOK, ResultInv,
         UNCHANGED <<result, runs, upload>>,
         \A j \in Jobs : result[j] # 0 => key'[j] = key[j],
         \A j \in Jobs : status'[j] \in {"none", "completed"} =>
                           status'[j] = status[j],
         \A w \in Workers : pc'[w] \in {"analysed", "completed"} =>
           UNCHANGED <<pc[w], task[w], outcome[w]>>
  PROVE  ResultInv'
<1>1. ResultWasCommitted'
  BY DEF ResultInv, ResultWasCommitted
<1>2. UploadOutlivesItsJob'
  BY DEF ResultInv, UploadOutlivesItsJob
<1>3. CarriedResults'
  BY DEF ResultInv, CarriedResults
<1>4. NoResultBeforeInsert'
  BY DEF ResultInv, NoResultBeforeInsert
<1> QED BY <1>1, <1>2, <1>3, <1>4 DEF ResultInv

(* The analysis run a job names was committed, and the transient copy is    *)
(* removed only after a job made from it has its run recorded: under every  *)
(* fault, every time limit and shared keys.                                 *)
THEOREM ResultsAreCommitted ==
  Spec => [](ResultWasCommitted /\ UploadOutlivesItsJob)
<1>1. Init => ResultInv
  BY DEF Init, ResultInv, ResultWasCommitted, UploadOutlivesItsJob,
         CarriedResults, NoResultBeforeInsert
<1>2. TypeOK /\ ResultInv /\ [Next]_vars => ResultInv'
  <2> SUFFICES ASSUME TypeOK, ResultInv, [Next]_vars PROVE ResultInv'
    OBVIOUS
  <2> USE DEF rowVars, workerVars
  <2>0. /\ RowsOK /\ StoresOK /\ WorkersOK
        /\ ResultWasCommitted /\ UploadOutlivesItsJob
        /\ CarriedResults /\ NoResultBeforeInsert
    BY DEF TypeOK, ResultInv
  <2>1. ASSUME NEW k \in Keys, Upload(k) PROVE ResultInv'
    <3>1. UploadOutlivesItsJob'
      BY <2>0, <2>1 DEF Upload, UploadOutlivesItsJob, StoresOK
    <3> QED BY <2>0, <2>1, <3>1 DEF Upload, ResultInv, ResultWasCommitted,
                                    CarriedResults, NoResultBeforeInsert
  <2>2. ASSUME NEW j \in Jobs, NEW k \in Keys, CreateJob(j, k)
        PROVE  ResultInv'
    <3>1. result[j] = 0
      BY <2>0, <2>2 DEF CreateJob, NoResultBeforeInsert
    <3> QED BY <2>0, <2>2, <3>1, ResultInvKept DEF CreateJob, RowsOK
  <2>3. ASSUME Poll PROVE ResultInv'
    BY <2>3, ResultInvKept DEF Poll
  <2>4. ASSUME RecoverStale PROVE ResultInv'
    BY <2>0, <2>4, ResultInvKept DEF RecoverStale, RowsOK
  <2>5. ASSUME Tick PROVE ResultInv'
    BY <2>5, ResultInvKept DEF Tick
  <2>6. ASSUME NEW w \in Workers, NEW j \in Jobs, NEW r \in 0..MaxRetries,
               Deliver(w, j, r)
        PROVE  ResultInv'
    BY <2>0, <2>6, ResultInvKept DEF Deliver, WorkersOK
  <2>7. ASSUME NEW w \in Workers, TaskStep(w) PROVE ResultInv'
    <3>0. pc[w] # "idle" => task[w].job \in Jobs
      BY <2>0, BusyTask
    <3>1. CASE Claim(w)
      BY <2>0, <3>0, <3>1, ResultInvKept
      DEF Claim, ClaimRow, At, Goto, RowsOK, WorkersOK
    <3>2. CASE Skip(w) \/ DeleteRaises(w) \/ FailPermanentlyRaises(w)
      BY <2>0, <3>2, ResultInvKept
      DEF Skip, DeleteRaises, FailPermanentlyRaises, Finish, WorkersOK
    <3>3. CASE \/ Download(w) \/ DownloadFindsNothing(w) \/ DownloadRaises(w)
               \/ AnalyseRaises(w) \/ ReleaseRaises(w)
      BY <2>0, <3>3, ResultInvKept
      DEF Download, DownloadFindsNothing, DownloadRaises, AnalyseRaises,
          ReleaseRaises, Goto, WorkersOK
    <3>10. CASE ClaimRaises(w)
      BY <2>0, <3>0, <3>10, ResultInvKept
      DEF ClaimRaises, ClaimRow, At, Goto, RowsOK, WorkersOK
    <3>4. CASE Analyse(w)
      <4> DEFINE j == task[w].job
      <4>1. /\ j \in Jobs
            /\ runs[j] <= runs'[j] /\ runs'[j] \in 1..MaxRuns
            /\ outcome'[w] = runs'[j]
            /\ \A i \in Jobs \ {j} : runs'[i] = runs[i]
        BY <2>0, <3>0, <3>4, BoundsAssumption
        DEF Analyse, At, StoresOK, WorkersOK, UpTo
      <4>2. ResultWasCommitted'
        BY <2>0, <3>4, <4>1 DEF Analyse, ResultWasCommitted, RowsOK, StoresOK
      <4>3. CarriedResults'
        BY <2>0, <3>4, <4>1
        DEF Analyse, Goto, CarriedResults, StoresOK, WorkersOK, Tasks
      <4> QED BY <2>0, <3>4, <4>2, <4>3
              DEF Analyse, ResultInv, UploadOutlivesItsJob, NoResultBeforeInsert
    <3>5. CASE Release(w)
      BY <2>0, <3>0, <3>5, ResultInvKept
      DEF Release, MarkFailed, Requeue, At, Goto, RowsOK, WorkersOK
    <3>11. CASE CompleteRaises(w) /\ UNCHANGED rowVars
      BY <2>0, <3>11, ResultInvKept DEF CompleteRaises, Goto, WorkersOK
    <3>6. CASE /\ Complete(w) \/ CompleteRaises(w)
               /\ MarkCompleted(task[w].job, outcome[w])
      <4> DEFINE j == task[w].job
      <4>1. /\ j \in Jobs
            /\ result'[j] \in 1..runs[j]
            /\ \A i \in Jobs \ {j} : result'[i] = result[i]
            /\ status'[j] = "completed"
            /\ \A i \in Jobs \ {j} : status'[i] = status[i]
        BY <2>0, <3>0, <3>6 DEF Complete, CompleteRaises, MarkCompleted, At, RowsOK, CarriedResults
      <4>2. ResultWasCommitted'
        BY <2>0, <3>6, <4>1 DEF Complete, CompleteRaises, MarkCompleted, ResultWasCommitted, StoresOK
      <4>3. UploadOutlivesItsJob'
        BY <2>0, <3>6, <4>1 DEF Complete, CompleteRaises, MarkCompleted, UploadOutlivesItsJob
      <4>4. CarriedResults'
        <5> SUFFICES ASSUME NEW v \in Workers
                     PROVE  /\ pc'[v] = "analysed" =>
                                 outcome'[v] \in 1..runs'[task'[v].job]
                            /\ pc'[v] = "completed" => result'[task'[v].job] # 0
          BY DEF CarriedResults
        <5>1. pc[v] # "idle" => task[v].job \in Jobs
          BY <2>0, BusyTask
        <5>2. /\ UNCHANGED <<task, outcome, runs>>
              /\ pc'[v] # pc[v] => v = w /\ pc'[w] # "analysed"
          BY <2>0, <3>6 DEF Complete, CompleteRaises, Goto, WorkersOK
        <5>3. result'[j] # 0 /\ j = task[w].job
          BY <2>0, <4>1 DEF StoresOK
        <5> QED BY <2>0, <4>1, <5>1, <5>2, <5>3 DEF CarriedResults
      <4>5. NoResultBeforeInsert'
        BY <2>0, <3>6, <4>1 DEF Complete, CompleteRaises, MarkCompleted, NoResultBeforeInsert
      <4> QED BY <4>2, <4>3, <4>4, <4>5 DEF ResultInv
    <3>7. CASE DeleteUpload(w)
      <4> DEFINE j == task[w].job
      <4>1. j \in Jobs /\ result[j] # 0
        BY <2>0, <3>0, <3>7 DEF DeleteUpload, At, CarriedResults
      <4>2. UploadOutlivesItsJob'
        BY <2>0, <3>7, <4>1
        DEF DeleteUpload, UploadOutlivesItsJob, StoresOK
      <4>3. CarriedResults'
        BY <2>0, <3>7 DEF DeleteUpload, Finish, CarriedResults, WorkersOK
      <4> QED BY <2>0, <3>7, <4>2, <4>3
              DEF DeleteUpload, ResultInv, ResultWasCommitted,
                  NoResultBeforeInsert
    <3>8. CASE Retry(w)
      BY <2>0, <3>8, ResultInvKept DEF Retry, Finish, WorkersOK
    <3>9. CASE FailPermanently(w)
      BY <2>0, <3>0, <3>9, ResultInvKept
      DEF FailPermanently, MarkFailed, Finish, RowsOK, WorkersOK
    <3> QED
      BY <2>7, <3>1, <3>2, <3>3, <3>4, <3>5, <3>6, <3>7, <3>8, <3>9, <3>10, <3>11
      DEF TaskStep, Execute, DatabaseFault, StorageFault, Complete, CompleteRaises
  <2>8. ASSUME NEW w \in Workers, Crash(w) \/ KillAtTimeLimit(w)
        PROVE  ResultInv'
    BY <2>0, <2>8, ResultInvKept DEF Crash, KillAtTimeLimit, Finish, WorkersOK
  <2>9. CASE UNCHANGED vars
    BY <2>9, ResultInvKept DEF vars
  <2> QED
    BY <2>1, <2>2, <2>3, <2>4, <2>5, <2>6, <2>7, <2>8, <2>9
    DEF Next, Work, IdleBeat, Loss, TaskStep
<1>3. ResultInv => ResultWasCommitted /\ UploadOutlivesItsJob
  BY DEF ResultInv
<1> QED BY <1>1, <1>2, <1>3, TypeCorrect, PTL DEF Spec
-----------------------------------------------------------------------------
(***************************************************************************)
(* The history.  Each invariant below is about one job at a time, so every  *)
(* proof has the same shape: a step of a task leaves all jobs but its own   *)
(* as they are, and what it does to its own job is a case of its own.       *)
(***************************************************************************)
AnyTaskStep(w) == TaskStep(w) \/ Loss(w)

(* Nothing of job j or of the tasks that work on it changes.                *)
SameFor(j) ==
  /\ UNCHANGED <<status[j], attempts[j], age[j], key[j], result[j], runs[j]>>
  /\ \A w \in Workers :
       \/ pc[w] # "idle" /\ task[w].job = j
       \/ pc'[w] # "idle" /\ task'[w].job = j
       => UNCHANGED <<pc[w], task[w], claim[w], clock[w], outcome[w]>>

LEMMA FinishFrame ==
  ASSUME WorkersOK, NEW w \in Workers, Finish(w)
  PROVE  /\ pc'[w] = "idle" /\ claim'[w] = 0
         /\ \A v \in Workers : v # w =>
              UNCHANGED <<pc[v], task[v], claim[v], clock[v], outcome[v]>>
BY DEF Finish, WorkersOK

(* The frame of a task's step: another worker's task, and another job, stay *)
(* as they are.                                                             *)
LEMMA TaskFrame ==
  ASSUME TypeOK, NEW w \in Workers, AnyTaskStep(w)
  PROVE  /\ pc[w] # "idle" /\ task[w].job \in Jobs
         /\ task[w].retries \in 0..MaxRetries
         /\ UNCHANGED key
         /\ \A v \in Workers : v # w =>
              UNCHANGED <<pc[v], task[v], claim[v], clock[v], outcome[v]>>
         /\ \A j \in Jobs \ {task[w].job} : SameFor(j)
         /\ Finish(w) \/ UNCHANGED <<task, clock>>
<1> DEFINE j == task[w].job
<1> USE DEF rowVars
<1>0. RowsOK /\ StoresOK /\ WorkersOK
  BY DEF TypeOK
<1>1. pc[w] # "idle"
  BY DEF AnyTaskStep, Loss, Crash, KillAtTimeLimit,
         TaskStep, Execute, DatabaseFault, StorageFault, Claim, Skip, ClaimRaises,
         Download, DownloadFindsNothing, DownloadRaises, Analyse,
         AnalyseRaises, Release, ReleaseRaises, Complete, CompleteRaises,
         DeleteUpload, DeleteRaises, Retry, FailPermanently,
         FailPermanentlyRaises, At
<1>2. j \in Jobs /\ task[w].retries \in 0..MaxRetries
  BY <1>0, <1>1, BusyTask
<1>3. /\ \/ Finish(w) /\ UNCHANGED <<attempts, age>>
         \/ /\ \E p \in Positions : Goto(w, p)
            /\ \/ UNCHANGED claim
               \/ \E n \in 0..MaxClaims : claim' = [claim EXCEPT ![w] = n]
            /\ \/ UNCHANGED outcome
               \/ \E n \in 0..MaxRuns : outcome' = [outcome EXCEPT ![w] = n]
      /\ UNCHANGED key
      /\ \/ UNCHANGED status
         \/ \E s \in Statuses : status' = [status EXCEPT ![j] = s]
      /\ \/ UNCHANGED attempts
         \/ \E n \in 0..MaxClaims : attempts' = [attempts EXCEPT ![j] = n]
      /\ \/ UNCHANGED age
         \/ age' = [age EXCEPT ![j] = 0]
      /\ \/ UNCHANGED result
         \/ \E n \in 0..MaxRuns : result' = [result EXCEPT ![j] = n]
      /\ \/ UNCHANGED runs
         \/ \E n \in 0..MaxRuns : runs' = [runs EXCEPT ![j] = n]
  <2>0. /\ UpTo(MaxClaims, attempts[j] + 1) \in 0..MaxClaims
        /\ UpTo(MaxRuns, runs[j] + 1) \in 0..MaxRuns
        /\ outcome[w] \in 0..MaxRuns
    <3>1. attempts[j] \in 0..MaxClaims /\ runs[j] \in 0..MaxRuns
      BY <1>0, <1>2 DEF RowsOK, StoresOK
    <3>2. MaxClaims \in Nat /\ MaxRuns \in Nat
      BY BoundsAssumption
    <3>3. outcome[w] \in 0..MaxRuns
      BY <1>0 DEF WorkersOK
    <3> QED BY <3>1, <3>2, <3>3 DEF UpTo
  <2>1. CASE Claim(w) \/ ClaimRaises(w)
    BY <2>0, <2>1 DEF Claim, ClaimRaises, ClaimRow, Positions, Statuses
  <2>2. CASE \/ Download(w) \/ DownloadFindsNothing(w) \/ DownloadRaises(w)
             \/ AnalyseRaises(w) \/ ReleaseRaises(w)
    BY <2>2 DEF Download, DownloadFindsNothing, DownloadRaises, AnalyseRaises,
                ReleaseRaises, Positions
  <2>3. CASE Analyse(w)
    BY <2>0, <2>3 DEF Analyse, Positions
  <2>4. CASE Release(w)
    BY <2>4 DEF Release, MarkFailed, Requeue, Positions, Statuses
  <2>5. CASE Complete(w) \/ CompleteRaises(w)
    BY <2>0, <2>5 DEF Complete, CompleteRaises, MarkCompleted, Positions, Statuses
  <2>6. CASE \/ Skip(w) \/ DeleteUpload(w) \/ DeleteRaises(w) \/ Retry(w)
             \/ FailPermanentlyRaises(w) \/ Crash(w) \/ KillAtTimeLimit(w)
    BY <2>6 DEF Skip, DeleteUpload, DeleteRaises, Retry, FailPermanentlyRaises,
                Crash, KillAtTimeLimit
  <2>7. CASE FailPermanently(w)
    BY <2>7 DEF FailPermanently, MarkFailed, Statuses
  <2> QED
    BY <2>1, <2>2, <2>3, <2>4, <2>5, <2>6, <2>7
    DEF AnyTaskStep, TaskStep, Loss, Execute, DatabaseFault, StorageFault
<1>4. Finish(w) \/ UNCHANGED <<task, clock>>
  BY <1>3 DEF Goto
<1>5. \A v \in Workers : v # w =>
        UNCHANGED <<pc[v], task[v], claim[v], clock[v], outcome[v]>>
  BY <1>0, <1>3, FinishFrame DEF Goto, WorkersOK
<1>6. ASSUME NEW i \in Jobs, i # j PROVE SameFor(i)
  <2>1. UNCHANGED <<status[i], attempts[i], age[i], key[i], result[i], runs[i]>>
    BY <1>0, <1>2, <1>3, <1>6 DEF RowsOK, StoresOK
  <2>2. ~(pc[w] # "idle" /\ task[w].job = i)
    BY <1>6
  <2>3. ~(pc'[w] # "idle" /\ task'[w].job = i)
    BY <1>0, <1>4, <1>6, FinishFrame
  <2> QED BY <1>5, <2>1, <2>2, <2>3 DEF SameFor
<1> QED BY <1>1, <1>2, <1>3, <1>4, <1>5, <1>6

(* The same for a new row.                                                  *)
LEMMA CreateFrame ==
  ASSUME TypeOK, NEW j \in Jobs, NEW k \in Keys, CreateJob(j, k)
  PROVE  /\ UNCHANGED <<attempts, age, result, runs, upload, messages>>
         /\ UNCHANGED workerVars
         /\ status'[j] = "queued" /\ key'[j] = k
         /\ \A i \in Jobs \ {j} : SameFor(i)
BY DEF CreateJob, TypeOK, RowsOK, SameFor, workerVars

(* The history adds to AnalysisJobs and restricts nothing but the number of *)
(* faults.                                                                  *)
LEMMA HistoryIsSpec == HistorySpec => Spec
<1>1. HistoryInit => Init
  BY DEF HistoryInit
<1>2. [HistoryNext]_allVars => [Next]_vars
  BY DEF HistoryNext, HistoryWork, HistoryRecover, HistoryFault, Next, allVars
<1> QED BY <1>1, <1>2, PTL DEF HistorySpec, Spec

(* The disjuncts of a step, as the proofs below take them.                  *)
LEMMA HistorySteps ==
  ASSUME [HistoryNext]_allVars
  PROVE  \/ UNCHANGED allVars
         \/ (\E k \in Keys : Upload(k)) /\ UNCHANGED historyVars
         \/ (\E j \in Jobs, k \in Keys : CreateJob(j, k)) /\ UNCHANGED historyVars
         \/ Poll /\ UNCHANGED historyVars
         \/ Tick /\ UNCHANGED historyVars
         \/ /\ \E w \in Workers, j \in Jobs, r \in 0..MaxRetries : Deliver(w, j, r)
            /\ UNCHANGED historyVars
         \/ (\E w \in Workers : Execute(w)) /\ UNCHANGED historyVars
         \/ HistoryRecover
         \/ \E w \in Workers : HistoryFault(w)
BY DEF HistoryNext, HistoryWork, Work, IdleBeat, allVars

LEMMA HistoryTyped == HistorySpec => [](TypeOK /\ HistoryOK)
<1>1. HistoryInit => HistoryOK
  BY FaultsAssumption, BoundsAssumption DEF HistoryInit, HistoryOK
<1>2. TypeOK /\ HistoryOK /\ [HistoryNext]_allVars => HistoryOK'
  <2> SUFFICES ASSUME TypeOK, HistoryOK, [HistoryNext]_allVars PROVE HistoryOK'
    OBVIOUS
  <2>1. CASE UNCHANGED historyVars
    BY <2>1 DEF HistoryOK, historyVars
  <2>2. CASE HistoryRecover
    <3>1. \A j \in Jobs : UpTo(MaxClaims, recoveries[j] + 1) \in 0..MaxClaims
      BY BoundsAssumption DEF HistoryOK, UpTo
    <3>2. recoveries' \in [Jobs -> 0..MaxClaims]
      BY <2>2, <3>1 DEF HistoryRecover, HistoryOK
    <3> QED BY <2>2, <3>2 DEF HistoryRecover, HistoryOK
  <2>3. ASSUME NEW w \in Workers, HistoryFault(w) PROVE HistoryOK'
    <3>1. task[w].job \in Jobs
      BY <2>3, TaskFrame DEF HistoryFault, AnyTaskStep, TaskStep
    <3>2. faults' \in 0..MaxFaults
      BY <2>3, FaultsAssumption DEF HistoryFault, HistoryOK
    <3> QED BY <2>3, <3>1, <3>2 DEF HistoryFault, HistoryOK
  <2> QED BY <2>1, <2>2, <2>3, HistorySteps DEF allVars
<1> QED BY <1>1, <1>2, HistoryIsSpec, TypeCorrect, PTL DEF HistorySpec

(* What has befallen a job stays on its record.                             *)
LEMMA RecordsGrow ==
  ASSUME [HistoryNext]_allVars
  PROVE  taken \subseteq taken' /\ faulted \subseteq faulted'
<1>1. CASE UNCHANGED historyVars
  BY <1>1 DEF historyVars
<1>2. CASE HistoryRecover \/ \E w \in Workers : HistoryFault(w)
  BY <1>2 DEF HistoryRecover, HistoryFault
<1> QED BY <1>1, <1>2, HistorySteps DEF allVars
-----------------------------------------------------------------------------
(* A task's step ends it, claims a row, or goes on from a claimed row.      *)
LEMMA TaskKinds ==
  ASSUME TypeOK, NEW w \in Workers, AnyTaskStep(w)
  PROVE  /\ \/ /\ Finish(w) /\ UNCHANGED <<attempts, age, runs, result>>
               /\ UNCHANGED status \/ FailPermanently(w)
            \/ Claim(w)
            \/ ClaimRaises(w)
            \/ /\ pc[w] \in Holding
               /\ pc'[w] \in {"downloaded", "failing", "analysed", "completed", "raised"}
               /\ UNCHANGED <<attempts, claim, messages>>
               /\ pc'[w] \in Holding => UNCHANGED status
         /\ \A j \in Jobs : age'[j] = age[j] \/ age'[j] = 0
<1> USE DEF rowVars
<1>0. RowsOK /\ WorkersOK /\ task[w].job \in Jobs
  BY TaskFrame DEF TypeOK
<1>1. CASE Claim(w) \/ ClaimRaises(w)
  BY <1>0, <1>1 DEF Claim, ClaimRaises, ClaimRow, RowsOK
<1>2. CASE \/ Download(w) \/ DownloadFindsNothing(w) \/ DownloadRaises(w)
           \/ Analyse(w) \/ AnalyseRaises(w) \/ Release(w) \/ ReleaseRaises(w)
           \/ Complete(w) \/ CompleteRaises(w)
  <2>1. /\ pc[w] \in Holding
        /\ UNCHANGED <<attempts, claim, messages>>
        /\ UNCHANGED age \/ Requeue(task[w].job)
    BY <1>2
    DEF Download, DownloadFindsNothing, DownloadRaises, Analyse, AnalyseRaises,
        Release, ReleaseRaises, Complete, CompleteRaises, MarkCompleted,
        MarkFailed, At, Holding
  <2>2. pc'[w] \in {"downloaded", "failing", "analysed", "completed", "raised"}
    BY <1>0, <1>2
    DEF Download, DownloadFindsNothing, DownloadRaises, Analyse, AnalyseRaises,
        Release, ReleaseRaises, Complete, CompleteRaises, Goto, WorkersOK
  <2>3. pc'[w] \in Holding => UNCHANGED status
    BY <1>0, <1>2
    DEF Download, DownloadFindsNothing, DownloadRaises, Analyse, AnalyseRaises,
        Release, ReleaseRaises, Complete, CompleteRaises, Goto, Holding, WorkersOK
  <2> QED BY <1>0, <2>1, <2>2, <2>3 DEF Requeue, RowsOK
<1>3. CASE \/ Skip(w) \/ DeleteUpload(w) \/ DeleteRaises(w) \/ Retry(w)
           \/ FailPermanently(w) \/ FailPermanentlyRaises(w)
           \/ Crash(w) \/ KillAtTimeLimit(w)
  BY <1>3 DEF Skip, DeleteUpload, DeleteRaises, Retry, FailPermanently, MarkFailed,
              FailPermanentlyRaises, Crash, KillAtTimeLimit
<1> QED
  BY <1>1, <1>2, <1>3
  DEF AnyTaskStep, TaskStep, Loss, Execute, DatabaseFault, StorageFault

(* The age of a row never runs ahead of a task that claimed it: a claim     *)
(* sets the age to zero, and time passes for both.  A task that has no      *)
(* claim to show, though it is past the claim, met a database fault.        *)
ClaimsAreShown ==
  \A w \in Workers :
    /\ pc[w] \in {"idle", "started"} => claim[w] = 0
    /\ pc[w] \in Holding => claim[w] # 0
    /\ pc[w] = "raised" /\ task[w].job \notin faulted => claim[w] # 0

RowsAreYoung ==
  \A w \in Workers, j \in Jobs : Engaged(w, j) => age[j] <= clock[w]

LEMMA ClaimsAreShownStep ==
  ASSUME TypeOK, ClaimsAreShown, [HistoryNext]_allVars
  PROVE  ClaimsAreShown'
<1>0. RowsOK /\ WorkersOK /\ faulted \subseteq faulted'
  BY RecordsGrow DEF TypeOK
<1>1. ASSUME UNCHANGED <<pc, task, claim>> PROVE ClaimsAreShown'
  BY <1>0, <1>1 DEF ClaimsAreShown
<1>2. ASSUME NEW w \in Workers, NEW j \in Jobs, NEW r \in 0..MaxRetries,
             Deliver(w, j, r)
      PROVE  ClaimsAreShown'
  <2>1. /\ pc'[w] = "started" /\ UNCHANGED claim /\ pc[w] = "idle"
        /\ \A v \in Workers : v # w => pc'[v] = pc[v] /\ task'[v] = task[v]
    BY <1>0, <1>2 DEF Deliver, WorkersOK
  <2> QED BY <1>0, <2>1 DEF ClaimsAreShown, Holding
<1>3. ASSUME NEW w \in Workers, AnyTaskStep(w),
             ClaimRaises(w) => task[w].job \in faulted'
      PROVE  ClaimsAreShown'
  <2>1. \A v \in Workers : v # w => UNCHANGED <<pc[v], task[v], claim[v]>>
    BY <1>3, TaskFrame
  <2>2. CASE Finish(w)
    BY <1>0, <2>1, <2>2, FinishFrame DEF ClaimsAreShown, Holding
  <2>3. CASE Claim(w)
    <3>1. UpTo(MaxClaims, attempts[task[w].job] + 1) # 0
      BY <1>0, <1>3, TaskFrame, BoundsAssumption, LimitsAssumption DEF RowsOK, UpTo
    <3>2. pc'[w] = "claimed" /\ claim'[w] # 0
      BY <1>0, <2>3, <3>1 DEF Claim, Goto, WorkersOK
    <3> QED BY <1>0, <2>1, <3>2 DEF ClaimsAreShown
  <2>4. CASE ClaimRaises(w)
    <3>1. pc'[w] = "raised" /\ task'[w].job \in faulted'
      BY <1>0, <1>3, <2>4 DEF ClaimRaises, Goto, WorkersOK
    <3> QED BY <1>0, <2>1, <3>1 DEF ClaimsAreShown, Holding
  <2>5. CASE /\ pc[w] \in Holding /\ UNCHANGED claim
             /\ pc'[w] \in {"downloaded", "failing", "analysed", "completed", "raised"}
    BY <1>0, <2>1, <2>5 DEF ClaimsAreShown, Holding
  <2> QED BY <1>3, <2>2, <2>3, <2>4, <2>5, TaskKinds
<1>4. ASSUME NEW w \in Workers, Execute(w) PROVE ClaimsAreShown'
  <2>1. AnyTaskStep(w)
    BY <1>4 DEF AnyTaskStep, TaskStep
  <2>2. ~ClaimRaises(w)
    <3>1. ClaimRaises(w) => pc'[w] = "raised" /\ pc[w] = "started"
      BY <1>0 DEF ClaimRaises, At, Goto, WorkersOK
    <3>2. pc[w] = "started" => Claim(w) \/ Skip(w)
      BY <1>4
      DEF Execute, Download, DownloadFindsNothing, Analyse, AnalyseRaises, Release,
          Complete, DeleteUpload, Retry, FailPermanently, At
    <3>3. Claim(w) \/ Skip(w) => pc'[w] # "raised"
      BY <1>0 DEF Claim, Skip, Goto, Finish, WorkersOK
    <3> QED BY <3>1, <3>2, <3>3
  <2> QED BY <1>3, <2>1, <2>2
<1>5. ASSUME NEW w \in Workers, HistoryFault(w) PROVE ClaimsAreShown'
  <2>1. AnyTaskStep(w)
    BY <1>5 DEF HistoryFault, AnyTaskStep, TaskStep
  <2>2. ClaimRaises(w) => task[w].job \in faulted'
    <3>1. CASE DatabaseFault(w) /\ faulted' = faulted \cup {task[w].job}
      BY <3>1
    <3>2. CASE StorageFault(w) \/ Loss(w)
      <4>1. ClaimRaises(w) => pc'[w] = "raised" /\ pc[w] = "started"
        BY <1>0 DEF ClaimRaises, At, Goto, WorkersOK
      <4>2. pc[w] = "started" => Crash(w) \/ KillAtTimeLimit(w)
        BY <3>2 DEF StorageFault, Loss, DownloadRaises, DeleteRaises, At
      <4>3. Crash(w) \/ KillAtTimeLimit(w) => pc'[w] = "idle"
        BY <1>0 DEF Crash, KillAtTimeLimit, Finish, WorkersOK
      <4> QED BY <4>1, <4>2, <4>3
    <3> QED BY <1>5, <3>1, <3>2 DEF HistoryFault
  <2> QED BY <1>3, <2>1, <2>2
<1> QED
  BY <1>1, <1>2, <1>4, <1>5, HistorySteps
  DEF Upload, CreateJob, Poll, Tick, HistoryRecover, RecoverStale, workerVars,
      allVars, vars

LEMMA RowsAreYoungStep ==
  ASSUME TypeOK, ClaimsAreShown, RowsAreYoung, [HistoryNext]_allVars
  PROVE  RowsAreYoung'
<1> USE DEF rowVars, workerVars
<1>0. RowsOK /\ WorkersOK
  BY DEF TypeOK
<1>1. /\ \A w \in Workers : clock[w] \in Nat
      /\ \A j \in Jobs : age[j] \in Nat
  BY <1>0, LimitsAssumption DEF RowsOK, WorkersOK
<1>2. ASSUME \A w \in Workers, j \in Jobs : Engaged(w, j)' =>
               Engaged(w, j) /\ clock'[w] = clock[w],
             \A j \in Jobs : age'[j] = age[j] \/ age'[j] = 0
      PROVE  RowsAreYoung'
  BY <1>1, <1>2 DEF RowsAreYoung
<1>3. ASSUME UNCHANGED workerVars,
             \A j \in Jobs : age'[j] = age[j] \/ age'[j] = 0
      PROVE  RowsAreYoung'
  BY <1>2, <1>3 DEF Engaged
<1>4. ASSUME Tick PROVE RowsAreYoung'
  <2>1. \A j \in Jobs : age'[j] <= age[j] + 1 /\ age'[j] \in Nat
    BY <1>0, <1>4, LimitsAssumption DEF Tick, RowsOK, UpTo
  <2>2. \A w \in Workers, j \in Jobs : Engaged(w, j)' =>
          Engaged(w, j) /\ clock'[w] = clock[w] + 1
    BY <1>0, <1>4 DEF Tick, Engaged, Holding, WorkersOK
  <2> QED BY <1>1, <2>1, <2>2 DEF RowsAreYoung
<1>5. ASSUME NEW w \in Workers, NEW j \in Jobs, NEW r \in 0..MaxRetries,
             Deliver(w, j, r)
      PROVE  RowsAreYoung'
  BY <1>0, <1>2, <1>5 DEF Deliver, Engaged, Holding, WorkersOK
<1>6. ASSUME NEW w \in Workers, AnyTaskStep(w) PROVE RowsAreYoung'
  <2>1. \A v \in Workers : v # w =>
          UNCHANGED <<pc[v], task[v], claim[v], clock[v]>>
    BY <1>6, TaskFrame
  <2>2. \A j \in Jobs : age'[j] = age[j] \/ age'[j] = 0
    BY <1>6, TaskKinds
  <2>3. \A v \in Workers, j \in Jobs : v # w /\ Engaged(v, j)' =>
          Engaged(v, j) /\ clock'[v] = clock[v]
    BY <2>1 DEF Engaged
  <2>4. CASE Finish(w) \/ ClaimRaises(w)
    <3>1. claim'[w] = 0
      BY <1>0, <2>4, FinishFrame DEF ClaimRaises, At, ClaimsAreShown
    <3>2. \A j \in Jobs : ~Engaged(w, j)'
      BY <3>1 DEF Engaged
    <3> QED BY <1>2, <2>2, <2>3, <3>2
  <2>5. CASE Claim(w)
    <3>1. UNCHANGED task /\ age'[task[w].job] = 0 /\ clock' = clock
      BY <1>0, <1>6, <2>5, TaskFrame DEF Claim, ClaimRow, Goto, RowsOK
    <3>2. \A j \in Jobs : Engaged(w, j)' => age'[j] <= clock'[w]
      BY <1>1, <3>1 DEF Engaged
    <3>3. \A v \in Workers, j \in Jobs : v # w /\ Engaged(v, j)' => age'[j] <= clock'[v]
      BY <1>1, <2>2, <2>3 DEF RowsAreYoung
    <3> QED BY <3>2, <3>3 DEF RowsAreYoung
  <2>6. CASE pc[w] \in Holding /\ UNCHANGED claim /\ pc'[w] # "idle"
    <3>1. ~Finish(w)
      BY <1>0, <2>6, FinishFrame
    <3>2. UNCHANGED <<task, clock>>
      BY <1>6, <3>1, TaskFrame
    <3>3. \A j \in Jobs : Engaged(w, j)' => Engaged(w, j) /\ clock'[w] = clock[w]
      BY <2>6, <3>2 DEF Engaged
    <3> QED BY <1>2, <2>2, <2>3, <3>3
  <2> QED BY <1>6, <2>4, <2>5, <2>6, TaskKinds
<1>7. ASSUME RecoverStale PROVE RowsAreYoung'
  BY <1>0, <1>3, <1>7 DEF RecoverStale, RowsOK
<1> QED
  BY <1>3, <1>4, <1>5, <1>6, <1>7, HistorySteps
  DEF Upload, CreateJob, Poll, HistoryRecover, HistoryFault, AnyTaskStep, TaskStep,
      allVars, vars

ClaimInv == ClaimsAreShown /\ RowsAreYoung

LEMMA ClaimsAndAges == HistorySpec => [](TypeOK /\ HistoryOK /\ ClaimInv)
<1>1. HistoryInit => ClaimInv
  BY DEF HistoryInit, Init, ClaimInv, ClaimsAreShown, RowsAreYoung, Engaged, Holding
<1>2. TypeOK /\ ClaimInv /\ [HistoryNext]_allVars => ClaimInv'
  BY ClaimsAreShownStep, RowsAreYoungStep DEF ClaimInv
<1> QED BY <1>1, <1>2, HistoryTyped, PTL DEF HistorySpec

(* recover_stale takes a row from a worker only if that worker's task has   *)
(* been running for longer than the grace, under every fault and whatever   *)
(* the limits are.                                                          *)
THEOREM RowsAreTakenAfterGrace == HistorySpec => TakenAfterGrace
<1> DEFINE Late == \A j \in taken' \ taken :
                     \E w \in Workers : Engaged(w, j) /\ clock[w] > Grace
<1>1. TypeOK /\ ClaimInv /\ [HistoryNext]_allVars => [Late]_allVars
  <2> SUFFICES ASSUME TypeOK, ClaimInv, [HistoryNext]_allVars PROVE Late
    OBVIOUS
  <2>1. CASE UNCHANGED taken
    BY <2>1
  <2>2. CASE HistoryRecover
    <3> SUFFICES ASSUME NEW j \in taken' \ taken
                 PROVE  \E w \in Workers : Engaged(w, j) /\ clock[w] > Grace
      OBVIOUS
    <3>1. PICK w \in Workers : j \in Jobs /\ Stale(j) /\ Engaged(w, j)
      BY <2>2 DEF HistoryRecover
    <3>2. age[j] > Grace /\ age[j] <= clock[w]
      BY <3>1 DEF Stale, ClaimInv, RowsAreYoung
    <3>3. age[j] \in Nat /\ clock[w] \in Nat
      BY <3>1, LimitsAssumption DEF TypeOK, RowsOK, WorkersOK
    <3> QED BY <3>1, <3>2, <3>3, LimitsAssumption
  <2> QED BY <2>1, <2>2, HistorySteps DEF HistoryFault, historyVars, allVars
<1> QED BY <1>1, ClaimsAndAges, PTL DEF HistorySpec, TakenAfterGrace
-----------------------------------------------------------------------------
(* One holder per job.  A row that is held is processing, or was marked     *)
(* failed by the last retry of another message; in neither status can it be *)
(* claimed.                                                                 *)
HolderFor(j) ==
  /\ \A w \in Workers : Holds(w, j) => status[j] \in {"processing", "failed"}
  /\ \A v, w \in Workers : Holds(v, j) /\ Holds(w, j) => v = w

HolderInv == \A j \in Jobs \ taken : HolderFor(j)

LEMMA HolderKept ==
  ASSUME NEW j \in Jobs, HolderFor(j),
         \A w \in Workers : Holds(w, j)' => Holds(w, j),
         status'[j] = status[j] \/ status'[j] = "failed"
  PROVE  HolderFor(j)'
BY DEF HolderFor

LEMMA HolderSame ==
  ASSUME NEW j \in Jobs, HolderFor(j), SameFor(j)
  PROVE  HolderFor(j)'
<1>1. \A w \in Workers : Holds(w, j)' => Holds(w, j)
  BY DEF SameFor, Holds, Holding
<1> QED BY <1>1, HolderKept DEF SameFor

(* What a task does to its own job.                                         *)
LEMMA HolderTask ==
  ASSUME TypeOK, NEW w \in Workers, AnyTaskStep(w),
         NEW j \in Jobs, j = task[w].job, HolderFor(j)
  PROVE  HolderFor(j)'
<1> USE DEF rowVars
<1>0. RowsOK /\ WorkersOK
  BY DEF TypeOK
<1>1. \A v \in Workers : v # w => UNCHANGED <<pc[v], task[v]>>
  BY TaskFrame
<1>2. \A v \in Workers : v # w /\ Holds(v, j)' => Holds(v, j)
  BY <1>1 DEF Holds
<1>3. CASE Finish(w) /\ (UNCHANGED status \/ FailPermanently(w))
  <2>1. ~Holds(w, j)'
    BY <1>0, <1>3, FinishFrame DEF Holds, Holding
  <2>2. status'[j] = status[j] \/ status'[j] = "failed"
    BY <1>0, <1>3 DEF FailPermanently, MarkFailed, RowsOK
  <2> QED BY <1>2, <2>1, <2>2, HolderKept
<1>4. CASE ClaimRow(j)
  <2>1. status[j] = "queued" /\ status'[j] = "processing"
    BY <1>0, <1>4 DEF ClaimRow, RowsOK
  <2>2. \A v \in Workers : v # w => ~Holds(v, j)'
    BY <1>2, <2>1 DEF HolderFor
  <2> QED BY <2>1, <2>2 DEF HolderFor
<1>5. CASE ClaimRaises(w) /\ UNCHANGED rowVars
  <2>1. ~Holds(w, j)'
    BY <1>0, <1>5 DEF ClaimRaises, Goto, Holds, Holding, WorkersOK
  <2> QED BY <1>2, <1>5, <2>1, HolderKept
<1>6. CASE /\ pc[w] \in Holding
           /\ pc'[w] \in Holding => UNCHANGED status
  <2>1. Holds(w, j)
    BY <1>6 DEF Holds
  <2>2. CASE pc'[w] \in Holding
    BY <1>2, <1>6, <2>1, <2>2, HolderKept
  <2>3. CASE pc'[w] \notin Holding
    <3>1. \A v \in Workers : ~Holds(v, j)'
      BY <1>2, <2>1, <2>3 DEF HolderFor, Holds
    <3> QED BY <3>1 DEF HolderFor
  <2> QED BY <2>2, <2>3
<1> QED
  BY <1>3, <1>4, <1>5, <1>6, TaskKinds DEF Claim, ClaimRaises

(* Steps of no task: the beat, the broker, the clients.                     *)
LEMMA OthersFrame ==
  ASSUME TypeOK, ClaimsAreShown, [HistoryNext]_allVars,
         NEW j \in Jobs, j \notin taken'
  PROVE  \/ \E w \in Workers : AnyTaskStep(w)
         \/ \E k \in Keys : CreateJob(j, k)
         \/ /\ UNCHANGED <<status[j], attempts[j], key[j], result[j], runs[j]>>
            /\ UNCHANGED upload \/ \E k \in Keys : Upload(k)
            /\ \A w \in Workers : pc'[w] \notin {"idle", "started"} \/ pc[w] # "idle" =>
                 UNCHANGED <<pc[w], task[w], claim[w], outcome[w]>>
         \/ /\ Stale(j) /\ status'[j] = "queued"
            /\ UNCHANGED <<attempts, key, result, runs, upload, messages>>
            /\ UNCHANGED workerVars
            /\ \A w \in Workers : ~Engaged(w, j) /\ ~Holds(w, j)
<1> USE DEF rowVars, workerVars
<1>0. RowsOK /\ WorkersOK
  BY DEF TypeOK
<1>1. CASE UNCHANGED allVars
  BY <1>1 DEF allVars, vars
<1>2. ASSUME NEW k \in Keys, Upload(k)
      PROVE  /\ UNCHANGED rowVars /\ UNCHANGED runs /\ UNCHANGED workerVars
  BY <1>2 DEF Upload
<1>3. ASSUME NEW i \in Jobs, NEW k \in Keys, CreateJob(i, k), i # j
      PROVE  /\ UNCHANGED <<status[j], attempts[j], key[j], result[j], runs[j]>>
             /\ UNCHANGED upload /\ UNCHANGED workerVars
  BY <1>0, <1>3 DEF CreateJob, RowsOK
<1>4. CASE Poll
  BY <1>4 DEF Poll
<1>5. CASE Tick
  BY <1>5 DEF Tick
<1>6. ASSUME NEW w \in Workers, NEW i \in Jobs, NEW r \in 0..MaxRetries,
             Deliver(w, i, r)
      PROVE  /\ UNCHANGED rowVars /\ UNCHANGED <<runs, upload>>
             /\ \A v \in Workers : pc'[v] \notin {"idle", "started"} \/ pc[v] # "idle" =>
                  UNCHANGED <<pc[v], task[v], claim[v], outcome[v]>>
  BY <1>0, <1>6 DEF Deliver, WorkersOK
<1>7. CASE HistoryRecover
  <2>1. CASE Stale(j)
    <3>1. \A w \in Workers : ~Engaged(w, j)
      BY <1>7, <2>1 DEF HistoryRecover
    <3>2. \A w \in Workers : ~Holds(w, j)
      BY <3>1 DEF ClaimsAreShown, Engaged, Holds
    <3> QED BY <1>0, <1>7, <2>1, <3>1, <3>2 DEF HistoryRecover, RecoverStale, RowsOK
  <2>2. CASE ~Stale(j)
    BY <1>0, <1>7, <2>2 DEF HistoryRecover, RecoverStale, RowsOK
  <2> QED BY <2>1, <2>2
<1>8. ASSUME NEW w \in Workers, Execute(w) \/ HistoryFault(w)
      PROVE  AnyTaskStep(w)
  BY <1>8 DEF HistoryFault, AnyTaskStep, TaskStep
<1> QED
  BY <1>1, <1>2, <1>3, <1>4, <1>5, <1>6, <1>7, <1>8, HistorySteps

LEMMA HolderInvStep ==
  ASSUME TypeOK, ClaimsAreShown, HolderInv, [HistoryNext]_allVars
  PROVE  HolderInv'
<1> SUFFICES ASSUME NEW j \in Jobs, j \notin taken' PROVE HolderFor(j)'
  BY DEF HolderInv
<1>0. RowsOK /\ HolderFor(j)
  BY RecordsGrow DEF TypeOK, HolderInv
<1>1. ASSUME NEW w \in Workers, AnyTaskStep(w) PROVE HolderFor(j)'
  BY <1>0, <1>1, TaskFrame, HolderTask, HolderSame
<1>2. ASSUME NEW k \in Keys, CreateJob(j, k) PROVE HolderFor(j)'
  BY <1>0, <1>2 DEF CreateJob, HolderFor, Holds, workerVars
<1>3. CASE /\ UNCHANGED status[j]
           /\ \A w \in Workers : pc'[w] \notin {"idle", "started"} \/ pc[w] # "idle" =>
                UNCHANGED <<pc[w], task[w]>>
  BY <1>0, <1>3, HolderKept DEF Holds, Holding
<1>4. CASE UNCHANGED workerVars /\ \A w \in Workers : ~Holds(w, j)
  BY <1>4 DEF HolderFor, Holds, workerVars
<1> QED BY <1>1, <1>2, <1>3, <1>4, OthersFrame

(* claim_job hands a row to one task: whatever messages are copied,         *)
(* redelivered or retried, two workers execute a job at once only after     *)
(* recover_stale has taken its row from one of them.                        *)
THEOREM ClaimsAreExclusive == HistorySpec => []OneHolderPerJob
<1>1. HistoryInit => HolderInv
  BY DEF HistoryInit, Init, HolderInv, HolderFor, Holds, Holding
<1>2. TypeOK /\ ClaimInv /\ HolderInv /\ [HistoryNext]_allVars => HolderInv'
  BY HolderInvStep DEF ClaimInv
<1>3. HolderInv => OneHolderPerJob
  BY DEF HolderInv, HolderFor, OneHolderPerJob
<1> QED BY <1>1, <1>2, <1>3, ClaimsAndAges, PTL DEF HistorySpec
-----------------------------------------------------------------------------
(* Every queued job can be downloaded.  A copy is gone only when its job is *)
(* settled and nobody holds it, and nothing leaves that state.              *)
InsertedInv ==
  /\ \A j \in Jobs : IF status[j] = "none" THEN key[j] = NoKey ELSE key[j] \in Keys
  /\ \A j \in Jobs, r \in 0..MaxRetries : messages[j][r] > 0 => status[j] # "none"
  /\ \A w \in Workers : pc[w] # "idle" => status[task[w].job] # "none"

(* What a task does to the rows and the messages that others see.           *)
LEMMA TaskWrites ==
  ASSUME TypeOK, NEW w \in Workers, AnyTaskStep(w)
  PROVE  /\ \/ UNCHANGED status
            \/ \E s \in Statuses \ {"none"} : status' = [status EXCEPT ![task[w].job] = s]
         /\ \/ UNCHANGED messages
            \/ messages' = Post(messages, task[w].job, task[w].retries) /\ Crash(w)
            \/ messages' = Post(messages, task[w].job, task[w].retries + 1) /\ Retry(w)
         /\ UNCHANGED upload \/ DeleteUpload(w)
         /\ pc'[w] = "completed" => Complete(w)
<1> USE DEF rowVars
<1>0. WorkersOK
  BY DEF TypeOK
<1>1. CASE \/ Claim(w) \/ ClaimRaises(w)
  BY <1>0, <1>1 DEF Claim, ClaimRaises, ClaimRow, Goto, Statuses, WorkersOK
<1>2. CASE \/ Download(w) \/ DownloadFindsNothing(w) \/ DownloadRaises(w)
           \/ Analyse(w) \/ AnalyseRaises(w) \/ ReleaseRaises(w)
  BY <1>0, <1>2
  DEF Download, DownloadFindsNothing, DownloadRaises, Analyse, AnalyseRaises,
      ReleaseRaises, Goto, WorkersOK
<1>3. CASE Release(w)
  BY <1>0, <1>3 DEF Release, MarkFailed, Requeue, Goto, Statuses, WorkersOK
<1>4. CASE Complete(w) \/ CompleteRaises(w)
  BY <1>0, <1>4
  DEF Complete, CompleteRaises, MarkCompleted, Goto, Statuses, WorkersOK
<1>5. CASE \/ Skip(w) \/ DeleteUpload(w) \/ DeleteRaises(w) \/ Retry(w)
           \/ FailPermanently(w) \/ FailPermanentlyRaises(w)
           \/ Crash(w) \/ KillAtTimeLimit(w)
  <2>1. pc'[w] = "idle"
    BY <1>0, <1>5
    DEF Skip, DeleteUpload, DeleteRaises, Retry, FailPermanently,
        FailPermanentlyRaises, Crash, KillAtTimeLimit, Finish, WorkersOK
  <2> QED
    BY <1>5, <2>1
    DEF Skip, DeleteUpload, DeleteRaises, Retry, FailPermanently, MarkFailed,
        FailPermanentlyRaises, Crash, KillAtTimeLimit, Statuses
<1> QED
  BY <1>1, <1>2, <1>3, <1>4, <1>5
  DEF AnyTaskStep, TaskStep, Loss, Execute, DatabaseFault, StorageFault

LEMMA InsertedInvStep ==
  ASSUME TypeOK, InsertedInv, [Next]_vars
  PROVE  InsertedInv'
<1> USE DEF rowVars, workerVars
<1>0. RowsOK /\ StoresOK /\ WorkersOK
  BY DEF TypeOK
<1>1. ASSUME NEW k \in Keys, Upload(k) PROVE InsertedInv'
  BY <1>1 DEF Upload, InsertedInv
<1>2. ASSUME NEW j \in Jobs, NEW k \in Keys, CreateJob(j, k)
      PROVE  InsertedInv'
  BY <1>0, <1>2, BusyTask DEF CreateJob, InsertedInv, RowsOK
<1>3. ASSUME Poll PROVE InsertedInv'
  <2>1. \A j \in Jobs, r \in 0..MaxRetries :
          messages'[j][r] > 0 => messages[j][r] > 0 \/ status[j] = "queued"
    BY <1>0, <1>3 DEF Poll, Queued, StoresOK
  <2> QED BY <1>3, <2>1 DEF Poll, InsertedInv
<1>4. ASSUME RecoverStale PROVE InsertedInv'
  BY <1>0, <1>4, BusyTask DEF RecoverStale, InsertedInv, RowsOK, Stale
<1>5. ASSUME Tick PROVE InsertedInv'
  BY <1>5 DEF Tick, InsertedInv
<1>6. ASSUME NEW w \in Workers, NEW j \in Jobs, NEW r \in 0..MaxRetries,
             Deliver(w, j, r)
      PROVE  InsertedInv'
  BY <1>0, <1>6 DEF Deliver, InsertedInv, StoresOK, WorkersOK
<1>7. ASSUME NEW w \in Workers, AnyTaskStep(w) PROVE InsertedInv'
  <2> DEFINE j == task[w].job
  <2>1. /\ j \in Jobs /\ pc[w] # "idle" /\ status[j] # "none" /\ UNCHANGED key
        /\ task[w].retries \in Nat
    BY <1>7, TaskFrame, LimitsAssumption DEF InsertedInv
  <2>2. \A i \in Jobs : status'[i] = "none" <=> status[i] = "none"
    BY <1>0, <1>7, <2>1, TaskWrites DEF RowsOK
  <2>3. \A i \in Jobs, r \in 0..MaxRetries :
          messages'[i][r] > 0 => messages[i][r] > 0 \/ i = j
    <3>1. UNCHANGED messages \/ \E q \in Nat : messages' = Post(messages, j, q)
      BY <1>7, <2>1, TaskWrites
    <3> QED BY <1>0, <2>1, <3>1 DEF Post, StoresOK
  <2>4. \A v \in Workers : pc'[v] # "idle" =>
          pc[v] # "idle" /\ task'[v] = task[v] /\ task[v].job \in Jobs
    BY <1>0, <1>7, <2>1, TaskFrame, FinishFrame, BusyTask
  <2> QED BY <2>1, <2>2, <2>3, <2>4 DEF InsertedInv
<1>8. CASE UNCHANGED vars
  BY <1>8 DEF vars, InsertedInv
<1> QED
  BY <1>1, <1>2, <1>3, <1>4, <1>5, <1>6, <1>7, <1>8
  DEF Next, Work, IdleBeat, AnyTaskStep, TaskStep

Deleting(w, j) == pc[w] = "completed" /\ task[w].job = j
Gone(j) == key[j] \in Keys /\ upload[key[j]] # "stored"

FreedFor(j) ==
  Gone(j) \/ (\E w \in Workers : Deleting(w, j)) =>
    /\ status[j] \in Settled
    /\ \A w \in Workers : ~Holds(w, j)

FreedJobIsOver == \A j \in Jobs \ taken : ~Shared(j) => FreedFor(j)

(* Rows that a step does not settle, free or take stay as they should.      *)
LEMMA FreedKept ==
  ASSUME NEW j \in Jobs, FreedFor(j),
         Gone(j)' => Gone(j) \/ \E w \in Workers : Deleting(w, j),
         \A w \in Workers : Deleting(w, j)' => Deleting(w, j),
         \A w \in Workers : Holds(w, j)' => Holds(w, j),
         status'[j] = status[j] \/ status'[j] \in Settled
  PROVE  FreedFor(j)'
BY DEF FreedFor

LEMMA FreedTask ==
  ASSUME TypeOK, NEW w \in Workers, AnyTaskStep(w),
         NEW j \in Jobs, j = task[w].job, HolderFor(j), FreedFor(j)
  PROVE  FreedFor(j)'
<1> USE DEF rowVars
<1>0. RowsOK /\ WorkersOK /\ UNCHANGED key
  BY TaskFrame DEF TypeOK
<1>1. \A v \in Workers : v # w =>
        /\ Holds(v, j)' => Holds(v, j)
        /\ Deleting(v, j)' => Deleting(v, j)
  BY TaskFrame DEF Holds, Deleting
<1>2. CASE Finish(w) /\ (UNCHANGED status \/ FailPermanently(w))
  <2>1. ~Holds(w, j)' /\ ~Deleting(w, j)'
    BY <1>0, <1>2, FinishFrame DEF Holds, Holding, Deleting
  <2>2. status'[j] = status[j] \/ status'[j] \in Settled
    BY <1>0, <1>2 DEF FailPermanently, MarkFailed, Settled, RowsOK
  <2>3. Gone(j)' => Gone(j) \/ Deleting(w, j)
    BY <1>0, TaskWrites DEF Gone, Deleting, DeleteUpload, At
  <2> QED BY <1>1, <2>1, <2>2, <2>3, FreedKept
<1>3. CASE Claim(w) \/ ClaimRaises(w)
  <2>1. /\ UNCHANGED upload
        /\ ~Deleting(w, j)'
        /\ ~Holds(w, j)' \/ ClaimRow(j)
    BY <1>0, <1>3 DEF Claim, ClaimRaises, Goto, Deleting, Holds, Holding, WorkersOK
  <2>2. CASE ClaimRow(j)
    <3>1. ~Gone(j) /\ \A v \in Workers : ~Deleting(v, j)
      BY <2>2 DEF ClaimRow, FreedFor, Settled
    <3> QED BY <1>0, <1>1, <2>1, <3>1 DEF FreedFor, Gone
  <2>3. CASE ~ClaimRow(j)
    <3>1. UNCHANGED status
      BY <1>3, <2>3 DEF Claim, ClaimRaises
    <3> QED BY <1>0, <1>1, <2>1, <2>3, <3>1, FreedKept DEF Gone
  <2> QED BY <2>2, <2>3
<1>4. CASE pc[w] \in Holding
  <2>1. Holds(w, j)
    BY <1>4 DEF Holds
  <2>2. ~Gone(j) /\ \A v \in Workers : ~Deleting(v, j)
    BY <2>1 DEF FreedFor
  <2>3. UNCHANGED upload
    BY <1>4, TaskWrites DEF DeleteUpload, At, Holding
  <2>4. ~Gone(j)'
    BY <1>0, <2>2, <2>3 DEF Gone
  <2>5. CASE pc'[w] = "completed"
    <3>1. status'[j] \in Settled
      BY <1>0, <2>5, TaskWrites DEF Complete, MarkCompleted, Settled, RowsOK
    <3>2. \A v \in Workers : ~Holds(v, j)'
      BY <1>1, <2>1, <2>5 DEF HolderFor, Holds, Holding
    <3> QED BY <3>1, <3>2 DEF FreedFor
  <2>6. CASE pc'[w] # "completed"
    BY <1>1, <2>2, <2>4, <2>6 DEF FreedFor, Deleting
  <2> QED BY <2>5, <2>6
<1> QED BY <1>2, <1>3, <1>4, TaskKinds

LEMMA FreedJobIsOverStep ==
  ASSUME TypeOK, ClaimsAreShown, HolderInv, InsertedInv, FreedJobIsOver,
         [HistoryNext]_allVars
  PROVE  FreedJobIsOver'
<1> SUFFICES ASSUME NEW j \in Jobs, j \notin taken', ~Shared(j)' PROVE FreedFor(j)'
  BY DEF FreedJobIsOver
<1>0. RowsOK /\ StoresOK /\ WorkersOK /\ HolderFor(j)
  BY RecordsGrow DEF TypeOK, HolderInv
<1>1. ASSUME NEW w \in Workers, AnyTaskStep(w) PROVE FreedFor(j)'
  <2>1. UNCHANGED key /\ ~Shared(j)
    BY <1>1, TaskFrame DEF Shared
  <2>2. FreedFor(j)
    BY <2>1, RecordsGrow DEF FreedJobIsOver
  <2>3. CASE j = task[w].job
    BY <1>0, <1>1, <2>2, <2>3, FreedTask
  <2>4. CASE j # task[w].job
    <3>1. SameFor(j) /\ task[w].job \in Jobs
      BY <1>1, <2>4, TaskFrame
    <3>2. Gone(j)' => Gone(j)
      <4>1. UNCHANGED upload \/ upload' = [upload EXCEPT ![key[task[w].job]] = "deleted"]
        BY <1>1, TaskWrites DEF DeleteUpload
      <4> QED BY <1>0, <2>1, <2>4, <3>1, <4>1 DEF Gone, Shared, StoresOK
    <3>3. \A v \in Workers : /\ Deleting(v, j)' => Deleting(v, j)
                             /\ Holds(v, j)' => Holds(v, j)
      BY <3>1 DEF SameFor, Deleting, Holds, Holding
    <3> QED BY <2>2, <3>1, <3>2, <3>3, FreedKept DEF SameFor
  <2> QED BY <2>3, <2>4
<1>2. ASSUME NEW k \in Keys, CreateJob(j, k) PROVE FreedFor(j)'
  <2>1. key'[j] = k /\ upload'[k] = "stored" /\ status[j] = "none"
    BY <1>0, <1>2 DEF CreateJob, RowsOK
  <2>2. \A w \in Workers : ~Deleting(w, j)'
    BY <1>2, <2>1 DEF CreateJob, workerVars, InsertedInv, Deleting
  <2> QED BY <2>1, <2>2 DEF FreedFor, Gone
<1>3. CASE /\ UNCHANGED <<status[j], key[j]>>
           /\ UNCHANGED upload \/ \E k \in Keys : Upload(k)
           /\ \A w \in Workers : pc'[w] \notin {"idle", "started"} \/ pc[w] # "idle" =>
                UNCHANGED <<pc[w], task[w]>>
  <2>1. Gone(j)' => Gone(j)
    BY <1>0, <1>3 DEF Gone, Upload, StoresOK
  <2>2. \A w \in Workers : /\ Deleting(w, j)' => Deleting(w, j)
                           /\ Holds(w, j)' => Holds(w, j)
    BY <1>3 DEF Deleting, Holds, Holding
  <2>3. CASE status[j] = "none"
    <3>1. ~Gone(j) /\ \A w \in Workers : ~Deleting(w, j)
      BY <2>3, KeysAssumption DEF InsertedInv, Gone, Deleting
    <3> QED BY <2>1, <2>2, <3>1 DEF FreedFor
  <2>4. CASE status[j] # "none"
    <3>1. \A i \in Jobs : key'[i] = key[i] \/ key[i] = NoKey
      <4>1. ASSUME NEW i \in Jobs, NEW k \in Keys, CreateJob(i, k)
            PROVE  \A m \in Jobs : key'[m] = key[m] \/ key[m] = NoKey
        BY <1>0, <4>1 DEF CreateJob, InsertedInv, RowsOK
      <4>2. (\E w \in Workers : AnyTaskStep(w)) => UNCHANGED key
        BY TaskFrame
      <4> QED BY <4>1, <4>2, HistorySteps
          DEF Upload, Poll, Tick, Deliver, HistoryRecover, RecoverStale,
              HistoryFault, AnyTaskStep, TaskStep, rowVars, allVars, vars
    <3>2. ~Shared(j)
      BY <1>3, <2>4, <3>1, KeysAssumption DEF Shared, InsertedInv
    <3>3. FreedFor(j)
      BY <3>2, RecordsGrow DEF FreedJobIsOver
    <3> QED BY <1>3, <2>1, <2>2, <3>3, FreedKept
  <2> QED BY <2>3, <2>4
<1>4. CASE /\ Stale(j) /\ status'[j] = "queued"
           /\ UNCHANGED <<key, upload>> /\ UNCHANGED workerVars
  <2>1. ~Shared(j)
    BY <1>4 DEF Shared
  <2>2. ~Gone(j) /\ \A w \in Workers : ~Deleting(w, j)
    BY <1>4, <2>1, RecordsGrow DEF FreedJobIsOver, FreedFor, Stale, Settled
  <2> QED BY <1>4, <2>2 DEF FreedFor, Gone, Deleting, workerVars
<1> QED BY <1>1, <1>2, <1>3, <1>4, OthersFrame

UploadInv == HolderInv /\ InsertedInv /\ FreedJobIsOver

LEMMA HoldersAndUploads == HistorySpec => [](TypeOK /\ HistoryOK /\ ClaimInv /\ UploadInv)
<1>1. HistoryInit => UploadInv
  BY KeysAssumption
  DEF HistoryInit, Init, UploadInv, HolderInv, HolderFor, Holds, Holding,
      InsertedInv, FreedJobIsOver, FreedFor, Deleting, Gone
<1>2. TypeOK /\ ClaimInv /\ UploadInv /\ [HistoryNext]_allVars => UploadInv'
  <2>1. [HistoryNext]_allVars => [Next]_vars
    BY DEF HistoryNext, HistoryWork, HistoryRecover, HistoryFault, Next, allVars
  <2> QED BY <2>1, HolderInvStep, InsertedInvStep, FreedJobIsOverStep
          DEF UploadInv, ClaimInv
<1> QED BY <1>1, <1>2, ClaimsAndAges, PTL DEF HistorySpec

(* A queued job finds its workbook in storage, whatever crashed or failed   *)
(* in between, unless its row was taken or its object serves another job.   *)
THEOREM QueuedJobsCanBeDownloaded == HistorySpec => []QueuedJobHasUpload
<1>1. UploadInv => QueuedJobHasUpload
  BY DEF UploadInv, InsertedInv, FreedJobIsOver, FreedFor, Gone, Settled,
         QueuedJobHasUpload
<1> QED BY <1>1, HoldersAndUploads, PTL
-----------------------------------------------------------------------------
(* Settled is final.  process_job marks a row failed at its last retry      *)
(* without looking at it, so the proof has to show whose row that is.  Two  *)
(* counters decide it: every retry of a message was preceded by a claim, so *)
(* attempts is above the retry count of every task that claimed, and a task *)
(* at its last retry that fails has used up MAX_ATTEMPTS.  Such a task still *)
(* owns its row, or has marked it failed already, if the job was spared.    *)
CleanStep(w) == Execute(w) \/ StorageFault(w) \/ Loss(w)

LEMMA CleanKinds ==
  ASSUME TypeOK, NEW w \in Workers, CleanStep(w)
  PROVE  \/ /\ Finish(w) /\ UNCHANGED <<attempts, runs, result>>
            /\ UNCHANGED status \/ FailPermanently(w)
         \/ Claim(w) \/ Analyse(w) \/ Release(w) \/ Complete(w)
         \/ /\ pc[w] \in Holding
            /\ pc'[w] \in {"downloaded", "failing", "raised"}
            /\ pc'[w] = "downloaded" => pc[w] = "claimed"
            /\ UNCHANGED <<status, attempts, runs, result>>
            /\ UNCHANGED <<task, claim, outcome, messages>>
<1> USE DEF rowVars
<1>0. WorkersOK
  BY DEF TypeOK
<1>1. CASE \/ Download(w) \/ DownloadFindsNothing(w) \/ DownloadRaises(w)
           \/ AnalyseRaises(w)
  BY <1>0, <1>1
  DEF Download, DownloadFindsNothing, DownloadRaises, AnalyseRaises, At, Goto,
      Holding, WorkersOK
<1>2. CASE \/ Skip(w) \/ DeleteUpload(w) \/ DeleteRaises(w) \/ Retry(w)
           \/ FailPermanently(w) \/ Crash(w) \/ KillAtTimeLimit(w)
  BY <1>2 DEF Skip, DeleteUpload, DeleteRaises, Retry, FailPermanently, MarkFailed,
              Crash, KillAtTimeLimit
<1> QED BY <1>1, <1>2 DEF CleanStep, Execute, StorageFault, Loss

(* What a step does to a job that was spared.                               *)
LEMMA SparedFrame ==
  ASSUME TypeOK, ClaimsAreShown, [HistoryNext]_allVars,
         NEW j \in Jobs, j \notin taken' \cup faulted'
  PROVE  \/ \E w \in Workers : CleanStep(w) /\ task[w].job = j
         \/ \E k \in Keys : CreateJob(j, k)
         \/ /\ UNCHANGED <<status[j], attempts[j], result[j], runs[j]>>
            /\ \A w \in Workers : pc'[w] \notin {"idle", "started"} /\ task'[w].job = j =>
                 UNCHANGED <<pc[w], task[w], claim[w], outcome[w]>>
         \/ /\ Stale(j) /\ status'[j] = "queued"
            /\ UNCHANGED <<attempts, result, runs>>
            /\ UNCHANGED workerVars
            /\ \A w \in Workers : ~Engaged(w, j)
<1>1. ASSUME NEW w \in Workers, AnyTaskStep(w), task[w].job # j
      PROVE  SameFor(j)
  BY <1>1, TaskFrame
<1>2. ASSUME NEW w \in Workers, HistoryFault(w) \/ Execute(w), task[w].job = j
      PROVE  CleanStep(w)
  BY <1>2 DEF HistoryFault, CleanStep
<1>3. ASSUME NEW w \in Workers, HistoryFault(w) \/ Execute(w)
      PROVE  AnyTaskStep(w)
  BY <1>3 DEF HistoryFault, AnyTaskStep, TaskStep
<1>4. CASE \E w \in Workers : HistoryFault(w) \/ Execute(w)
  BY <1>1, <1>2, <1>3, <1>4 DEF SameFor
<1>5. CASE HistoryRecover
  <2>1. UNCHANGED <<attempts, result, runs>> /\ UNCHANGED workerVars
    BY <1>5 DEF HistoryRecover, RecoverStale
  <2>2. Stale(j) => status'[j] = "queued" /\ \A w \in Workers : ~Engaged(w, j)
    BY <1>5 DEF HistoryRecover, RecoverStale
  <2>3. ~Stale(j) => status'[j] = status[j]
    BY <1>5 DEF HistoryRecover, RecoverStale
  <2> QED BY <2>1, <2>2, <2>3 DEF workerVars
<1>6. ASSUME NEW i \in Jobs, NEW k \in Keys, CreateJob(i, k), i # j
      PROVE  /\ UNCHANGED <<status[j], attempts, result, runs>>
             /\ UNCHANGED workerVars
  BY <1>6 DEF CreateJob, TypeOK, RowsOK
<1>7. ASSUME NEW w \in Workers, NEW i \in Jobs, NEW r \in 0..MaxRetries,
             Deliver(w, i, r)
      PROVE  /\ UNCHANGED rowVars /\ UNCHANGED runs
             /\ \A v \in Workers : pc'[v] \notin {"idle", "started"} =>
                  UNCHANGED <<pc[v], task[v], claim[v], outcome[v]>>
  BY <1>7 DEF Deliver, TypeOK, WorkersOK
<1>8. CASE Poll \/ Tick \/ (\E k \in Keys : Upload(k)) \/ UNCHANGED allVars
  BY <1>8 DEF Poll, Tick, Upload, rowVars, workerVars, allVars, vars
<1> QED
  BY <1>4, <1>5, <1>6, <1>7, <1>8, HistorySteps DEF rowVars, workerVars

RetriesFor(j) ==
  /\ \A r \in 0..MaxRetries : messages[j][r] > 0 => r <= attempts[j]
  /\ \A w \in Workers : pc[w] # "idle" /\ task[w].job = j =>
       /\ task[w].retries <= attempts[j]
       /\ pc[w] \in Holding \cup {"raised"} => task[w].retries < attempts[j]

RetriesInv == \A j \in Jobs \ faulted : RetriesFor(j)

LEMMA RetriesTask ==
  ASSUME TypeOK, NEW w \in Workers, CleanStep(w),
         NEW j \in Jobs, j = task[w].job, RetriesFor(j)
  PROVE  RetriesFor(j)'
<1> USE LimitsAssumption, BoundsAssumption
<1>0. /\ RowsOK /\ StoresOK /\ WorkersOK
      /\ pc[w] # "idle" /\ task[w].retries \in 0..MaxRetries
      /\ attempts[j] \in Nat /\ AnyTaskStep(w)
  BY TaskFrame DEF TypeOK, RowsOK, CleanStep, AnyTaskStep, TaskStep
<1>1. \A v \in Workers : v # w => UNCHANGED <<pc[v], task[v]>>
  BY <1>0, TaskFrame
<1>2. CASE Finish(w) /\ UNCHANGED attempts
  <2>1. pc'[w] = "idle"
    BY <1>0, <1>2, FinishFrame
  <2>2. \A r \in 0..MaxRetries : messages'[j][r] > 0 => r <= attempts[j]
    <3>1. CASE messages' = Post(messages, j, task[w].retries)
      BY <1>0, <3>1 DEF Post, StoresOK, RetriesFor
    <3>2. CASE messages' = Post(messages, j, task[w].retries + 1) /\ Retry(w)
      <4>1. task[w].retries + 1 <= attempts[j]
        BY <1>0, <3>2 DEF Retry, At, RetriesFor
      <4> QED BY <1>0, <3>2, <4>1 DEF Post, StoresOK, RetriesFor
    <3> QED BY <1>0, <3>1, <3>2, TaskWrites DEF RetriesFor
  <2> QED BY <1>1, <1>2, <2>1, <2>2 DEF RetriesFor
<1>3. CASE Claim(w)
  <2>1. /\ attempts'[j] \in Nat /\ attempts'[j] >= attempts[j]
        /\ task[w].retries < attempts'[j]
    <3>1. attempts'[j] = UpTo(MaxClaims, attempts[j] + 1)
      BY <1>0, <1>3 DEF Claim, ClaimRow, RowsOK
    <3>2. task[w].retries <= attempts[j] /\ attempts[j] <= MaxClaims
      BY <1>0 DEF RetriesFor, RowsOK
    <3> QED BY <1>0, <3>1, <3>2 DEF UpTo
  <2>2. UNCHANGED <<messages, task>>
    BY <1>3 DEF Claim, Goto
  <2>3. \A v \in Workers : pc[v] # "idle" => task[v].retries \in Nat
    BY <1>0, BusyTask
  <2> QED BY <1>0, <1>1, <2>1, <2>2, <2>3 DEF RetriesFor
<1>4. CASE \/ Analyse(w) \/ Release(w) \/ Complete(w)
           \/ pc[w] \in Holding /\ UNCHANGED <<attempts, task, messages>>
  <2>1. pc[w] \in Holding /\ UNCHANGED <<attempts, task, messages>>
    <3>1. CASE Analyse(w)
      BY <3>1 DEF Analyse, At, Goto, Holding, rowVars
    <3>2. CASE Release(w)
      BY <3>2 DEF Release, At, Goto, Holding
    <3>3. CASE Complete(w)
      BY <3>3 DEF Complete, MarkCompleted, At, Goto, Holding
    <3> QED BY <1>4, <3>1, <3>2, <3>3
  <2>2. RetriesFor(j)'
    BY <1>0, <1>1, <2>1 DEF RetriesFor
  <2> QED BY <2>2
<1> QED BY <1>2, <1>3, <1>4, CleanKinds

LEMMA RetriesInvStep ==
  ASSUME TypeOK, RetriesInv, [HistoryNext]_allVars
  PROVE  RetriesInv'
<1> SUFFICES ASSUME NEW j \in Jobs, j \notin faulted' PROVE RetriesFor(j)'
  BY DEF RetriesInv
<1>0. RowsOK /\ StoresOK /\ WorkersOK /\ RetriesFor(j) /\ attempts[j] \in Nat
  BY RecordsGrow DEF TypeOK, RowsOK, RetriesInv
<1>1. CASE UNCHANGED <<attempts, messages, pc, task>>
  BY <1>0, <1>1 DEF RetriesFor
<1>2. CASE Poll
  <2>1. \A r \in 0..MaxRetries : messages'[j][r] > 0 => messages[j][r] > 0 \/ r = 0
    BY <1>0, <1>2 DEF Poll, StoresOK
  <2>2. UNCHANGED <<attempts, pc, task>>
    BY <1>2 DEF Poll, rowVars, workerVars
  <2> QED BY <1>0, <2>1, <2>2 DEF RetriesFor
<1>3. ASSUME NEW w \in Workers, NEW i \in Jobs, NEW r \in 0..MaxRetries,
             Deliver(w, i, r)
      PROVE  RetriesFor(j)'
  <2>1. \A q \in 0..MaxRetries : messages'[j][q] > 0 => messages[j][q] > 0
    BY <1>0, <1>3 DEF Deliver, StoresOK
  <2>2. /\ pc'[w] = "started" /\ task'[w] = [job |-> i, retries |-> r]
        /\ \A v \in Workers : v # w => pc'[v] = pc[v] /\ task'[v] = task[v]
        /\ attempts' = attempts /\ messages[i][r] > 0
    BY <1>0, <1>3 DEF Deliver, WorkersOK, rowVars
  <2> QED BY <1>0, <2>1, <2>2 DEF RetriesFor, Holding
<1>4. ASSUME NEW w \in Workers, AnyTaskStep(w), task[w].job # j
      PROVE  RetriesFor(j)'
  <2>1. SameFor(j)
    BY <1>4, TaskFrame
  <2>2. messages'[j] = messages[j]
    BY <1>0, <1>4, TaskWrites DEF Post, StoresOK
  <2> QED BY <1>0, <2>1, <2>2 DEF RetriesFor, SameFor
<1>5. ASSUME NEW w \in Workers, Execute(w) \/ HistoryFault(w) PROVE RetriesFor(j)'
  <2>1. AnyTaskStep(w)
    BY <1>5 DEF HistoryFault, AnyTaskStep, TaskStep
  <2>2. CASE task[w].job = j
    <3>1. CleanStep(w)
      BY <1>5, <2>2 DEF HistoryFault, CleanStep
    <3> QED BY <1>0, <2>2, <3>1, RetriesTask
  <2> QED BY <1>4, <2>1, <2>2
<1> QED
  BY <1>1, <1>2, <1>3, <1>5, HistorySteps
  DEF Upload, CreateJob, Tick, HistoryRecover, RecoverStale, workerVars, rowVars,
      allVars, vars

(* The tasks that can still change the row of j.                            *)
Owns(w, j) ==
  /\ task[w].job = j
  /\ \/ pc[w] \in Holding
     \/ pc[w] = "raised" /\ task[w].retries = MaxRetries /\ status[j] # "failed"

OwnerFor(j) ==
  /\ \A w \in Workers : Owns(w, j) => status[j] = "processing"
  /\ \A w \in Workers : Holds(w, j) => claim[w] = attempts[j]
  /\ \A v, w \in Workers : Owns(v, j) /\ Owns(w, j) => v = w

OwnerInv == \A j \in Jobs \ (taken \cup faulted) : OwnerFor(j)

(* Steps that make no new owner or holder and leave the row of an owner.    *)
LEMMA OwnerKept ==
  ASSUME NEW j \in Jobs, OwnerFor(j),
         \A w \in Workers : Owns(w, j)' => Owns(w, j) /\ status'[j] = status[j],
         \A w \in Workers : Holds(w, j)' =>
           Holds(w, j) /\ claim'[w] = claim[w] /\ attempts'[j] = attempts[j]
  PROVE  OwnerFor(j)'
BY DEF OwnerFor

LEMMA OwnerTask ==
  ASSUME TypeOK, NEW w \in Workers, CleanStep(w),
         NEW j \in Jobs, j = task[w].job, RetriesFor(j), OwnerFor(j)
  PROVE  /\ OwnerFor(j)'
         /\ status[j] \in Settled => status'[j] = status[j]
<1> USE LimitsAssumption, BoundsAssumption
<1> DEFINE Final == status[j] \in Settled => status'[j] = status[j]
<1>0. /\ RowsOK /\ WorkersOK
      /\ pc[w] # "idle" /\ task[w].retries \in 0..MaxRetries
      /\ attempts[j] \in Nat /\ AnyTaskStep(w)
  BY TaskFrame DEF TypeOK, RowsOK, CleanStep, AnyTaskStep, TaskStep
<1>1. \A v \in Workers : v # w => UNCHANGED <<pc[v], task[v], claim[v]>>
  BY <1>0, TaskFrame
<1>2. \A v \in Workers : v # w /\ Holds(v, j)' => Holds(v, j)
  BY <1>1 DEF Holds
<1>3. CASE Finish(w) /\ UNCHANGED <<attempts, status>>
  <2>1. ~Owns(w, j)' /\ ~Holds(w, j)'
    BY <1>0, <1>3, FinishFrame DEF Owns, Holds, Holding
  <2>2. \A v \in Workers : v # w /\ Owns(v, j)' => Owns(v, j)
    BY <1>1, <1>3 DEF Owns
  <2> QED BY <1>1, <1>2, <1>3, <2>1, <2>2, OwnerKept
<1>4. CASE FailPermanently(w)
  <2>1. /\ status'[j] = "failed" /\ UNCHANGED attempts
        /\ status[j] = "failed" \/ Owns(w, j)
        /\ ~Owns(w, j)' /\ ~Holds(w, j)'
    BY <1>0, <1>4, FinishFrame
    DEF FailPermanently, MarkFailed, At, Owns, Holds, Holding, RowsOK
  <2>2. \A v \in Workers : ~Owns(v, j)'
    <3> SUFFICES ASSUME NEW v \in Workers, v # w, Owns(v, j)' PROVE FALSE
      BY <2>1
    <3>1. Owns(v, j)
      BY <1>1, <2>1 DEF Owns
    <3> QED BY <2>1, <3>1 DEF OwnerFor
  <2>3. OwnerFor(j)'
    BY <1>1, <1>2, <2>1, <2>2, OwnerKept
  <2> QED BY <2>1, <2>3 DEF OwnerFor, Settled
<1>5. CASE Claim(w)
  <2>1. /\ status[j] = "queued" /\ status'[j] = "processing"
        /\ claim'[w] = attempts'[j] /\ pc'[w] = "claimed" /\ UNCHANGED task
    BY <1>0, <1>5 DEF Claim, ClaimRow, Goto, RowsOK, WorkersOK
  <2>2. \A v \in Workers : ~Owns(v, j)
    BY <2>1 DEF OwnerFor
  <2>3. \A v \in Workers : v # w => ~Owns(v, j)' /\ ~Holds(v, j)'
    BY <1>1, <2>1, <2>2 DEF Owns, Holds
  <2>4. OwnerFor(j)'
    BY <2>1, <2>3 DEF OwnerFor
  <2> QED BY <2>1, <2>4 DEF Settled
<1>6. CASE Release(w) \/ Complete(w)
  <2>1. /\ pc[w] \in Holding /\ Owns(w, j) /\ Holds(w, j)
        /\ UNCHANGED <<attempts, claim, task>>
    <3>1. pc[w] \in Holding /\ UNCHANGED <<attempts, claim, task>>
      BY <1>6 DEF Release, Complete, MarkCompleted, At, Goto, Holding
    <3> QED BY <3>1 DEF Owns, Holds
  <2>2. status[j] = "processing" /\ claim[w] = attempts[j]
    BY <2>1 DEF OwnerFor
  <2>3. ~Holds(w, j)' /\ ~Owns(w, j)'
    <3>1. CASE Complete(w)
      BY <1>0, <3>1 DEF Complete, Goto, Holds, Owns, Holding, WorkersOK
    <3>2. CASE Release(w)
      <4>1. pc'[w] = "raised"
        BY <1>0, <3>2 DEF Release, Goto, WorkersOK
      <4>2. task[w].retries < attempts[j]
        BY <1>0, <2>1 DEF RetriesFor
      <4>3. task[w].retries = MaxRetries => claim[w] >= MAX_ATTEMPTS
        BY <1>0, <2>2, <4>2, RetriesAssumption
      <4>4. claim[w] >= MAX_ATTEMPTS => status'[j] = "failed"
        BY <1>0, <3>2 DEF Release, MarkFailed, RowsOK
      <4> QED BY <2>1, <4>1, <4>3, <4>4 DEF Holds, Owns, Holding
    <3> QED BY <1>6, <3>1, <3>2
  <2>4. \A v \in Workers : ~Owns(v, j)'
    <3> SUFFICES ASSUME NEW v \in Workers, v # w, Owns(v, j)' PROVE FALSE
      BY <2>3
    <3>1. Owns(v, j)
      BY <1>1, <2>2 DEF Owns
    <3> QED BY <2>1, <3>1 DEF OwnerFor
  <2>5. OwnerFor(j)'
    BY <1>1, <1>2, <2>1, <2>3, <2>4, OwnerKept
  <2> QED BY <2>2, <2>5 DEF Settled
<1>7. CASE /\ Analyse(w) \/ pc[w] \in Holding
           /\ UNCHANGED <<status, attempts, task, claim>>
  <2>1. Owns(w, j) /\ Holds(w, j)
    BY <1>7 DEF Analyse, At, Owns, Holds, Holding
  <2>2. \A v \in Workers : v # w /\ Owns(v, j)' => Owns(v, j)
    BY <1>1, <1>7 DEF Owns
  <2> QED BY <1>1, <1>2, <1>7, <2>1, <2>2, OwnerKept
<1>8. Analyse(w) => UNCHANGED <<status, attempts, task, claim>>
  BY DEF Analyse, Goto, rowVars
<1> QED BY <1>3, <1>4, <1>5, <1>6, <1>7, <1>8, CleanKinds

LEMMA OwnerInvStep ==
  ASSUME TypeOK, ClaimsAreShown, RetriesInv, OwnerInv, [HistoryNext]_allVars,
         NEW j \in Jobs, j \notin taken' \cup faulted'
  PROVE  /\ OwnerFor(j)'
         /\ status[j] \in Settled => status'[j] = status[j]
<1>0. /\ RowsOK /\ WorkersOK /\ RetriesFor(j) /\ OwnerFor(j)
      /\ j \notin faulted
  BY RecordsGrow DEF TypeOK, RetriesInv, OwnerInv
<1>1. ASSUME NEW w \in Workers, CleanStep(w), task[w].job = j
      PROVE  /\ OwnerFor(j)'
             /\ status[j] \in Settled => status'[j] = status[j]
  BY <1>0, <1>1, OwnerTask
<1>2. ASSUME NEW k \in Keys, CreateJob(j, k)
      PROVE  OwnerFor(j)' /\ status[j] \notin Settled
  <2>1. status[j] = "none" /\ status'[j] = "queued" /\ UNCHANGED workerVars
    BY <1>0, <1>2 DEF CreateJob, RowsOK
  <2>2. \A w \in Workers : ~Owns(w, j)
    BY <1>0, <2>1 DEF OwnerFor
  <2>3. \A w \in Workers : ~Owns(w, j)' /\ ~Holds(w, j)'
    BY <2>1, <2>2 DEF Owns, Holds, workerVars
  <2> QED BY <2>1, <2>3 DEF OwnerFor, Settled
<1>3. CASE /\ UNCHANGED <<status[j], attempts[j]>>
           /\ \A w \in Workers : pc'[w] \notin {"idle", "started"} /\ task'[w].job = j =>
                UNCHANGED <<pc[w], task[w], claim[w]>>
  <2>1. \A w \in Workers : /\ Owns(w, j)' => Owns(w, j)
                           /\ Holds(w, j)' => Holds(w, j) /\ claim'[w] = claim[w]
    BY <1>3 DEF Owns, Holds, Holding
  <2> QED BY <1>0, <1>3, <2>1, OwnerKept
<1>4. CASE /\ Stale(j) /\ status'[j] = "queued" /\ UNCHANGED workerVars
           /\ \A w \in Workers : ~Engaged(w, j)
  <2>1. \A w \in Workers : ~Owns(w, j)
    BY <1>0, <1>4 DEF Owns, Engaged, ClaimsAreShown
  <2>2. \A w \in Workers : ~Owns(w, j)' /\ ~Holds(w, j)'
    BY <1>4, <2>1 DEF Owns, Holds, Stale, workerVars
  <2> QED BY <1>4, <2>2 DEF OwnerFor, Stale, Settled
<1> QED BY <1>1, <1>2, <1>3, <1>4, SparedFrame

OwnInv == RetriesInv /\ OwnerInv

LEMMA OwnersAndRetries == HistorySpec => [](TypeOK /\ HistoryOK /\ ClaimInv /\ OwnInv)
<1>1. HistoryInit => OwnInv
  BY DEF HistoryInit, Init, OwnInv, RetriesInv, RetriesFor, OwnerInv, OwnerFor,
         Owns, Holds, Holding
<1>2. TypeOK /\ ClaimInv /\ OwnInv /\ [HistoryNext]_allVars => OwnInv'
  BY RetriesInvStep, OwnerInvStep DEF OwnInv, OwnerInv, ClaimInv
<1> QED BY <1>1, <1>2, ClaimsAndAges, PTL DEF HistorySpec

(* "A job that is already completed is a no-op", and a failed one too, for  *)
(* every job whose row was not taken and none of whose transactions raised. *)
THEOREM SettledJobsAreFinal == HistorySpec => SettledStaysSettled
<1> DEFINE Final == \A j \in Jobs \ (taken' \cup faulted') :
                      status[j] \in Settled => status'[j] = status[j]
<1>1. TypeOK /\ ClaimInv /\ OwnInv /\ [HistoryNext]_allVars => [Final]_allVars
  BY OwnerInvStep DEF OwnInv, ClaimInv
<1> QED BY <1>1, OwnersAndRetries, PTL DEF HistorySpec, SettledStaysSettled
-----------------------------------------------------------------------------
(* The contract.  Beside who owns a row this needs the runs: one at most    *)
(* for every attempt, and the last one in the hands of the task that is     *)
(* about to record it.                                                      *)
Void == taken \cup faulted \cup Beyond

RunsFor(j) ==
  /\ runs[j] <= attempts[j]
  /\ \A w \in Workers : Holds(w, j) =>
       /\ pc[w] \in {"claimed", "downloaded"} => runs[j] < attempts[j]
       /\ pc[w] = "analysed" => runs[j] = outcome[w] /\ runs[j] > 0

RunsInv == \A j \in Jobs \ Void : RunsFor(j)

(* The one step that commits a run.                                         *)
LEMMA RunsWritten ==
  ASSUME NEW w, AnyTaskStep(w)
  PROVE  UNCHANGED runs \/ Analyse(w)
<1>1. CASE Claim(w) \/ ClaimRaises(w) \/ Download(w) \/ DownloadFindsNothing(w) \/ DownloadRaises(w)
  BY <1>1 DEF Claim, ClaimRaises, Download, DownloadFindsNothing, DownloadRaises
<1>2. CASE \/ AnalyseRaises(w) \/ Release(w) \/ ReleaseRaises(w) \/ Complete(w)
           \/ CompleteRaises(w)
  BY <1>2 DEF AnalyseRaises, Release, ReleaseRaises, Complete, CompleteRaises
<1>3. CASE \/ Skip(w) \/ DeleteUpload(w) \/ DeleteRaises(w) \/ Retry(w)
           \/ FailPermanently(w) \/ FailPermanentlyRaises(w)
           \/ Crash(w) \/ KillAtTimeLimit(w)
  BY <1>3 DEF Skip, DeleteUpload, DeleteRaises, Retry, FailPermanently,
              FailPermanentlyRaises, Crash, KillAtTimeLimit
<1> QED
  BY <1>1, <1>2, <1>3
  DEF AnyTaskStep, TaskStep, Loss, Execute, DatabaseFault, StorageFault

(* The counters never go back, so a job stays beyond the bounds.            *)
LEMMA VoidGrows ==
  ASSUME TypeOK, HistoryOK, [HistoryNext]_allVars
  PROVE  Void \subseteq Void'
<1>0. RowsOK /\ StoresOK /\ taken \subseteq taken' /\ faulted \subseteq faulted'
  BY RecordsGrow DEF TypeOK
<1>1. CASE UNCHANGED <<attempts, runs>>
  BY <1>0, <1>1 DEF Void, Beyond
<1>2. ASSUME NEW w \in Workers, AnyTaskStep(w) PROVE Void \subseteq Void'
  <2>1. task[w].job \in Jobs
    BY <1>2, TaskFrame
  <2>2. UNCHANGED attempts \/ ClaimRow(task[w].job)
    BY <1>2, TaskKinds DEF Claim, ClaimRaises, rowVars
  <2>3. \A j \in Jobs : attempts[j] = MaxClaims => attempts'[j] = MaxClaims
    BY <1>0, <2>1, <2>2, BoundsAssumption DEF ClaimRow, UpTo, RowsOK
  <2>4. UNCHANGED runs \/ Analyse(w)
    BY <1>2, RunsWritten
  <2>5. \A j \in Jobs : runs[j] = MaxRuns => runs'[j] = MaxRuns
    BY <1>0, <2>1, <2>4, BoundsAssumption DEF Analyse, UpTo, StoresOK
  <2> QED BY <1>0, <2>3, <2>5 DEF Void, Beyond
<1> QED
  BY <1>1, <1>2, HistorySteps
  DEF Upload, CreateJob, Poll, Tick, Deliver, HistoryRecover, RecoverStale,
      HistoryFault, AnyTaskStep, TaskStep, rowVars, allVars, vars

LEMMA RunsKept ==
  ASSUME NEW j \in Jobs, RunsFor(j), UNCHANGED <<attempts[j], runs[j]>>,
         \A w \in Workers : Holds(w, j)' =>
           /\ Holds(w, j)
           /\ pc'[w] \in {"claimed", "downloaded"} => pc[w] \in {"claimed", "downloaded"}
           /\ pc'[w] = "analysed" => pc[w] = "analysed" /\ outcome'[w] = outcome[w]
  PROVE  RunsFor(j)'
BY DEF RunsFor

LEMMA ContractTask ==
  ASSUME TypeOK, NEW w \in Workers, CleanStep(w),
         NEW j \in Jobs, j = task[w].job, RetriesFor(j), OwnerFor(j), RunsFor(j),
         attempts[j] # MaxClaims, runs'[j] # MaxRuns
  PROVE  RunsFor(j)' /\ Contract!Step(j)
<1> USE LimitsAssumption, BoundsAssumption
<1>0. /\ RowsOK /\ StoresOK /\ WorkersOK
      /\ pc[w] # "idle" /\ task[w].retries \in 0..MaxRetries
      /\ attempts[j] \in Nat /\ attempts[j] < MaxClaims /\ runs[j] \in Nat
      /\ AnyTaskStep(w)
  <2>1. RowsOK /\ StoresOK /\ WorkersOK /\ AnyTaskStep(w)
    BY DEF TypeOK, CleanStep, AnyTaskStep, TaskStep
  <2>2. attempts[j] \in 0..MaxClaims /\ runs[j] \in Nat
    BY <2>1 DEF RowsOK, StoresOK
  <2> QED BY <2>1, <2>2, TaskFrame
<1>1. \A v \in Workers : v # w => UNCHANGED <<pc[v], task[v], outcome[v]>>
  BY <1>0, TaskFrame
<1>2. \A v \in Workers : v # w /\ Holds(v, j)' => Holds(v, j)
  BY <1>1 DEF Holds
<1>3. CASE Finish(w) /\ UNCHANGED <<attempts, runs, result>>
           /\ (UNCHANGED status \/ FailPermanently(w))
  <2>1. ~Holds(w, j)'
    BY <1>0, <1>3, FinishFrame DEF Holds, Holding
  <2>2. RunsFor(j)'
    BY <1>1, <1>2, <1>3, <2>1, RunsKept
  <2>3. CASE UNCHANGED status
    BY <1>3, <2>2, <2>3 DEF Contract!Step, Contract!Rest
  <2>4. CASE FailPermanently(w)
    <3>1. status'[j] = "failed"
      BY <1>0, <2>4 DEF FailPermanently, MarkFailed, RowsOK
    <3>2. CASE status[j] = "failed"
      BY <1>3, <2>2, <3>1, <3>2 DEF Contract!Step, Contract!Rest
    <3>3. CASE status[j] # "failed"
      <4>1. Owns(w, j) /\ pc[w] = "raised"
        BY <1>0, <2>4, <3>3 DEF FailPermanently, At, Owns
      <4>2. status[j] = "processing" /\ task[w].retries < attempts[j]
        BY <1>0, <4>1 DEF OwnerFor, RetriesFor
      <4>3. attempts[j] >= MAX_ATTEMPTS
        BY <1>0, <2>4, <4>2, RetriesAssumption DEF FailPermanently
      <4> QED BY <1>3, <2>2, <3>1, <4>2, <4>3
              DEF Contract!Step, Contract!GiveUp, Contract!Becomes
    <3> QED BY <3>2, <3>3
  <2> QED BY <1>3, <2>3, <2>4
<1>4. CASE Claim(w)
  <2>1. /\ status[j] = "queued" /\ status'[j] = "processing"
        /\ attempts'[j] = attempts[j] + 1
        /\ UNCHANGED <<runs, result, outcome, task>>
        /\ pc'[w] = "claimed"
    BY <1>0, <1>4 DEF Claim, ClaimRow, Goto, UpTo, RowsOK, WorkersOK
  <2>2. \A v \in Workers : v # w => ~Holds(v, j)'
    BY <1>2, <2>1 DEF OwnerFor, Owns, Holds
  <2>3. RunsFor(j)'
    BY <1>0, <2>1, <2>2 DEF RunsFor
  <2> QED BY <2>1, <2>3 DEF Contract!Step, Contract!Attempt, Contract!Becomes
<1>5. CASE Analyse(w)
  <2>1. /\ Holds(w, j) /\ pc[w] = "downloaded"
        /\ runs'[j] = UpTo(MaxRuns, runs[j] + 1) /\ outcome'[w] = runs'[j]
        /\ UNCHANGED <<status, attempts, result, task>>
        /\ pc'[w] = "analysed"
    BY <1>0, <1>5 DEF Analyse, At, Goto, Holds, Holding, StoresOK, WorkersOK, rowVars
  <2>2. runs'[j] = runs[j] + 1
    BY <1>0, <2>1 DEF UpTo
  <2>3. runs[j] < attempts[j] /\ status[j] = "processing"
    BY <2>1 DEF RunsFor, OwnerFor, Owns, Holds
  <2>4. \A v \in Workers : v # w => ~Holds(v, j)'
    BY <1>2, <2>1 DEF OwnerFor, Owns, Holds
  <2>5. RunsFor(j)'
    BY <1>0, <2>1, <2>2, <2>3, <2>4 DEF RunsFor
  <2> QED BY <2>1, <2>2, <2>3, <2>5 DEF Contract!Step, Contract!CommitRun
<1>6. CASE Release(w)
  <2>1. /\ Owns(w, j) /\ pc'[w] = "raised"
        /\ UNCHANGED <<attempts, result, runs>>
        /\ (claim[w] >= MAX_ATTEMPTS /\ status'[j] = "failed") \/ status'[j] = "queued"
        /\ Holds(w, j)
    BY <1>0, <1>6
    DEF Release, MarkFailed, Requeue, At, Goto, Owns, Holds, Holding, RowsOK, WorkersOK
  <2>2. status[j] = "processing" /\ claim[w] = attempts[j]
    BY <2>1 DEF OwnerFor
  <2>3. RunsFor(j)'
    BY <1>1, <1>2, <2>1, RunsKept DEF Holds, Holding
  <2> QED
    BY <2>1, <2>2, <2>3
    DEF Contract!Step, Contract!GiveUp, Contract!TryAgain, Contract!Becomes
<1>7. CASE Complete(w)
  <2>1. /\ Owns(w, j) /\ Holds(w, j) /\ pc[w] = "analysed" /\ pc'[w] = "completed"
        /\ UNCHANGED <<attempts, runs>>
        /\ status'[j] = "completed" /\ result'[j] = outcome[w]
    BY <1>0, <1>7
    DEF Complete, MarkCompleted, At, Goto, Owns, Holds, Holding, RowsOK, WorkersOK
  <2>2. status[j] = "processing" /\ runs[j] = outcome[w] /\ runs[j] > 0
    BY <2>1 DEF OwnerFor, RunsFor
  <2>3. RunsFor(j)'
    BY <1>1, <1>2, <2>1, RunsKept DEF Holds, Holding
  <2> QED
    BY <2>1, <2>2, <2>3
    DEF Contract!Step, Contract!Succeed, Contract!Becomes
<1>8. CASE /\ pc[w] \in Holding
           /\ pc'[w] \in {"downloaded", "failing", "raised"}
           /\ pc'[w] = "downloaded" => pc[w] = "claimed"
           /\ UNCHANGED <<status, attempts, runs, result>>
           /\ UNCHANGED <<task, outcome>>
  <2>1. Holds(w, j)
    BY <1>8 DEF Holds
  <2>2. RunsFor(j)'
    BY <1>1, <1>2, <1>8, <2>1, RunsKept DEF Holds, Holding
  <2> QED BY <1>8, <2>2 DEF Contract!Step, Contract!Rest
<1> QED BY <1>3, <1>4, <1>5, <1>6, <1>7, <1>8, CleanKinds

LEMMA ContractJob ==
  ASSUME TypeOK, HistoryOK, ClaimsAreShown, OwnInv, RunsInv, [HistoryNext]_allVars,
         NEW j \in Jobs, j \notin Void'
  PROVE  RunsFor(j)' /\ Contract!Step(j)
<1>0. /\ RowsOK /\ StoresOK /\ WorkersOK /\ RetriesFor(j) /\ OwnerFor(j) /\ RunsFor(j)
      /\ j \notin taken' \cup faulted'
      /\ attempts[j] # MaxClaims /\ runs'[j] # MaxRuns
  <2>1. j \notin Void /\ j \notin taken \cup faulted
    BY VoidGrows, RecordsGrow DEF Void
  <2> QED BY <2>1 DEF TypeOK, OwnInv, RetriesInv, OwnerInv, RunsInv, Void, Beyond
<1>1. ASSUME NEW w \in Workers, CleanStep(w), task[w].job = j
      PROVE  RunsFor(j)' /\ Contract!Step(j)
  BY <1>0, <1>1, ContractTask
<1>2. ASSUME NEW k \in Keys, CreateJob(j, k) PROVE RunsFor(j)' /\ Contract!Step(j)
  <2>1. /\ status[j] = "none" /\ status'[j] = "queued" /\ UNCHANGED workerVars
        /\ UNCHANGED <<attempts, runs, result>>
    BY <1>0, <1>2 DEF CreateJob, RowsOK
  <2>2. RunsFor(j)'
    BY <1>0, <2>1, RunsKept DEF Holds, workerVars
  <2> QED BY <2>1, <2>2 DEF Contract!Step, Contract!Submit, Contract!Becomes
<1>3. CASE /\ UNCHANGED <<status[j], attempts[j], result[j], runs[j]>>
           /\ \A w \in Workers : pc'[w] \notin {"idle", "started"} /\ task'[w].job = j =>
                UNCHANGED <<pc[w], task[w], outcome[w]>>
  <2>1. RunsFor(j)'
    BY <1>0, <1>3, RunsKept DEF Holds, Holding
  <2> QED BY <1>3, <2>1 DEF Contract!Step, Contract!Rest
<1>4. CASE /\ Stale(j) /\ status'[j] = "queued" /\ UNCHANGED <<attempts, result, runs>>
           /\ UNCHANGED workerVars
  <2>1. RunsFor(j)'
    BY <1>0, <1>4, RunsKept DEF Holds, workerVars
  <2> QED BY <1>4, <2>1 DEF Contract!Step, Contract!TryAgain, Contract!Becomes, Stale
<1> QED BY <1>0, <1>1, <1>2, <1>3, <1>4, SparedFrame

(* The queue keeps JobContract: for a job that is spared a taken row and a  *)
(* failing transaction the jobs are worked on in attempts one at a time,    *)
(* every attempt commits one run at most, a completed job names the run of  *)
(* its last attempt, it is given up only after MAX_ATTEMPTS, and what is    *)
(* settled stays; whatever crashes, time limits and other jobs do.          *)
THEOREM JobsKeepTheirContract == HistorySpec => JobsContract
<1>1. HistoryInit => Contract!Init /\ RunsInv
  BY BoundsAssumption
  DEF HistoryInit, Init, Contract!Init, RunsInv, RunsFor, Holds, Holding, Beyond
<1>2. TypeOK /\ HistoryOK /\ ClaimInv /\ OwnInv /\ RunsInv /\ [HistoryNext]_allVars
        => RunsInv' /\ Contract!Next
  <2> SUFFICES ASSUME TypeOK, HistoryOK, ClaimInv, OwnInv, RunsInv, [HistoryNext]_allVars
               PROVE  RunsInv' /\ Contract!Next
    OBVIOUS
  <2>1. \A j \in Jobs \ Void' : RunsFor(j)' /\ Contract!Step(j)
    BY ContractJob DEF ClaimInv
  <2> QED BY <2>1, VoidGrows DEF RunsInv, Contract!Next, Void
<1> QED BY <1>1, <1>2, OwnersAndRetries, PTL DEF HistorySpec, JobsContract, Contract!Spec
-----------------------------------------------------------------------------
(* Attempts.  A row is queued when it is inserted, when recover_stale finds *)
(* it, and when a task releases it before MAX_ATTEMPTS.  Claims of a job    *)
(* are numbered, so the releases still to come are the numbers below        *)
(* MAX_ATTEMPTS that are not claimed yet or are held.                       *)
ClaimsFor(j) ==
  /\ \A w \in Workers : Holds(w, j) => claim[w] <= attempts[j]
  /\ \A v, w \in Workers : Holds(v, j) /\ Holds(w, j) /\ claim[v] = claim[w]
       => v = w \/ claim[v] = MaxClaims

Releases(j) == {c \in 1..(MAX_ATTEMPTS - 1) :
                  c > attempts[j] \/ \E w \in Workers : Holds(w, j) /\ claim[w] = c}

Waiting(j) == IF status[j] \in {"none", "queued"} THEN 1 ELSE 0

BudgetFor(j) ==
  \/ recoveries[j] = MaxClaims
  \/ attempts[j] + Waiting(j) + Cardinality(Releases(j)) <= MAX_ATTEMPTS + recoveries[j]

AttemptsInv == \A j \in Jobs : ClaimsFor(j) /\ BudgetFor(j)

LEMMA ReleasesAreFinite ==
  ASSUME NEW j
  PROVE  /\ IsFiniteSet(Releases(j)) /\ Cardinality(Releases(j)) \in Nat
         /\ Cardinality(Releases(j)) <= MAX_ATTEMPTS - 1
<1>1. /\ IsFiniteSet(1..(MAX_ATTEMPTS - 1))
      /\ Cardinality(1..(MAX_ATTEMPTS - 1)) = MAX_ATTEMPTS - 1
  BY FS_Interval, LimitsAssumption
<1>2. Releases(j) \subseteq 1..(MAX_ATTEMPTS - 1)
  BY DEF Releases
<1> QED BY <1>1, <1>2, FS_Subset, FS_CardinalityType

(* Fewer releases to come.                                                  *)
LEMMA FewerReleases ==
  ASSUME NEW S, IsFiniteSet(S), NEW T, T \subseteq S
  PROVE  /\ Cardinality(T) \in Nat /\ Cardinality(T) <= Cardinality(S)
         /\ \A c \in S \ T : Cardinality(T) + 1 <= Cardinality(S)
<1>1. IsFiniteSet(T) /\ Cardinality(T) \in Nat /\ Cardinality(T) <= Cardinality(S)
  BY FS_Subset, FS_CardinalityType
<1>2. ASSUME NEW c \in S \ T PROVE Cardinality(T) + 1 <= Cardinality(S)
  <2>1. Cardinality(S \ {c}) = Cardinality(S) - 1 /\ IsFiniteSet(S \ {c})
    BY FS_RemoveElement
  <2>2. Cardinality(T) <= Cardinality(S \ {c})
    <3>1. T \subseteq S \ {c}
      OBVIOUS
    <3> QED BY <2>1, <3>1, FS_Subset
  <2>3. Cardinality(S) \in Nat
    BY FS_CardinalityType
  <2> QED BY <1>1, <2>1, <2>2, <2>3
<1> QED BY <1>1, <1>2

(* Steps that queue nothing and claim nothing.                              *)
LEMMA AttemptsKept ==
  ASSUME TypeOK, HistoryOK, NEW j \in Jobs, ClaimsFor(j), BudgetFor(j),
         UNCHANGED <<attempts[j], recoveries[j]>>,
         status'[j] = status[j] \/ status'[j] \notin {"none", "queued"},
         \A w \in Workers : Holds(w, j)' => Holds(w, j) /\ claim'[w] = claim[w]
  PROVE  ClaimsFor(j)' /\ BudgetFor(j)'
<1>1. ClaimsFor(j)'
  BY DEF ClaimsFor
<1>2. Releases(j)' \subseteq Releases(j)
  BY DEF Releases
<1>3. /\ Cardinality(Releases(j)) \in Nat /\ Cardinality(Releases(j)') \in Nat
      /\ Cardinality(Releases(j)') <= Cardinality(Releases(j))
  BY <1>2, ReleasesAreFinite, FewerReleases
<1>4. /\ Waiting(j)' <= Waiting(j)
      /\ Waiting(j) \in Nat /\ Waiting(j)' \in Nat
  BY DEF Waiting
<1>5. /\ attempts[j] \in Nat /\ recoveries[j] \in Nat /\ MAX_ATTEMPTS \in Nat
  BY LimitsAssumption DEF TypeOK, RowsOK, HistoryOK
<1> HIDE DEF Releases, Waiting
<1>6. BudgetFor(j)'
  BY <1>3, <1>4, <1>5 DEF BudgetFor
<1> QED BY <1>1, <1>6

LEMMA AttemptsTask ==
  ASSUME TypeOK, HistoryOK, ClaimsAreShown, NEW w \in Workers, AnyTaskStep(w),
         NEW j \in Jobs, j = task[w].job, ClaimsFor(j), BudgetFor(j),
         UNCHANGED recoveries
  PROVE  ClaimsFor(j)' /\ BudgetFor(j)'
<1> USE LimitsAssumption, BoundsAssumption
<1>0. /\ RowsOK /\ WorkersOK
      /\ attempts[j] \in 0..MaxClaims /\ recoveries[j] \in Nat
      /\ \A v \in Workers : claim[v] \in Nat
  BY DEF TypeOK, RowsOK, WorkersOK, HistoryOK
<1>1. \A v \in Workers : v # w => UNCHANGED <<pc[v], task[v], claim[v]>>
  BY TaskFrame
<1>2. \A v \in Workers : v # w /\ Holds(v, j)' => Holds(v, j) /\ claim'[v] = claim[v]
  BY <1>1 DEF Holds
<1>3. CASE Finish(w) /\ UNCHANGED attempts /\ (UNCHANGED status \/ FailPermanently(w))
  <2>1. ~Holds(w, j)'
    BY <1>0, <1>3, FinishFrame DEF Holds, Holding
  <2>2. status'[j] = status[j] \/ status'[j] = "failed"
    BY <1>0, <1>3 DEF FailPermanently, MarkFailed, RowsOK
  <2> QED BY <1>2, <1>3, <2>1, <2>2, AttemptsKept
<1>4. CASE ClaimRow(j) /\ (Claim(w) \/ ClaimRaises(w))
  <2>1. /\ status[j] = "queued" /\ status'[j] = "processing"
        /\ attempts'[j] = UpTo(MaxClaims, attempts[j] + 1)
        /\ Holds(w, j)' <=> Claim(w)
        /\ Claim(w) => claim'[w] = attempts'[j]
    BY <1>0, <1>4 DEF Claim, ClaimRow, ClaimRaises, Goto, Holds, Holding, RowsOK, WorkersOK
  <2>2. /\ attempts'[j] \in Nat
        /\ \/ attempts'[j] = attempts[j] + 1
           \/ attempts'[j] = MaxClaims /\ attempts[j] = MaxClaims
    BY <1>0, <2>1 DEF UpTo
  <2>3. ClaimsFor(j)'
    BY <1>0, <1>2, <2>1, <2>2 DEF ClaimsFor
  <2>4. Releases(j)' \subseteq Releases(j)
    <3> SUFFICES ASSUME NEW c \in 1..(MAX_ATTEMPTS - 1), c \in Releases(j)'
                 PROVE  c \in Releases(j)
      BY DEF Releases
    <3>1. CASE c > attempts'[j]
      BY <1>0, <2>2, <3>1 DEF Releases
    <3>2. ASSUME NEW v \in Workers, Holds(v, j)', claim'[v] = c PROVE c \in Releases(j)
      <4>1. CASE v = w
        BY <1>0, <2>1, <2>2, <3>2, <4>1 DEF Releases
      <4>2. CASE v # w
        BY <1>2, <3>2, <4>2 DEF Releases
      <4> QED BY <4>1, <4>2
    <3> QED BY <3>1, <3>2 DEF Releases
  <2>5. /\ Cardinality(Releases(j)) \in Nat /\ Cardinality(Releases(j)') \in Nat
        /\ Cardinality(Releases(j)') <= Cardinality(Releases(j))
    BY <2>4, ReleasesAreFinite, FewerReleases
  <2>6. Waiting(j) = 1 /\ Waiting(j)' = 0
    BY <2>1 DEF Waiting
  <2>7. BudgetFor(j)'
    BY <1>0, <2>2, <2>5, <2>6 DEF BudgetFor
  <2> QED BY <2>3, <2>7
<1>5. CASE ClaimRaises(w) /\ UNCHANGED rowVars
  <2>1. ~Holds(w, j)' /\ UNCHANGED <<status, attempts>>
    BY <1>0, <1>5 DEF ClaimRaises, Goto, Holds, Holding, WorkersOK, rowVars
  <2> QED BY <1>2, <2>1, AttemptsKept
<1>6. CASE /\ pc[w] \in Holding /\ UNCHANGED <<attempts, claim>>
           /\ pc'[w] \in Holding => UNCHANGED status
  <2>1. Holds(w, j) /\ \A v \in Workers : Holds(v, j)' => Holds(v, j)
    BY <1>2, <1>6 DEF Holds
  <2>2. CASE status'[j] = status[j] \/ status'[j] \notin {"none", "queued"}
    BY <1>6, <2>1, <2>2, AttemptsKept
  <2>3. CASE ~(status'[j] = status[j] \/ status'[j] \notin {"none", "queued"})
    <3>1. Release(w)
      BY <1>0, <1>6, <2>3
      DEF AnyTaskStep, TaskStep, Loss, Execute, DatabaseFault, StorageFault,
          Claim, Skip, ClaimRaises, Download, DownloadFindsNothing, DownloadRaises,
          Analyse, AnalyseRaises, ReleaseRaises, Complete, CompleteRaises, MarkCompleted,
          DeleteUpload, DeleteRaises, Retry, FailPermanently, FailPermanentlyRaises,
          MarkFailed, Crash, KillAtTimeLimit, At, Holding, rowVars, RowsOK
    <3>2. /\ claim[w] < MAX_ATTEMPTS /\ status'[j] = "queued"
          /\ pc'[w] = "raised"
      BY <1>0, <2>3, <3>1 DEF Release, MarkFailed, Requeue, Goto, RowsOK, WorkersOK
    <3>3. /\ ~Holds(w, j)' /\ claim[w] <= attempts[j]
          /\ \A v \in Workers : Holds(v, j)' => claim[v] # claim[w]
      BY <1>0, <2>1, <3>2 DEF Holds, Holding, ClaimsFor
    <3>4. claim[w] # 0
      BY <1>6 DEF ClaimsAreShown
    <3>5. BudgetFor(j)'
      <4>1. claim[w] \in Releases(j) \ Releases(j)' /\ Releases(j)' \subseteq Releases(j)
        BY <1>0, <1>6, <2>1, <3>2, <3>3, <3>4 DEF Releases
      <4>2. /\ Cardinality(Releases(j)) \in Nat /\ Cardinality(Releases(j)') \in Nat
            /\ Cardinality(Releases(j)') + 1 <= Cardinality(Releases(j))
        BY <4>1, ReleasesAreFinite, FewerReleases
      <4>3. Waiting(j)' = 1 /\ Waiting(j) \in {0, 1}
        BY <3>2 DEF Waiting
      <4> QED BY <1>0, <1>6, <4>2, <4>3 DEF BudgetFor
    <3> QED BY <1>6, <2>1, <3>5 DEF ClaimsFor
  <2> QED BY <2>2, <2>3
<1> QED BY <1>3, <1>4, <1>5, <1>6, TaskKinds DEF Claim, ClaimRaises

(* Rows that get queued by no task.                                         *)
LEMMA AttemptsQueued ==
  ASSUME TypeOK, HistoryOK, NEW j \in Jobs, ClaimsFor(j), BudgetFor(j),
         UNCHANGED attempts, UNCHANGED workerVars,
         \/ status[j] = "none" /\ recoveries'[j] = recoveries[j]
         \/ recoveries'[j] = UpTo(MaxClaims, recoveries[j] + 1)
  PROVE  ClaimsFor(j)' /\ BudgetFor(j)'
<1>1. \A w \in Workers : (Holds(w, j)' <=> Holds(w, j)) /\ claim'[w] = claim[w]
  BY DEF Holds, workerVars
<1>2. ClaimsFor(j)'
  BY <1>1 DEF ClaimsFor
<1>3. Cardinality(Releases(j)') = Cardinality(Releases(j)) /\ Cardinality(Releases(j)) \in Nat
  <2>1. Releases(j)' = Releases(j)
    BY <1>1 DEF Releases
  <2> QED BY <2>1, ReleasesAreFinite
<1>4. /\ Waiting(j)' <= Waiting(j) + 1
      /\ Waiting(j) \in {0, 1} /\ Waiting(j)' \in {0, 1}
      /\ status[j] = "none" => Waiting(j) = 1
  BY DEF Waiting
<1>5. /\ attempts[j] \in Nat /\ recoveries[j] \in 0..MaxClaims /\ MAX_ATTEMPTS \in Nat
      /\ MaxClaims \in Nat
  BY LimitsAssumption, BoundsAssumption DEF TypeOK, RowsOK, HistoryOK
<1> HIDE DEF Releases, Waiting
<1>6. CASE status[j] = "none" /\ recoveries'[j] = recoveries[j]
  BY <1>2, <1>3, <1>4, <1>5, <1>6 DEF BudgetFor
<1>7. CASE recoveries'[j] = UpTo(MaxClaims, recoveries[j] + 1)
  <2>1. \/ recoveries'[j] = MaxClaims
        \/ recoveries'[j] = recoveries[j] + 1 /\ recoveries[j] # MaxClaims
    BY <1>5, <1>7 DEF UpTo
  <2> QED BY <1>2, <1>3, <1>4, <1>5, <2>1 DEF BudgetFor
<1> QED BY <1>6, <1>7

LEMMA AttemptsInvStep ==
  ASSUME TypeOK, HistoryOK, ClaimsAreShown, AttemptsInv, [HistoryNext]_allVars
  PROVE  AttemptsInv'
<1> SUFFICES ASSUME NEW j \in Jobs PROVE ClaimsFor(j)' /\ BudgetFor(j)'
  BY DEF AttemptsInv
<1>0. RowsOK /\ WorkersOK /\ ClaimsFor(j) /\ BudgetFor(j)
  BY DEF TypeOK, AttemptsInv
<1>1. CASE UNCHANGED <<status, attempts, recoveries>> /\ UNCHANGED <<pc, task, claim>>
  <2>1. \A w \in Workers : Holds(w, j)' => Holds(w, j) /\ claim'[w] = claim[w]
    BY <1>1 DEF Holds
  <2> QED BY <1>0, <1>1, <2>1, AttemptsKept
<1>2. ASSUME NEW w \in Workers, AnyTaskStep(w), UNCHANGED recoveries
      PROVE  ClaimsFor(j)' /\ BudgetFor(j)'
  <2>1. CASE task[w].job = j
    BY <1>0, <1>2, <2>1, AttemptsTask
  <2>2. CASE task[w].job # j
    <3>1. SameFor(j)
      BY <1>2, <2>2, TaskFrame
    <3>2. \A v \in Workers : Holds(v, j)' => Holds(v, j) /\ claim'[v] = claim[v]
      BY <3>1 DEF SameFor, Holds, Holding
    <3> QED BY <1>0, <1>2, <3>1, <3>2, AttemptsKept DEF SameFor
  <2> QED BY <2>1, <2>2
<1>3. ASSUME NEW i \in Jobs, NEW k \in Keys, CreateJob(i, k), UNCHANGED recoveries
      PROVE  ClaimsFor(j)' /\ BudgetFor(j)'
  <2>1. UNCHANGED attempts /\ UNCHANGED workerVars
    BY <1>3 DEF CreateJob
  <2>2. CASE i = j
    BY <1>0, <1>3, <2>1, <2>2, AttemptsQueued DEF CreateJob
  <2>3. CASE i # j
    <3>1. status'[j] = status[j]
      BY <1>0, <1>3, <2>3 DEF CreateJob, RowsOK
    <3>2. \A v \in Workers : Holds(v, j)' => Holds(v, j) /\ claim'[v] = claim[v]
      BY <2>1 DEF Holds, workerVars
    <3> QED BY <1>0, <1>3, <2>1, <3>1, <3>2, AttemptsKept
  <2> QED BY <2>2, <2>3
<1>4. CASE HistoryRecover
  <2>1. UNCHANGED attempts /\ UNCHANGED workerVars
    BY <1>4 DEF HistoryRecover, RecoverStale
  <2>2. CASE Stale(j)
    BY <1>0, <1>4, <2>1, <2>2, AttemptsQueued DEF HistoryRecover
  <2>3. CASE ~Stale(j)
    <3>1. status'[j] = status[j] /\ recoveries'[j] = recoveries[j]
      BY <1>4, <2>3 DEF HistoryRecover, RecoverStale
    <3>2. \A v \in Workers : Holds(v, j)' => Holds(v, j) /\ claim'[v] = claim[v]
      BY <2>1 DEF Holds, workerVars
    <3> QED BY <1>0, <2>1, <3>1, <3>2, AttemptsKept
  <2> QED BY <2>2, <2>3
<1>5. ASSUME NEW w \in Workers, NEW i \in Jobs, NEW r \in 0..MaxRetries,
             Deliver(w, i, r), UNCHANGED recoveries
      PROVE  ClaimsFor(j)' /\ BudgetFor(j)'
  <2>1. /\ UNCHANGED <<status, attempts, claim>>
        /\ \A v \in Workers : Holds(v, j)' => Holds(v, j)
    BY <1>0, <1>5 DEF Deliver, Holds, Holding, WorkersOK, rowVars
  <2> QED BY <1>0, <1>5, <2>1, AttemptsKept
<1> QED
  BY <1>1, <1>2, <1>3, <1>4, <1>5, HistorySteps
  DEF Upload, Poll, Tick, HistoryFault, AnyTaskStep, TaskStep, workerVars, rowVars,
      historyVars, allVars, vars

(* A job is attempted MAX_ATTEMPTS times at most, and once more for every   *)
(* recovery of its row: whichever tasks overlap, die or fail.               *)
THEOREM AttemptsArePaidFor == HistorySpec => []AttemptsPaidByRecoveries
<1>1. HistoryInit => AttemptsInv
  <2> SUFFICES ASSUME HistoryInit, NEW j \in Jobs PROVE ClaimsFor(j) /\ BudgetFor(j)
    BY DEF AttemptsInv
  <2>1. \A w \in Workers : ~Holds(w, j)
    BY DEF HistoryInit, Init, Holds, Holding
  <2>2. attempts[j] = 0 /\ recoveries[j] = 0 /\ Waiting(j) = 1
    BY DEF HistoryInit, Init, Waiting
  <2>3. BudgetFor(j)
    BY <2>2, ReleasesAreFinite, LimitsAssumption DEF BudgetFor
  <2> QED BY <2>1, <2>3 DEF ClaimsFor
<1>2. TypeOK /\ HistoryOK /\ ClaimInv /\ AttemptsInv /\ [HistoryNext]_allVars => AttemptsInv'
  BY AttemptsInvStep DEF ClaimInv
<1>3. TypeOK /\ HistoryOK /\ AttemptsInv => AttemptsPaidByRecoveries
  <2> SUFFICES ASSUME TypeOK, HistoryOK, AttemptsInv, NEW j \in Jobs
               PROVE  attempts[j] <= MAX_ATTEMPTS + recoveries[j]
    BY DEF AttemptsPaidByRecoveries
  <2>1. attempts[j] \in 0..MaxClaims /\ recoveries[j] \in 0..MaxClaims
    BY DEF TypeOK, RowsOK, HistoryOK
  <2>2. Waiting(j) \in Nat /\ Cardinality(Releases(j)) \in Nat
    BY ReleasesAreFinite DEF Waiting
  <2>3. BudgetFor(j)
    BY DEF AttemptsInv
  <2> QED BY <2>1, <2>2, <2>3, LimitsAssumption, BoundsAssumption DEF BudgetFor
<1> QED BY <1>1, <1>2, <1>3, ClaimsAndAges, PTL DEF HistorySpec
=============================================================================
