----------------------------- MODULE JobHistory -----------------------------
(***************************************************************************)
(* AnalysisJobs with a history of what befell each job.  The code promises  *)
(* its queue semantics only to a job that is spared two things: recover_    *)
(* stale taking its row from a worker that is still executing it (a task    *)
(* may run for an hour, the grace is half of that), and a transaction of    *)
(* its worker that raises.  The history names the jobs that were not        *)
(* spared, so that the properties hold with no condition on the limits, the *)
(* faults or the clients.                                                   *)
(***************************************************************************)
EXTENDS AnalysisJobs

CONSTANT MaxFaults   \* bound: faults in a behaviour

ASSUME FaultsAssumption == MaxFaults \in Nat

VARIABLES
  taken,       \* jobs whose row was recovered while a task worked on it
  faulted,     \* jobs of which a task met a database fault
  recoveries,  \* how often each row was recovered, up to MaxClaims
  faults       \* faults so far

historyVars == <<taken, faulted, recoveries, faults>>
allVars == <<vars, historyVars>>

(* Between its claim and its end, but for the removal of the copy.          *)
Engaged(w, j) ==
  /\ pc[w] \in Holding \cup {"raised"}
  /\ claim[w] # 0
  /\ task[w].job = j

HistoryOK ==
  /\ taken \subseteq Jobs
  /\ faulted \subseteq Jobs
  /\ recoveries \in [Jobs -> 0..MaxClaims]
  /\ faults \in 0..MaxFaults

HistoryInit ==
  /\ Init
  /\ taken = {}
  /\ faulted = {}
  /\ recoveries = [j \in Jobs |-> 0]
  /\ faults = 0

HistoryWork == Work /\ UNCHANGED historyVars

HistoryRecover ==
  /\ RecoverStale
  /\ taken' = taken \cup {j \in Jobs : Stale(j) /\ \E w \in Workers : Engaged(w, j)}
  /\ recoveries' = [j \in Jobs |-> IF Stale(j) THEN UpTo(MaxClaims, recoveries[j] + 1)
                                            ELSE recoveries[j]]
  /\ UNCHANGED <<faulted, faults>>

HistoryFault(w) ==
  /\ faults < MaxFaults
  /\ faults' = faults + 1
  /\ \/ DatabaseFault(w) /\ faulted' = faulted \cup {task[w].job}
     \/ (StorageFault(w) \/ Loss(w)) /\ UNCHANGED faulted
  /\ UNCHANGED <<taken, recoveries>>

HistoryNext ==
  \/ HistoryWork
  \/ HistoryRecover
  \/ \E w \in Workers : HistoryFault(w)

HistorySpec == HistoryInit /\ [][HistoryNext]_allVars

(* The fairness of AnalysisJobs; faults are finitely many and owe nothing.  *)
FairHistorySpec == HistorySpec /\ Fairness
-----------------------------------------------------------------------------
(* claim_job's promise: whatever messages are copied, redelivered and       *)
(* retried, two workers are between claiming a job and giving its row the   *)
(* next status only if recover_stale took the row from one of them.         *)
OneHolderPerJob ==
  \A j \in Jobs \ taken, v, w \in Workers : Holds(v, j) /\ Holds(w, j) => v = w

(* recover_stale's "worker died mid-flight" errs only about a task that has *)
(* been running for longer than the grace.                                  *)
TakenAfterGrace ==
  [][\A j \in taken' \ taken : \E w \in Workers : Engaged(w, j) /\ clock[w] > Grace]_allVars

(* Two jobs were posted for one uploaded object.                            *)
Shared(j) == \E i \in Jobs \ {j} : key[i] = key[j]

(* What a queued row needs to make progress: the copy that storage.get will *)
(* read is still there, unless the object serves another job too.           *)
QueuedJobHasUpload ==
  \A j \in Jobs \ taken : status[j] = "queued" =>
    upload[key[j]] = "stored" \/ Shared(j)

(* What "a job that is already completed is a no-op" comes to: no step      *)
(* takes a job out of a terminal status, unless its row was taken or one of *)
(* its transactions raised.                                                 *)
SettledStaysSettled ==
  [][\A j \in Jobs \ (taken' \cup faulted') :
       status[j] \in Settled => status'[j] = status[j]]_allVars

(* Attempts are compared with MAX_ATTEMPTS only when the analysis raises:   *)
(* each recovery of the row may cost one claim more, and nothing else does, *)
(* whichever tasks overlap, die or fail.                                    *)
AttemptsPaidByRecoveries ==
  \A j \in Jobs : attempts[j] <= MAX_ATTEMPTS + recoveries[j]

(* The queue keeps JobContract with every job that was spared, as long as   *)
(* its counters are followed.                                               *)
Beyond == {j \in Jobs : attempts[j] = MaxClaims \/ runs[j] = MaxRuns}
Contract == INSTANCE JobContract WITH void <- taken \cup faulted \cup Beyond
JobsContract == Contract!Spec

(* What "permanent failures are recorded on the job row" comes to: a queued *)
(* job is completed or failed once the faults of database, storage and      *)
(* processes have ended, unless its row was taken or its object serves      *)
(* another job too.                                                         *)
JobsSettleAfterFaults ==
  \A j \in Jobs :
    status[j] = "queued" ~> status[j] \in Settled \/ j \in taken \/ Shared(j)
=============================================================================
