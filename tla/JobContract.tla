----------------------------- MODULE JobContract -----------------------------
(***************************************************************************)
(* What the queue of analysis jobs promises for a job: it is worked on in   *)
(* attempts, one at a time; an attempt commits one analysis run at most; a  *)
(* completed job names the run that its last attempt committed; it is given *)
(* up only after MAX_ATTEMPTS; what is settled never changes again.  How    *)
(* the attempts come about (messages, redelivery, retries, recovery) is     *)
(* left open.  The promise is made job by job, and ends for a job that is   *)
(* void.                                                                    *)
(***************************************************************************)
EXTENDS Naturals

CONSTANTS Jobs, MAX_ATTEMPTS

VARIABLES
  status,   \* what the client polls
  attempts, \* how often the job was begun
  runs,     \* analysis runs committed for it
  result,   \* the run that the job names, or 0
  void      \* the jobs that nothing is promised for any more

Init ==
  /\ status = [j \in Jobs |-> "none"]
  /\ attempts = [j \in Jobs |-> 0]
  /\ runs = [j \in Jobs |-> 0]
  /\ result = [j \in Jobs |-> 0]
  /\ void = {}

Becomes(j, s) == status'[j] = s

Submit(j) ==
  /\ status[j] = "none"
  /\ Becomes(j, "queued")
  /\ UNCHANGED <<attempts[j], runs[j], result[j]>>

Attempt(j) ==
  /\ status[j] = "queued"
  /\ Becomes(j, "processing")
  /\ attempts'[j] = attempts[j] + 1
  /\ UNCHANGED <<runs[j], result[j]>>

(* An attempt that was lost after its run leaves the run behind: the next   *)
(* attempt commits another one.                                             *)
CommitRun(j) ==
  /\ status[j] = "processing"
  /\ runs[j] < attempts[j]
  /\ runs'[j] = runs[j] + 1
  /\ UNCHANGED <<status[j], attempts[j], result[j]>>

Succeed(j) ==
  /\ status[j] = "processing"
  /\ runs[j] > 0
  /\ Becomes(j, "completed")
  /\ result'[j] = runs[j]
  /\ UNCHANGED <<attempts[j], runs[j]>>

GiveUp(j) ==
  /\ status[j] = "processing"
  /\ attempts[j] >= MAX_ATTEMPTS
  /\ Becomes(j, "failed")
  /\ UNCHANGED <<attempts[j], runs[j], result[j]>>

(* The attempt failed, or was found dead.                                   *)
TryAgain(j) ==
  /\ status[j] = "processing"
  /\ Becomes(j, "queued")
  /\ UNCHANGED <<attempts[j], runs[j], result[j]>>

Rest(j) == UNCHANGED <<status[j], attempts[j], runs[j], result[j]>>

Step(j) ==
  \/ Submit(j) \/ Attempt(j) \/ CommitRun(j)
  \/ Succeed(j) \/ GiveUp(j) \/ TryAgain(j)
  \/ Rest(j)

Next == void \subseteq void' /\ \A j \in Jobs \ void' : Step(j)

Spec == Init /\ [][Next]_<<status, attempts, runs, result, void>>
=============================================================================
