---------------------------- MODULE AnalysisRuns ----------------------------
(***************************************************************************)
(* AnalysisService.run: a call looks for an earlier run of its idempotency  *)
(* key, ingests the workbook, opens a run, evaluates the rules and writes   *)
(* the findings, the health score and the key in one transaction.  An       *)
(* exception after the run was opened is reconciled with the database and   *)
(* then recorded as a failure.                                              *)
(*                                                                          *)
(* A call opens at most one run: the run has the identity of its call.      *)
(***************************************************************************)
EXTENDS Naturals

CONSTANTS
  Operations,    \* what clients want done: one workbook for one project
  Keyed,         \* operations sent with an idempotency key
  Impatient,     \* operations a client may send again before the answer
  Tries,         \* calls of one operation
  DatabaseFails  \* may a statement or a COMMIT raise?

ASSUME AnalysisAssumption ==
  /\ Keyed \subseteq Operations
  /\ Impatient \subseteq Operations
  /\ Tries \in Nat
  /\ DatabaseFails \in BOOLEAN

Calls == Operations \X (1..Tries)
SameOperation(c, d) == c # d /\ c[1] = d[1]
HasKey(c) == c[1] \in Keyed
Patient(c) == c[1] \notin Impatient

VARIABLES
  pc,        \* call: the next step of run
  catalogue, \* is the version of the rule catalogue in the database?
  status,    \* run: its status, or none
  results,   \* runs with findings and a health score
  logged,    \* runs recorded under the key of their operation
  reply      \* call: the kind of answer and the run it names

vars == <<pc, catalogue, status, results, logged, reply>>

Pending(c) == [kind |-> "pending", names |-> c]
Steps == {"idle", "lookup", "ingest", "catalogue", "insert", "start", "engine",
          "write", "reconcile", "fail", "done"}
Statuses == {"none", "running", "succeeded", "failed"}
Kinds == {"pending", "run", "failed", "refused", "unknown"}

TypeOK ==
  /\ pc \in [Calls -> Steps]
  /\ catalogue \in BOOLEAN
  /\ status \in [Calls -> Statuses]
  /\ results \subseteq Calls
  /\ logged \subseteq Calls
  /\ reply \in [Calls -> [kind : Kinds, names : Calls]]

Init ==
  /\ pc = [c \in Calls |-> "idle"]
  /\ catalogue = FALSE
  /\ status = [c \in Calls |-> "none"]
  /\ results = {}
  /\ logged = {}
  /\ reply = [c \in Calls |-> Pending(c)]
-----------------------------------------------------------------------------
Active(c) == pc[c] \notin {"idle", "done"}

Goto(c, step) == pc' = [pc EXCEPT ![c] = step]
Answer(c, k, d) ==
  /\ Goto(c, "done")
  /\ reply' = [reply EXCEPT ![c] = [kind |-> k, names |-> d]]

(* Mutant of RecordedRuns: the key is not part of the query.                *)
AnyRun(c) == logged

(* get_run_by_idempotency_key.                                              *)
RecordedRuns(c) == {d \in logged : SameOperation(c, d)}
-----------------------------------------------------------------------------
(* A retry is sent when the earlier calls of the operation are over, unless *)
(* its client is impatient.                                                 *)
Begin(c) ==
  /\ pc[c] = "idle"
  /\ Patient(c) => \A d \in Calls : SameOperation(c, d) => ~Active(d)
  /\ Goto(c, IF HasKey(c) THEN "lookup" ELSE "ingest")
  /\ UNCHANGED <<catalogue, status, results, logged, reply>>

Lookup(c) ==
  /\ pc[c] = "lookup"
  /\ IF RecordedRuns(c) = {}
       THEN Goto(c, "ingest") /\ UNCHANGED reply
       ELSE \E d \in RecordedRuns(c) : Answer(c, "run", d)
  /\ UNCHANGED <<catalogue, status, results, logged>>

(* The snapshot of the workbook is created or found.                        *)
Ingest(c) ==
  /\ pc[c] = "ingest"
  /\ Goto(c, "catalogue")
  /\ UNCHANGED <<catalogue, status, results, logged, reply>>

(* A workbook is refused, the snapshot cannot be loaded, or a statement     *)
(* raises: there is no run yet.                                             *)
Refuse(c) ==
  /\ \/ pc[c] \in {"ingest", "catalogue"}
     \/ DatabaseFails /\ pc[c] \in {"lookup", "insert", "start"}
  /\ Answer(c, "refused", c)
  /\ UNCHANGED <<catalogue, status, results, logged>>

(* get_or_create_catalogue selects the version and may have to insert it.   *)
ReadCatalogue(c) ==
  /\ pc[c] = "catalogue"
  /\ Goto(c, IF catalogue THEN "start" ELSE "insert")
  /\ UNCHANGED <<catalogue, status, results, logged, reply>>

(* A first analysis that loses the race for the catalogue version runs into *)
(* its unique constraint, outside of any try block.                         *)
LoseCatalogue(c) ==
  /\ pc[c] = "insert"
  /\ catalogue
  /\ Answer(c, "refused", c)
  /\ UNCHANGED <<catalogue, status, results, logged>>

(* start_snapshot_run and its COMMIT.                                       *)
StartRun(c) ==
  /\ pc[c] = "start" \/ (pc[c] = "insert" /\ ~catalogue)
  /\ catalogue' = TRUE
  /\ status' = [status EXCEPT ![c] = "running"]

Start(c) ==
  /\ StartRun(c)
  /\ Goto(c, "engine")
  /\ UNCHANGED <<results, logged, reply>>

(* The acknowledgement of that COMMIT is lost: no handler, the run stays.   *)
StartRaises(c) ==
  /\ DatabaseFails
  /\ StartRun(c)
  /\ Answer(c, "unknown", c)
  /\ UNCHANGED <<results, logged>>

(* The rules are evaluated, or one raises.                                  *)
Engine(c) ==
  /\ pc[c] = "engine"
  /\ Goto(c, "write") \/ Goto(c, "reconcile")
  /\ UNCHANGED <<catalogue, status, results, logged, reply>>
-----------------------------------------------------------------------------
(* complete_run, create_snapshot and record_idempotency.                    *)
WriteResults(c) ==
  /\ status' = [status EXCEPT ![c] = "succeeded"]
  /\ results' = results \cup {c}
  /\ logged' = IF HasKey(c) THEN logged \cup {c} ELSE logged

Complete(c) ==
  /\ pc[c] = "write"
  /\ WriteResults(c)
  /\ Answer(c, "run", c)
  /\ UNCHANGED catalogue

(* A statement or the COMMIT raises: nothing was written, or everything was *)
(* and its acknowledgement was lost.                                        *)
CompleteRaises(c) ==
  /\ pc[c] = "write"
  /\ DatabaseFails
  /\ WriteResults(c) \/ UNCHANGED <<status, results, logged>>
  /\ Goto(c, "reconcile")
  /\ UNCHANGED <<catalogue, reply>>

(* Mutant of Reconcile: every exception is recorded as a failure.           *)
Presume(c) ==
  /\ pc[c] = "reconcile"
  /\ Goto(c, "fail")
  /\ UNCHANGED <<catalogue, status, results, logged, reply>>

(* _reconcile_analysis_commit.                                              *)
Reconcile(c) ==
  /\ pc[c] = "reconcile"
  /\ \/ status[c] = "running" /\ Goto(c, "fail") /\ UNCHANGED reply
     \/ status[c] = "succeeded" /\ Answer(c, "run", c)
     \/ status[c] \notin {"running", "succeeded"} /\ Answer(c, "unknown", c)
  /\ UNCHANGED <<catalogue, status, results, logged>>

ReconcileRaises(c) ==
  /\ pc[c] = "reconcile"
  /\ DatabaseFails
  /\ Answer(c, "unknown", c)
  /\ UNCHANGED <<catalogue, status, results, logged>>

(* Mutant of Fail: the failure is not committed.                            *)
FailUncommitted(c) ==
  /\ pc[c] = "fail"
  /\ Answer(c, "failed", c)
  /\ UNCHANGED <<catalogue, status, results, logged>>

(* _persist_failure.                                                        *)
Fail(c) ==
  /\ pc[c] = "fail"
  /\ status' = [status EXCEPT ![c] = "failed"]
  /\ Answer(c, "failed", c)
  /\ UNCHANGED <<catalogue, results, logged>>

FailRaises(c) ==
  /\ pc[c] = "fail"
  /\ DatabaseFails
  /\ status' \in {status, [status EXCEPT ![c] = "failed"]}
  /\ Answer(c, "unknown", c)
  /\ UNCHANGED <<catalogue, results, logged>>

(* The process dies: an open transaction is rolled back.                    *)
Crash(c) ==
  /\ Active(c)
  /\ Answer(c, "unknown", c)
  /\ UNCHANGED <<catalogue, status, results, logged>>
-----------------------------------------------------------------------------
Work(c) ==
  \/ Lookup(c) \/ Ingest(c) \/ ReadCatalogue(c) \/ LoseCatalogue(c) \/ Start(c)
  \/ Engine(c) \/ Complete(c) \/ Reconcile(c) \/ Fail(c)

Fault(c) ==
  \/ Refuse(c) \/ StartRaises(c) \/ CompleteRaises(c) \/ ReconcileRaises(c)
  \/ FailRaises(c) \/ Crash(c)

Next == \E c \in Calls : Begin(c) \/ Work(c) \/ Fault(c)

(* A call that has begun goes on.                                           *)
Fairness == \A c \in Calls : WF_vars(Work(c))

Spec == Init /\ [][Next]_vars
FairSpec == Spec /\ Fairness
-----------------------------------------------------------------------------
(* The findings and the score of a run are there exactly if the run         *)
(* succeeded: an exception after their COMMIT must not fail the run, and a  *)
(* failed or running run has none.                                          *)
ResultsMatchStatus == \A c \in Calls : c \in results <=> status[c] = "succeeded"

(* Sending an operation again under its key does not repeat its findings.   *)
OneResultPerKey ==
  \A c \in results, d \in results : HasKey(c) => ~SameOperation(c, d)

(* The contract of the service: for a patient client of a keyed operation   *)
(* the results come once, and every answer is true and stays true.          *)
Once(c) == HasKey(c) /\ Patient(c)
Failed == {c \in Calls : status[c] = "failed"}
Contract == INSTANCE AnalysisContract WITH failed <- Failed
ServiceContract == Contract!Spec

(* Every call ends, and its run does not stay running unless the caller was *)
(* left without an answer.                                                  *)
EveryCallEnds ==
  \A c \in Calls :
    pc[c] # "idle" ~>
      pc[c] = "done" /\ (status[c] = "running" => reply[c].kind = "unknown")
=============================================================================
