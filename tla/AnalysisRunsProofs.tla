------------------------- MODULE AnalysisRunsProofs -------------------------
(***************************************************************************)
(* Proofs about AnalysisRuns, for every number of operations and tries and  *)
(* under every fault the model has.                                         *)
(*                                                                          *)
(* A call writes its own run only.  The inductive invariant says at which   *)
(* step a call has which run, results and answer, and for the idempotency   *)
(* key that a patient operation has one active call, which can be past its  *)
(* lookup only while no run of the operation has results.                   *)
(***************************************************************************)
EXTENDS AnalysisRuns, TLAPS

(* The run of a call at each of its steps.                                  *)
RunFollowsStep ==
  \A c \in Calls :
    /\ pc[c] \in {"idle", "lookup", "ingest", "catalogue", "insert", "start"} =>
         status[c] = "none"
    /\ pc[c] \in {"engine", "write", "fail"} => status[c] = "running"
    /\ pc[c] = "reconcile" => status[c] \in {"running", "succeeded"}

(* Results, key and answer of a call.                                       *)
KeysAreLogged == \A c \in Calls : c \in logged <=> c \in results /\ HasKey(c)

AnsweredAtEnd ==
  \A c \in Calls :
    /\ pc[c] # "done" => reply[c] = Pending(c)
    /\ reply[c].kind = "pending" => pc[c] # "done"

(* One call of a patient operation is active.                               *)
PatientCallsAlternate ==
  \A c, d \in Calls : Patient(c) /\ SameOperation(c, d) => ~(Active(c) /\ Active(d))

(* A call that may still produce results is the first to do so.             *)
MayPublish(c) ==
  \/ pc[c] \in {"ingest", "catalogue", "insert", "start", "engine", "write", "fail"}
  \/ pc[c] = "reconcile" /\ c \notin results

FirstToPublish ==
  \A c \in Calls : Once(c) /\ MayPublish(c) => \A d \in results : ~SameOperation(c, d)

IInv ==
  /\ TypeOK
  /\ RunFollowsStep
  /\ ResultsMatchStatus
  /\ KeysAreLogged
  /\ AnsweredAtEnd
  /\ PatientCallsAlternate
  /\ FirstToPublish
-----------------------------------------------------------------------------
(* Every step keeps the shape of the state.                                 *)
LEMMA TypeStep ==
  ASSUME TypeOK, [Next]_vars
  PROVE  TypeOK'
<1> USE DEF TypeOK, Goto, Answer, Steps, Statuses, Kinds
<1>1. ASSUME NEW c \in Calls, Begin(c) \/ Ingest(c) \/ Refuse(c) PROVE TypeOK'
  BY <1>1 DEF Begin, Ingest, Refuse
<1>2. ASSUME NEW c \in Calls, Lookup(c) PROVE TypeOK'
  BY <1>2 DEF Lookup, RecordedRuns
<1>3. ASSUME NEW c \in Calls, ReadCatalogue(c) \/ LoseCatalogue(c) PROVE TypeOK'
  BY <1>3 DEF ReadCatalogue, LoseCatalogue
<1>4. ASSUME NEW c \in Calls, Start(c) \/ StartRaises(c) PROVE TypeOK'
  <2>1. catalogue' \in BOOLEAN
    <3>1. catalogue' = TRUE
      BY <1>4 DEF Start, StartRaises, StartRun
    <3> QED BY <3>1, Zenon
  <2>2. pc' \in [Calls -> Steps] /\ status' \in [Calls -> Statuses]
    BY <1>4 DEF Start, StartRaises, StartRun
  <2>3. results' \subseteq Calls /\ logged' \subseteq Calls
    BY <1>4 DEF Start, StartRaises, StartRun
  <2>4. reply' \in [Calls -> [kind : Kinds, names : Calls]]
    BY <1>4 DEF Start, StartRaises, StartRun
  <2> QED BY <2>1, <2>2, <2>3, <2>4
<1>5. ASSUME NEW c \in Calls, Engine(c) \/ Crash(c) PROVE TypeOK'
  BY <1>5 DEF Engine, Crash
<1>6. ASSUME NEW c \in Calls, Complete(c) \/ CompleteRaises(c) PROVE TypeOK'
  BY <1>6 DEF Complete, CompleteRaises, WriteResults
<1>7. ASSUME NEW c \in Calls, Reconcile(c) \/ ReconcileRaises(c) PROVE TypeOK'
  BY <1>7 DEF Reconcile, ReconcileRaises
<1>8. ASSUME NEW c \in Calls, Fail(c) \/ FailRaises(c) PROVE TypeOK'
  BY <1>8 DEF Fail, FailRaises
<1>9. CASE UNCHANGED vars
  BY <1>9 DEF vars
<1> QED BY <1>1, <1>2, <1>3, <1>4, <1>5, <1>6, <1>7, <1>8, <1>9 DEF Next, Work, Fault

(* The parts of the invariant that speak of one call.                       *)
Local == RunFollowsStep /\ ResultsMatchStatus /\ KeysAreLogged /\ AnsweredAtEnd

(* They are kept by every step: one of c disturbs those of c alone.         *)
LEMMA LocalStep ==
  ASSUME TypeOK, Local, [Next]_vars
  PROVE  Local'
<1> USE DEF TypeOK, Local, RunFollowsStep, ResultsMatchStatus, KeysAreLogged, AnsweredAtEnd,
            Pending, Goto, Answer, HasKey, Steps, Statuses
<1>1. ASSUME NEW c \in Calls, Begin(c) \/ Ingest(c) PROVE Local'
  BY <1>1 DEF Begin, Ingest
<1>2. ASSUME NEW c \in Calls, Lookup(c) \/ Refuse(c) PROVE Local'
  BY <1>2 DEF Lookup, Refuse
<1>3. ASSUME NEW c \in Calls, ReadCatalogue(c) \/ LoseCatalogue(c) PROVE Local'
  BY <1>3 DEF ReadCatalogue, LoseCatalogue
<1>4. ASSUME NEW c \in Calls, Start(c) \/ StartRaises(c) PROVE Local'
  BY <1>4 DEF Start, StartRaises, StartRun
<1>5. ASSUME NEW c \in Calls, Engine(c) \/ Crash(c) PROVE Local'
  BY <1>5 DEF Engine, Crash
<1>6. ASSUME NEW c \in Calls, Complete(c) PROVE Local'
  BY <1>6 DEF Complete, WriteResults
<1>7. ASSUME NEW c \in Calls, CompleteRaises(c) PROVE Local'
  BY <1>7 DEF CompleteRaises, WriteResults
<1>8. ASSUME NEW c \in Calls, Reconcile(c) \/ ReconcileRaises(c) PROVE Local'
  BY <1>8 DEF Reconcile, ReconcileRaises
<1>9. ASSUME NEW c \in Calls, Fail(c) \/ FailRaises(c) PROVE Local'
  BY <1>9 DEF Fail, FailRaises
<1>10. CASE UNCHANGED vars
  BY <1>10 DEF vars
<1> QED BY <1>1, <1>2, <1>3, <1>4, <1>5, <1>6, <1>7, <1>8, <1>9, <1>10 DEF Next, Work, Fault

(* A call is active after a step if it was so before, or if it has just     *)
(* begun.                                                                   *)
LEMMA ActiveStep ==
  ASSUME TypeOK, [Next]_vars, NEW d \in Calls, Active(d)'
  PROVE  \/ Active(d)
         \/ Begin(d) /\ pc' = [pc EXCEPT ![d] = IF HasKey(d) THEN "lookup" ELSE "ingest"]
<1> USE DEF TypeOK, Active, Goto, Answer
<1>1. ASSUME NEW c \in Calls, Begin(c)
      PROVE  Active(d) \/ (Begin(d) /\ pc' = [pc EXCEPT ![d] = IF HasKey(d) THEN "lookup" ELSE "ingest"])
  BY <1>1 DEF Begin
<1>2. ASSUME NEW c \in Calls, Work(c) PROVE Active(d)
  <2>1. pc[c] \notin {"idle", "done"}
    BY <1>2 DEF Work, Lookup, Ingest, ReadCatalogue, LoseCatalogue, Start, StartRun, Engine,
       Complete, Reconcile, Fail
  <2>2. \E s : pc' = [pc EXCEPT ![c] = s]
    BY <1>2 DEF Work, Lookup, Ingest, ReadCatalogue, LoseCatalogue, Start, Engine, Complete,
       Reconcile, Fail
  <2> QED BY <2>1, <2>2
<1>3. ASSUME NEW c \in Calls, Fault(c) PROVE Active(d)
  <2>1. pc[c] \notin {"idle", "done"}
    BY <1>3 DEF Fault, Refuse, StartRaises, StartRun, CompleteRaises, ReconcileRaises,
       FailRaises, Crash
  <2>2. \E s : pc' = [pc EXCEPT ![c] = s]
    BY <1>3 DEF Fault, Refuse, StartRaises, CompleteRaises, ReconcileRaises, FailRaises, Crash
  <2> QED BY <2>1, <2>2
<1>4. CASE UNCHANGED vars
  BY <1>4 DEF vars
<1> QED BY <1>1, <1>2, <1>3, <1>4 DEF Next

(* A patient client waits for the end of its call.                          *)
LEMMA PatienceStep ==
  ASSUME TypeOK, PatientCallsAlternate, [Next]_vars
  PROVE  PatientCallsAlternate'
<1> SUFFICES ASSUME NEW c \in Calls, NEW d \in Calls, Patient(c), SameOperation(c, d),
                    Active(c)', Active(d)'
             PROVE  FALSE
  BY DEF PatientCallsAlternate, Patient, SameOperation
<1>1. Patient(d) /\ SameOperation(d, c)
  BY DEF Patient, SameOperation
<1>2. CASE Active(c) /\ Active(d)
  BY <1>2 DEF PatientCallsAlternate
<1>3. CASE Begin(c)
  <2>1. ~Active(d)
    BY <1>3 DEF Begin
  <2>2. c # d
    BY DEF SameOperation
  <2> QED BY <1>3, <2>1, <2>2 DEF Begin, Goto, Active, TypeOK
<1>4. CASE Begin(d)
  <2>1. ~Active(c)
    BY <1>1, <1>4 DEF Begin
  <2>2. c # d
    BY DEF SameOperation
  <2> QED BY <1>4, <2>1, <2>2 DEF Begin, Goto, Active, TypeOK
<1> QED BY <1>2, <1>3, <1>4, ActiveStep

(* New results are those of a call that was about to write them.            *)
LEMMA ResultsStep ==
  ASSUME TypeOK, [Next]_vars, NEW d \in results'
  PROVE  d \in results \/ (d \in Calls /\ pc[d] = "write")
<1>1. ASSUME NEW c \in Calls, Complete(c) \/ CompleteRaises(c)
      PROVE  d \in results \/ (d \in Calls /\ pc[d] = "write")
  BY <1>1 DEF Complete, CompleteRaises, WriteResults
<1>2. ASSUME NEW c \in Calls, Work(c), ~Complete(c) PROVE d \in results
  BY <1>2 DEF Work, Lookup, Ingest, ReadCatalogue, LoseCatalogue, Start, Engine, Reconcile,
     Fail
<1>3. ASSUME NEW c \in Calls, Fault(c), ~CompleteRaises(c) PROVE d \in results
  BY <1>3 DEF Fault, Refuse, StartRaises, ReconcileRaises, FailRaises, Crash
<1>4. ASSUME NEW c \in Calls, Begin(c) PROVE d \in results
  BY <1>4 DEF Begin
<1>5. CASE UNCHANGED vars
  BY <1>5 DEF vars
<1> QED BY <1>1, <1>2, <1>3, <1>4, <1>5 DEF Next, Work, Fault

(* A call of a keyed operation comes to where it may publish through its    *)
(* lookup, which found no run.                                              *)
LEMMA MayPublishStep ==
  ASSUME TypeOK, Local, [Next]_vars, NEW c \in Calls, HasKey(c), MayPublish(c)'
  PROVE  \/ MayPublish(c)
         \/ Lookup(c) /\ RecordedRuns(c) = {}
<1> USE DEF TypeOK, Local, RunFollowsStep, ResultsMatchStatus, MayPublish, Goto, Answer
<1>1. ASSUME NEW d \in Calls, Begin(d) PROVE MayPublish(c)
  BY <1>1 DEF Begin
<1>2. ASSUME NEW d \in Calls, Lookup(d)
      PROVE  MayPublish(c) \/ (Lookup(c) /\ RecordedRuns(c) = {})
  BY <1>2 DEF Lookup
<1>3. ASSUME NEW d \in Calls, Ingest(d) \/ ReadCatalogue(d) \/ LoseCatalogue(d)
      PROVE  MayPublish(c)
  BY <1>3 DEF Ingest, ReadCatalogue, LoseCatalogue
<1>4. ASSUME NEW d \in Calls, Start(d) \/ StartRaises(d) PROVE MayPublish(c)
  BY <1>4 DEF Start, StartRaises, StartRun
<1>5. ASSUME NEW d \in Calls, Engine(d) \/ Refuse(d) \/ Crash(d) PROVE MayPublish(c)
  BY <1>5 DEF Engine, Refuse, Crash
<1>6. ASSUME NEW d \in Calls, Complete(d) \/ CompleteRaises(d) PROVE MayPublish(c)
  BY <1>6 DEF Complete, CompleteRaises, WriteResults
<1>7. ASSUME NEW d \in Calls, Reconcile(d) \/ ReconcileRaises(d) PROVE MayPublish(c)
  BY <1>7 DEF Reconcile, ReconcileRaises
<1>8. ASSUME NEW d \in Calls, Fail(d) \/ FailRaises(d) PROVE MayPublish(c)
  BY <1>8 DEF Fail, FailRaises
<1>9. CASE UNCHANGED vars
  BY <1>9 DEF vars
<1> QED BY <1>1, <1>2, <1>3, <1>4, <1>5, <1>6, <1>7, <1>8, <1>9 DEF Next, Work, Fault

(* The key of a patient operation lets one call publish.                    *)
LEMMA PublishStep ==
  ASSUME TypeOK, Local, PatientCallsAlternate, FirstToPublish, [Next]_vars
  PROVE  FirstToPublish'
<1> SUFFICES ASSUME NEW c \in Calls, Once(c), MayPublish(c)', NEW d \in results',
                    SameOperation(c, d)
             PROVE  FALSE
  BY DEF FirstToPublish, Once, SameOperation, HasKey, Patient
<1>1. d \in Calls /\ Once(d)
  BY TypeStep DEF TypeOK, Once, SameOperation, HasKey, Patient
<1>2. CASE d \in results
  <2>1. d \in RecordedRuns(c)
    BY <1>1, <1>2 DEF Local, KeysAreLogged, RecordedRuns, Once
  <2>2. ~MayPublish(c)
    BY <1>2 DEF FirstToPublish
  <2> QED BY <2>1, <2>2, MayPublishStep DEF Once
<1>3. CASE d \notin results /\ pc[d] = "write"
  <2>1. MayPublish(c) \/ Lookup(c)
    BY MayPublishStep DEF Once
  <2>2. Active(c) /\ Active(d)
    BY <1>3, <2>1 DEF MayPublish, Lookup, Active
  <2> QED BY <1>1, <2>2 DEF PatientCallsAlternate, Once
<1> QED BY <1>2, <1>3, ResultsStep

(* The invariant holds throughout.                                          *)
LEMMA Invariance == Spec => []IInv
<1>1. ASSUME Init PROVE IInv
  <2>1. TypeOK
    BY <1>1 DEF Init, TypeOK, Steps, Statuses, Kinds, Pending
  <2>2. RunFollowsStep /\ ResultsMatchStatus /\ KeysAreLogged /\ AnsweredAtEnd
    BY <1>1 DEF Init, RunFollowsStep, ResultsMatchStatus, KeysAreLogged, AnsweredAtEnd
  <2>3. PatientCallsAlternate /\ FirstToPublish
    BY <1>1 DEF Init, PatientCallsAlternate, FirstToPublish, Active
  <2> QED BY <2>1, <2>2, <2>3 DEF IInv
<1>2. IInv /\ [Next]_vars => IInv'
  BY TypeStep, LocalStep, PatienceStep, PublishStep DEF IInv, Local
<1> QED BY <1>1, <1>2, PTL DEF Spec

(* The state keeps its shape.                                               *)
THEOREM TypeCorrect == Spec => []TypeOK
<1>1. IInv => TypeOK
  BY DEF IInv
<1> QED BY <1>1, Invariance, PTL

(* Findings and score are there exactly if the run succeeded.               *)
THEOREM ResultsFollowTheStatus == Spec => []ResultsMatchStatus
<1>1. IInv => ResultsMatchStatus
  BY DEF IInv
<1> QED BY <1>1, Invariance, PTL
-----------------------------------------------------------------------------
(***************************************************************************)
(* The contract: the service implements AnalysisContract.                   *)
(***************************************************************************)
cvars == <<results, Failed, reply>>

(* A step that only answers c is an Answer of the contract.                 *)
LEMMA AnswerMaps ==
  ASSUME IInv, NEW c \in Calls, pc[c] # "done",
         NEW k, NEW d \in Calls, Answer(c, k, d), UNCHANGED <<results, Failed>>,
         \/ k = "run" /\ d \in results /\ (d = c \/ SameOperation(c, d))
         \/ k = "refused" /\ d = c /\ c \notin results \cup Failed
         \/ k = "unknown" /\ d = c
  PROVE  Contract!Answer(c)
<1> DEFINE a == [kind |-> k, names |-> d]
<1>1. reply[c] = Contract!Pending(c)
  BY DEF IInv, AnsweredAtEnd, Pending, Contract!Pending
<1>2. a \in Contract!Answers(c)
  BY DEF Contract!Answers
<1>3. reply' = [reply EXCEPT ![c] = a]
  BY DEF Answer
<1> QED BY <1>1, <1>2, <1>3 DEF Contract!Answer

(* Writing the results of c publishes them, answered at once or not yet.    *)
LEMMA WriteMaps ==
  ASSUME IInv, NEW c \in Calls, pc[c] = "write", WriteResults(c),
         reply' \in {reply, [reply EXCEPT ![c] = [kind |-> "run", names |-> c]]}
  PROVE  Contract!Publish(c)
<1>1. status[c] = "running"
  BY DEF IInv, RunFollowsStep
<1>2. Contract!Open(c)
  BY <1>1 DEF Contract!Open, Contract!Pending, IInv, AnsweredAtEnd, Pending,
     ResultsMatchStatus, Failed
<1>3. Once(c) => \A d \in results : ~SameOperation(c, d)
  BY DEF IInv, FirstToPublish, MayPublish
<1>4. Failed' = Failed
  BY <1>1 DEF Failed, WriteResults, IInv, TypeOK
<1> QED BY <1>2, <1>3, <1>4 DEF Contract!Publish, WriteResults

(* A recorded failure.                                                      *)
LEMMA FailMaps ==
  ASSUME IInv, NEW c \in Calls, pc[c] = "fail", status' = [status EXCEPT ![c] = "failed"],
         NEW k \in {"failed", "unknown"}, Answer(c, k, c), UNCHANGED results
  PROVE  Contract!Fail(c)
<1>1. status[c] = "running"
  BY DEF IInv, RunFollowsStep
<1>2. Contract!Open(c)
  BY <1>1 DEF Contract!Open, Contract!Pending, IInv, AnsweredAtEnd, Pending,
     ResultsMatchStatus, Failed
<1>3. Failed' = Failed \cup {c}
  BY DEF Failed, IInv, TypeOK
<1> QED BY <1>2, <1>3 DEF Contract!Fail, Answer

(* Every step of the service is a step of the contract, or changes nothing  *)
(* the contract sees.                                                       *)
LEMMA StepMaps ==
  ASSUME IInv, [Next]_vars
  PROVE  [Contract!Next]_cvars
<1>1. ASSUME NEW c \in Calls, Begin(c) \/ Ingest(c) \/ ReadCatalogue(c) \/ Engine(c)
      PROVE  UNCHANGED cvars
  BY <1>1 DEF Begin, Ingest, ReadCatalogue, Engine, cvars, Failed
<1>2. ASSUME NEW c \in Calls, Lookup(c) PROVE [Contract!Next]_cvars
  <2>1. CASE RecordedRuns(c) = {}
    BY <1>2, <2>1 DEF Lookup, cvars, Failed
  <2>2. ASSUME NEW d \in RecordedRuns(c), Answer(c, "run", d) PROVE Contract!Answer(c)
    <3>1. d \in Calls /\ d \in results /\ SameOperation(c, d)
      BY DEF RecordedRuns, IInv, KeysAreLogged, TypeOK
    <3>2. UNCHANGED <<results, Failed>>
      BY <1>2 DEF Lookup, Failed
    <3> QED BY <1>2, <2>2, <3>1, <3>2, AnswerMaps DEF Lookup
  <2> QED BY <1>2, <2>1, <2>2 DEF Lookup, Contract!Next
<1>3. ASSUME NEW c \in Calls, Refuse(c) \/ LoseCatalogue(c) PROVE Contract!Answer(c)
  <2>1. c \notin results \cup Failed
    BY <1>3 DEF Refuse, LoseCatalogue, IInv, RunFollowsStep, ResultsMatchStatus, Failed
  <2>2. UNCHANGED <<results, Failed>>
    BY <1>3 DEF Refuse, LoseCatalogue, Failed
  <2> QED BY <1>3, <2>1, <2>2, AnswerMaps DEF Refuse, LoseCatalogue
<1>4. ASSUME NEW c \in Calls, Start(c) \/ StartRaises(c) PROVE [Contract!Next]_cvars
  <2>1. UNCHANGED <<results, Failed>>
    BY <1>4 DEF Start, StartRaises, StartRun, Failed, IInv, TypeOK, RunFollowsStep
  <2>2. CASE Start(c)
    BY <2>1, <2>2 DEF Start, cvars
  <2>3. CASE StartRaises(c)
    BY <2>1, <2>3, AnswerMaps DEF StartRaises, StartRun, Contract!Next
  <2> QED BY <1>4, <2>2, <2>3
<1>5. ASSUME NEW c \in Calls, Complete(c) PROVE Contract!Publish(c)
  BY <1>5, WriteMaps DEF Complete, Answer
<1>6. ASSUME NEW c \in Calls, CompleteRaises(c) PROVE [Contract!Next]_cvars
  <2>1. CASE WriteResults(c)
    BY <1>6, <2>1, WriteMaps DEF CompleteRaises, Contract!Next
  <2>2. CASE UNCHANGED <<status, results, logged>>
    BY <1>6, <2>2 DEF CompleteRaises, cvars, Failed
  <2> QED BY <1>6, <2>1, <2>2 DEF CompleteRaises
<1>7. ASSUME NEW c \in Calls, Reconcile(c) PROVE [Contract!Next]_cvars
  <2>1. UNCHANGED <<results, Failed>>
    BY <1>7 DEF Reconcile, Failed
  <2>2. CASE status[c] = "running"
    BY <1>7, <2>1, <2>2 DEF Reconcile, cvars
  <2>3. CASE status[c] = "succeeded"
    <3>1. c \in results
      BY <2>3 DEF IInv, ResultsMatchStatus
    <3> QED BY <1>7, <2>1, <2>3, <3>1, AnswerMaps DEF Reconcile, Contract!Next
  <2> QED BY <1>7, <2>2, <2>3 DEF Reconcile, IInv, RunFollowsStep
<1>8. ASSUME NEW c \in Calls, Fail(c) PROVE Contract!Fail(c)
  BY <1>8, FailMaps DEF Fail
<1>9. ASSUME NEW c \in Calls, FailRaises(c) PROVE [Contract!Next]_cvars
  <2>1. CASE status' = status
    <3>1. UNCHANGED <<results, Failed>>
      BY <1>9, <2>1 DEF FailRaises, Failed
    <3> QED BY <1>9, <3>1, AnswerMaps DEF FailRaises, Contract!Next
  <2>2. CASE status' = [status EXCEPT ![c] = "failed"]
    BY <1>9, <2>2, FailMaps DEF FailRaises, Contract!Next
  <2> QED BY <1>9, <2>1, <2>2 DEF FailRaises
<1>10. ASSUME NEW c \in Calls, ReconcileRaises(c) \/ Crash(c) PROVE Contract!Answer(c)
  <2>1. UNCHANGED <<results, Failed>>
    BY <1>10 DEF ReconcileRaises, Crash, Failed
  <2> QED BY <1>10, <2>1, AnswerMaps DEF ReconcileRaises, Crash, Active
<1>11. CASE UNCHANGED vars
  BY <1>11 DEF vars, cvars, Failed
<1> QED BY <1>1, <1>2, <1>3, <1>4, <1>5, <1>6, <1>7, <1>8, <1>9, <1>10, <1>11
        DEF Next, Work, Fault, Contract!Next

(* Whatever fails, the service keeps the promises of AnalysisContract.      *)
THEOREM ServiceImplementsContract == Spec => ServiceContract
<1>1. Init => Contract!Init
  BY DEF Init, Contract!Init, Failed, Pending, Contract!Pending
<1>2. IInv /\ [Next]_vars => [Contract!Next]_<<results, Failed, reply>>
  BY StepMaps DEF cvars
<1> QED BY <1>1, <1>2, Invariance, PTL DEF Spec, ServiceContract, Contract!Spec
=============================================================================
