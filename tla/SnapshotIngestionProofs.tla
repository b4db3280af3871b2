---------------------- MODULE SnapshotIngestionProofs ----------------------
(***************************************************************************)
(* Proofs about SnapshotIngestion, for every number of uploads and under    *)
(* every fault the model has.                                               *)
(*                                                                          *)
(* Each upload moves its own row and object only, so all but one part of    *)
(* the inductive invariant speak of one upload: which steps it can be at    *)
(* with an object, with a row and with an answer.  The remaining part says  *)
(* that a dedupe key is held by one upload, in an open transaction or in a  *)
(* committed row.                                                           *)
(***************************************************************************)
EXTENDS SnapshotIngestion, TLAPS

(* When an upload has a row, and when it has an object.                     *)
RowAfterCommit ==
  \A u \in Uploads : u \in Rows => pc[u] \in {"reconcile", "done"} /\ u \in stored

ObjectFromPutToDelete ==
  \A u \in Uploads :
    /\ pc[u] \in {"insert", "fill", "commit", "reconcile"} => u \in stored
    /\ pc[u] \in {"idle", "lookup", "put", "winner"} => u \notin stored

(* An answer is given at the end, and it is true of the upload itself.      *)
AnsweredAtEnd ==
  \A u \in Uploads :
    /\ reply[u].kind = "pending" <=> pc[u] # "done"
    /\ pc[u] # "done" => reply[u] = Pending(u)
    /\ pc[u] = "idle" <=> wanted[u] = NotSent
    /\ reply[u].kind = "created" => u \in Rows
    /\ reply[u].kind = "refused" => u \notin Rows /\ u \notin stored
    /\ reply[u].kind = "deduplicated" => u \notin Rows /\ u \notin stored

(* A dedupe key has one holder.                                             *)
Holders == Open \cup Rows
KeysAreExclusive == \A u, v \in Holders : ~SameKey(u, v)

IInv ==
  /\ TypeOK
  /\ RowAfterCommit
  /\ ObjectFromPutToDelete
  /\ AnsweredAtEnd
  /\ KeysAreExclusive
-----------------------------------------------------------------------------
(* Every step keeps the shape of the state.                                 *)
LEMMA TypeStep ==
  ASSUME TypeOK, [Next]_vars
  PROVE  TypeOK'
<1> USE DEF TypeOK, Goto, Answer, Steps, Kinds
<1>1. ASSUME NEW u \in Uploads, NEW w \in Wishes, Begin(u, w) PROVE TypeOK'
  BY <1>1 DEF Begin
<1>2. ASSUME NEW u \in Uploads, Refuse(u) PROVE TypeOK'
  BY <1>2 DEF Refuse
<1>3. ASSUME NEW u \in Uploads, Work(u) PROVE TypeOK'
  <2>1. CASE Lookup(u)
    BY <2>1 DEF Lookup, Duplicates, Rows
  <2>2. CASE Put(u) \/ Insert(u) \/ Fill(u)
    BY <2>2 DEF Put, Insert, Fill
  <2>3. CASE Commit(u)
    BY <2>3 DEF Commit, Outcome, COMPLETED_SNAPSHOT_STATUSES
  <2>4. CASE Reconcile(u) \/ Delete(u)
    BY <2>4, SMTT(40) DEF Reconcile, Delete
  <2>5. CASE FindWinner(u)
    BY <2>5 DEF FindWinner, Duplicates, Rows
  <2> QED BY <1>3, <2>1, <2>2, <2>3, <2>4, <2>5 DEF Work
<1>4. ASSUME NEW u \in Uploads, Fault(u) PROVE TypeOK'
  <2>1. CASE PutRaises(u) \/ DeleteRaises(u)
    BY <2>1 DEF PutRaises, DeleteRaises
  <2>2. CASE WriteRaises(u) \/ ReconcileRaises(u) \/ Crash(u)
    BY <2>2 DEF WriteRaises, ReconcileRaises, Crash
  <2>3. CASE CommitRaises(u)
    BY <2>3 DEF CommitRaises, Outcome, COMPLETED_SNAPSHOT_STATUSES
  <2> QED BY <1>4, <2>1, <2>2, <2>3 DEF Fault
<1>5. CASE UNCHANGED vars
  BY <1>5 DEF vars
<1> QED BY <1>1, <1>2, <1>3, <1>4, <1>5 DEF Next

(* The parts of the invariant that speak of one upload.                     *)
Local == RowAfterCommit /\ ObjectFromPutToDelete /\ AnsweredAtEnd

(* They are kept by every step: one of u disturbs those of u alone.         *)
LEMMA LocalStep ==
  ASSUME TypeOK, Local, [Next]_vars
  PROVE  Local'
<1> USE DEF TypeOK, Local, RowAfterCommit, ObjectFromPutToDelete, AnsweredAtEnd, Rows,
            Pending, Goto, Answer, Steps
<1>1. ASSUME NEW u \in Uploads, NEW w \in Wishes, Begin(u, w) PROVE Local'
  <2>1. w # NotSent
    BY IngestionAssumption DEF Wishes, NotSent
  <2> QED BY <1>1, <2>1 DEF Begin
<1>2. ASSUME NEW u \in Uploads, Refuse(u) PROVE Local'
  BY <1>2 DEF Refuse
<1>3. ASSUME NEW u \in Uploads, Work(u) PROVE Local'
  <2>1. CASE Lookup(u)
    BY <2>1 DEF Lookup
  <2>2. CASE Put(u)
    BY <2>2 DEF Put
  <2>3. CASE Insert(u) \/ Fill(u)
    BY <2>3, SMTT(40) DEF Insert, Fill
  <2>4. CASE Commit(u)
    BY <2>4 DEF Commit, Outcome
  <2>5. CASE Reconcile(u)
    BY <2>5, SMTT(40) DEF Reconcile
  <2>6. CASE Delete(u)
    BY <2>6 DEF Delete
  <2>7. CASE FindWinner(u)
    BY <2>7 DEF FindWinner
  <2> QED BY <1>3, <2>1, <2>2, <2>3, <2>4, <2>5, <2>6, <2>7 DEF Work
<1>4. ASSUME NEW u \in Uploads, Fault(u) PROVE Local'
  <2>1. CASE PutRaises(u)
    BY <2>1 DEF PutRaises
  <2>2. CASE WriteRaises(u)
    BY <2>2 DEF WriteRaises
  <2>3. CASE CommitRaises(u)
    BY <2>3 DEF CommitRaises, Outcome
  <2>4. CASE ReconcileRaises(u) \/ Crash(u)
    BY <2>4 DEF ReconcileRaises, Crash
  <2>5. CASE DeleteRaises(u)
    BY <2>5 DEF DeleteRaises
  <2> QED BY <1>4, <2>1, <2>2, <2>3, <2>4, <2>5 DEF Fault
<1>5. CASE UNCHANGED vars
  BY <1>5 DEF vars
<1> QED BY <1>1, <1>2, <1>3, <1>4, <1>5 DEF Next

(* Whoever holds a key after a step held it before with the same wish, or   *)
(* has just inserted it where nobody else holds it.                         *)
LEMMA HoldersStep ==
  ASSUME TypeOK, Local, [Next]_vars, NEW v \in Holders'
  PROVE  /\ wanted'[v] = wanted[v]
         /\ \/ v \in Holders
            \/ Insert(v) /\ pc'[v] = "fill"
<1> USE DEF TypeOK, Local, RowAfterCommit, Rows, Holders, Open, Goto, Answer
<1>1. ASSUME NEW u \in Uploads, NEW w \in Wishes, Begin(u, w)
      PROVE  wanted'[v] = wanted[v] /\ v \in Holders
  BY <1>1 DEF Begin
<1>2. ASSUME NEW u \in Uploads, Refuse(u)
      PROVE  wanted'[v] = wanted[v] /\ v \in Holders
  BY <1>2 DEF Refuse
<1>3. ASSUME NEW u \in Uploads, Work(u)
      PROVE  /\ wanted'[v] = wanted[v]
             /\ v \in Holders \/ (Insert(v) /\ pc'[v] = "fill")
  <2>1. CASE Insert(u)
    BY <2>1 DEF Insert
  <2>2. CASE Lookup(u) \/ Put(u) \/ Reconcile(u) \/ Delete(u) \/ FindWinner(u)
    BY <2>2 DEF Lookup, Put, Reconcile, Delete, FindWinner
  <2>3. CASE Fill(u) \/ Commit(u)
    BY <2>3 DEF Fill, Commit
  <2> QED BY <1>3, <2>1, <2>2, <2>3 DEF Work
<1>4. ASSUME NEW u \in Uploads, Fault(u)
      PROVE  wanted'[v] = wanted[v] /\ v \in Holders
  <2>1. CASE CommitRaises(u)
    BY <2>1 DEF CommitRaises
  <2>2. CASE PutRaises(u) \/ WriteRaises(u) \/ ReconcileRaises(u) \/ DeleteRaises(u)
             \/ Crash(u)
    BY <2>2 DEF PutRaises, WriteRaises, ReconcileRaises, DeleteRaises, Crash
  <2> QED BY <1>4, <2>1, <2>2 DEF Fault
<1>5. CASE UNCHANGED vars
  BY <1>5 DEF vars
<1> QED BY <1>1, <1>2, <1>3, <1>4, <1>5 DEF Next

(* An upload inserts its key only where nobody holds it.                    *)
LEMMA InsertFindsKeyFree ==
  ASSUME TypeOK, NEW u \in Uploads, Insert(u), pc'[u] = "fill", NEW v \in Holders
  PROVE  ~SameKey(u, v) /\ ~SameKey(v, u)
<1>1. ~Blocked(u) /\ Duplicates(u) = {}
  BY DEF Insert, Goto, TypeOK
<1>2. ~SameKey(u, v)
  BY <1>1 DEF Blocked, Duplicates, Holders
<1> QED BY <1>2 DEF SameKey

(* The index keeps its keys unique.                                         *)
LEMMA KeysStep ==
  ASSUME TypeOK, Local, KeysAreExclusive, [Next]_vars
  PROVE  KeysAreExclusive'
<1> SUFFICES ASSUME NEW u \in Holders', NEW v \in Holders'
             PROVE  ~SameKey(u, v)'
  BY DEF KeysAreExclusive
<1>1. wanted'[u] = wanted[u] /\ wanted'[v] = wanted[v]
  BY HoldersStep
<1>2. u \in Uploads /\ v \in Uploads
  BY DEF Holders, Open, Rows
<1>3. CASE u \in Holders /\ v \in Holders
  BY <1>1, <1>3 DEF KeysAreExclusive, SameKey
<1>4. CASE Insert(u) /\ pc'[u] = "fill" /\ v \in Holders
  BY <1>1, <1>2, <1>4, InsertFindsKeyFree DEF SameKey
<1>5. CASE Insert(v) /\ pc'[v] = "fill" /\ u \in Holders
  BY <1>1, <1>2, <1>5, InsertFindsKeyFree DEF SameKey
<1>6. CASE Insert(u) /\ pc'[u] = "fill" /\ Insert(v) /\ pc'[v] = "fill"
  <2>1. u = v
    BY <1>2, <1>6 DEF Insert, Goto, TypeOK
  <2> QED BY <2>1 DEF SameKey
<1> QED BY <1>3, <1>4, <1>5, <1>6, HoldersStep

(* The invariant holds throughout.                                          *)
LEMMA Invariance == Spec => []IInv
<1>1. ASSUME Init PROVE IInv
  <2>1. TypeOK
    BY <1>1 DEF Init, TypeOK, Steps, Kinds, Pending
  <2>2. RowAfterCommit /\ ObjectFromPutToDelete /\ KeysAreExclusive
    BY <1>1 DEF Init, RowAfterCommit, ObjectFromPutToDelete, KeysAreExclusive, Holders,
       Open, Rows
  <2>3. AnsweredAtEnd
    BY <1>1 DEF Init, AnsweredAtEnd, Pending
  <2> QED BY <2>1, <2>2, <2>3 DEF IInv
<1>2. IInv /\ [Next]_vars => IInv'
  BY TypeStep, LocalStep, KeysStep DEF IInv, Local
<1> QED BY <1>1, <1>2, PTL DEF Spec

(* The state keeps its shape.                                               *)
THEOREM TypeCorrect == Spec => []TypeOK
<1>1. IInv => TypeOK
  BY DEF IInv
<1> QED BY <1>1, Invariance, PTL

(* A committed snapshot always has its workbook in the object store.        *)
THEOREM SnapshotsHaveTheirSource == Spec => []SnapshotHasSource
<1>1. IInv => SnapshotHasSource
  BY DEF IInv, RowAfterCommit, SnapshotHasSource, Rows
<1> QED BY <1>1, Invariance, PTL

(* An upload that was told its outcome leaves an object exactly if it has a *)
(* snapshot.                                                                *)
THEOREM NoObjectIsLeftBehind == Spec => []NothingLeftBehind
<1>1. IInv => NothingLeftBehind
  BY DEF IInv, RowAfterCommit, AnsweredAtEnd, NothingLeftBehind
<1> QED BY <1>1, Invariance, PTL
-----------------------------------------------------------------------------
(***************************************************************************)
(* The contract: ingestion implements SnapshotRegistry.                     *)
(***************************************************************************)
rvars == <<wanted, Rows, reply>>

(* A step that only answers u is an Answer of the registry.                 *)
LEMMA AnswerMaps ==
  ASSUME IInv, NEW u \in Uploads, pc[u] \notin {"idle", "done"},
         NEW k, NEW v \in Uploads, Answer(u, k, v), UNCHANGED <<wanted, snapshot>>,
         \/ k = "created" /\ v = u /\ u \in Rows
         \/ k = "deduplicated" /\ v \in Duplicates(u)
         \/ k = "refused" /\ v = u /\ u \notin Rows
         \/ k = "unknown" /\ v = u
  PROVE  Registry!Answer(u)
<1> DEFINE a == [kind |-> k, names |-> v]
<1>1. wanted[u] # Registry!NotSent /\ reply[u].kind = "pending"
  BY DEF IInv, AnsweredAtEnd, NotSent, NoBook, Registry!NotSent
<1>2. a \in Registry!Answers(u)
  BY DEF Registry!Answers, Registry!Shared, Duplicates, SameKey
<1>3. reply' = [reply EXCEPT ![u] = a]
  BY DEF Answer
<1>4. Rows' = Rows
  BY DEF Rows
<1> QED BY <1>1, <1>2, <1>3, <1>4 DEF Registry!Answer

(* The COMMIT of u registers its snapshot, answered at once or not yet.     *)
LEMMA CommitMaps ==
  ASSUME IInv, NEW u \in Uploads, pc[u] = "commit",
         snapshot' = [snapshot EXCEPT ![u] = Outcome(u)], UNCHANGED wanted,
         reply' \in {reply, [reply EXCEPT ![u] = [kind |-> "created", names |-> u]]}
  PROVE  Registry!Register(u)
<1>1. wanted[u] # Registry!NotSent /\ reply[u].kind = "pending"
  BY DEF IInv, AnsweredAtEnd, NotSent, NoBook, Registry!NotSent
<1>2. u \notin Rows
  BY DEF IInv, RowAfterCommit
<1>3. Rows' = Rows \cup {u}
  BY DEF Rows, Outcome, IInv, TypeOK
<1>4. Registry!Shared(u) = {}
  BY <1>2 DEF Registry!Shared, IInv, KeysAreExclusive, Holders, Open, SameKey, Rows
<1> QED BY <1>1, <1>2, <1>3, <1>4 DEF Registry!Register

(* Every step of ingestion is a step of the registry, or changes nothing    *)
(* the registry sees.                                                       *)
LEMMA StepMaps ==
  ASSUME IInv, [Next]_vars
  PROVE  [Registry!Next]_rvars
<1>1. ASSUME NEW u \in Uploads, NEW w \in Wishes, Begin(u, w)
      PROVE  Registry!Send(u, w) /\ w \in Registry!Wishes
  <2>1. wanted[u] = Registry!NotSent
    BY <1>1 DEF Begin, IInv, AnsweredAtEnd, NotSent, NoBook, Registry!NotSent
  <2>2. Rows' = Rows
    BY <1>1 DEF Begin, Rows
  <2> QED BY <1>1, <2>1, <2>2 DEF Begin, Registry!Send, Wishes, Registry!Wishes
<1>2. ASSUME NEW u \in Uploads, Refuse(u) PROVE Registry!Answer(u)
  <2>1. u \notin Rows
    BY <1>2 DEF Refuse, IInv, RowAfterCommit
  <2> QED BY <1>2, <2>1, AnswerMaps DEF Refuse
<1>3. ASSUME NEW u \in Uploads, Work(u) PROVE [Registry!Next]_rvars
  <2>1. CASE Lookup(u)
    <3>1. CASE Duplicates(u) = {}
      BY <2>1, <3>1 DEF Lookup, rvars, Rows
    <3>2. ASSUME NEW v \in Duplicates(u), Answer(u, "deduplicated", v)
          PROVE  Registry!Answer(u)
      <4>1. v \in Uploads
        BY DEF Duplicates, Rows
      <4> QED BY <2>1, <3>2, <4>1, AnswerMaps DEF Lookup
    <3> QED BY <2>1, <3>1, <3>2 DEF Lookup, Registry!Next
  <2>2. CASE Put(u) \/ Insert(u) \/ Fill(u)
    BY <2>2 DEF Put, Insert, Fill, rvars, Rows
  <2>3. CASE Commit(u)
    <3>1. Registry!Register(u)
      BY <2>3, CommitMaps DEF Commit, Answer
    <3> QED BY <3>1 DEF Registry!Next
  <2>4. CASE Reconcile(u)
    <3>1. CASE u \in Rows
      BY <2>4, <3>1, AnswerMaps DEF Reconcile, Registry!Next
    <3>2. CASE u \notin Rows
      BY <2>4, <3>2 DEF Reconcile, rvars, Rows
    <3> QED BY <3>1, <3>2
  <2>5. CASE Delete(u)
    <3>1. CASE pc[u] = "delete"
      <4>1. u \notin Rows
        BY <3>1 DEF IInv, RowAfterCommit
      <4> QED BY <2>5, <3>1, <4>1, AnswerMaps DEF Delete, Registry!Next
    <3>2. CASE pc[u] # "delete"
      BY <2>5, <3>2 DEF Delete, rvars, Rows
    <3> QED BY <3>1, <3>2
  <2>6. CASE FindWinner(u)
    <3>1. u \notin Rows
      BY <2>6 DEF FindWinner, IInv, RowAfterCommit
    <3>2. ASSUME NEW v \in Duplicates(u), Answer(u, "deduplicated", v)
          PROVE  Registry!Answer(u)
      <4>1. v \in Uploads
        BY DEF Duplicates, Rows
      <4> QED BY <2>6, <3>2, <4>1, AnswerMaps DEF FindWinner
    <3>3. CASE Answer(u, "refused", u)
      BY <2>6, <3>1, <3>3, AnswerMaps DEF FindWinner, Registry!Next
    <3> QED BY <2>6, <3>2, <3>3 DEF FindWinner, Registry!Next
  <2> QED BY <1>3, <2>1, <2>2, <2>3, <2>4, <2>5, <2>6 DEF Work
<1>4. ASSUME NEW u \in Uploads, Fault(u) PROVE [Registry!Next]_rvars
  <2>1. CASE PutRaises(u) \/ ReconcileRaises(u) \/ DeleteRaises(u) \/ Crash(u)
    BY <2>1, AnswerMaps DEF PutRaises, ReconcileRaises, DeleteRaises, Crash, Registry!Next
  <2>2. CASE WriteRaises(u)
    BY <2>2 DEF WriteRaises, rvars, Rows
  <2>3. CASE CommitRaises(u)
    <3>1. CASE UNCHANGED snapshot
      BY <2>3, <3>1 DEF CommitRaises, rvars, Rows
    <3>2. CASE snapshot' = [snapshot EXCEPT ![u] = Outcome(u)]
      BY <2>3, <3>2, CommitMaps DEF CommitRaises, Registry!Next
    <3> QED BY <2>3, <3>1, <3>2 DEF CommitRaises
  <2> QED BY <1>4, <2>1, <2>2, <2>3 DEF Fault
<1>5. CASE UNCHANGED vars
  BY <1>5 DEF vars, rvars, Rows
<1> QED BY <1>1, <1>2, <1>3, <1>4, <1>5 DEF Next, Registry!Next

(* Whatever fails, ingestion keeps the promises of SnapshotRegistry.        *)
THEOREM IngestionImplementsRegistry == Spec => RegistryContract
<1>1. Init => Registry!Init
  BY DEF Init, Registry!Init, Rows, Pending, Registry!Pending, NotSent, NoBook,
     Registry!NotSent
<1>2. IInv /\ [Next]_vars => [Registry!Next]_<<wanted, Rows, reply>>
  BY StepMaps DEF rvars
<1> QED BY <1>1, <1>2, Invariance, PTL DEF Spec, RegistryContract, Registry!Spec
=============================================================================
