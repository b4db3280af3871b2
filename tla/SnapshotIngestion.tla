------------------------- MODULE SnapshotIngestion -------------------------
(***************************************************************************)
(* SnapshotIngestionService.ingest: an uploaded workbook becomes a stored   *)
(* object and a snapshot with its rows, or is found to be a duplicate.      *)
(*                                                                          *)
(* The snapshot and all its rows are written in one transaction, which also *)
(* holds the dedupe key in a unique index: no other session sees the status *)
(* ingesting, and a session that inserts the same key waits for the end of  *)
(* the transaction.  The object is put before it and is not part of it.     *)
(*                                                                          *)
(* Every upload has an identity of its own, which stands for the ids of its *)
(* snapshot, source file and stored object: all are fresh UUIDs.            *)
(***************************************************************************)
EXTENDS Naturals

CONSTANTS
  Uploads,        \* calls of ingest
  Books,          \* workbook contents, under one mapping profile
  Flawed,         \* contents whose mapping reports errors
  StorageFails,   \* may a call of the object store raise?
  DatabaseFails   \* may a statement or a COMMIT raise?

NoBook == "none"

ASSUME IngestionAssumption ==
  /\ NoBook \notin Books
  /\ Flawed \subseteq Books
  /\ StorageFails \in BOOLEAN
  /\ DatabaseFails \in BOOLEAN

VARIABLES
  pc,       \* upload: the next step of ingest
  wanted,   \* upload: the workbook and force_new
  snapshot, \* upload: the status of its committed snapshot, or none
  stored,   \* uploads whose object is in the store
  reply     \* upload: the outcome and the snapshot it names

vars == <<pc, wanted, snapshot, stored, reply>>

NotSent == [book |-> NoBook, forced |-> FALSE]
Wishes == [book : Books, forced : BOOLEAN]
Pending(u) == [kind |-> "pending", names |-> u]

COMPLETED_SNAPSHOT_STATUSES == {"validated", "validated_with_errors"}
Steps == {"idle", "lookup", "put", "insert", "fill", "commit", "reconcile",
          "delete", "conflict", "winner", "done"}
Kinds == {"pending", "created", "deduplicated", "refused", "unknown"}

TypeOK ==
  /\ pc \in [Uploads -> Steps]
  /\ wanted \in [Uploads -> Wishes \cup {NotSent}]
  /\ snapshot \in [Uploads -> COMPLETED_SNAPSHOT_STATUSES \cup {"none"}]
  /\ stored \subseteq Uploads
  /\ reply \in [Uploads -> [kind : Kinds, names : Uploads]]

Init ==
  /\ pc = [u \in Uploads |-> "idle"]
  /\ wanted = [u \in Uploads |-> NotSent]
  /\ snapshot = [u \in Uploads |-> "none"]
  /\ stored = {}
  /\ reply = [u \in Uploads |-> Pending(u)]
-----------------------------------------------------------------------------
Rows == {u \in Uploads : snapshot[u] # "none"}

(* Mutant of SameKey: force_new is forgotten when the key is computed.      *)
SameBook(u, v) == u # v /\ wanted[u].book = wanted[v].book

(* Two uploads carry one dedupe key; a forced one carries none.             *)
SameKey(u, v) ==
  /\ u # v
  /\ wanted[u].book = wanted[v].book
  /\ ~wanted[u].forced /\ ~wanted[v].forced

(* find_duplicate.                                                          *)
Duplicates(u) == {v \in Rows : SameKey(u, v)}

(* The unique index: a key in an open transaction, or in a committed row.   *)
Open == {v \in Uploads : pc[v] \in {"fill", "commit"}}
Blocked(u) == \E v \in Open : SameKey(u, v)

(* _complete_mapped.                                                        *)
Outcome(u) == IF wanted[u].book \in Flawed THEN "validated_with_errors" ELSE "validated"

Goto(u, step) == pc' = [pc EXCEPT ![u] = step]
Answer(u, k, v) ==
  /\ Goto(u, "done")
  /\ reply' = [reply EXCEPT ![u] = [kind |-> k, names |-> v]]
-----------------------------------------------------------------------------
Begin(u, w) ==
  /\ pc[u] = "idle"
  /\ Goto(u, "lookup")
  /\ wanted' = [wanted EXCEPT ![u] = w]
  /\ UNCHANGED <<snapshot, stored, reply>>

(* The workbook, its metadata or its project is not accepted, or a          *)
(* statement raises: nothing has been written yet.                          *)
Refuse(u) ==
  /\ pc[u] \in {"lookup", "put"}
  /\ Answer(u, "refused", u)
  /\ UNCHANGED <<wanted, snapshot, stored>>

(* The mapping profile is resolved and a duplicate is returned.             *)
Lookup(u) ==
  /\ pc[u] = "lookup"
  /\ IF Duplicates(u) = {}
       THEN Goto(u, "put") /\ UNCHANGED reply
       ELSE \E v \in Duplicates(u) : Answer(u, "deduplicated", v)
  /\ UNCHANGED <<wanted, snapshot, stored>>

Put(u) ==
  /\ pc[u] = "put"
  /\ stored' = stored \cup {u}
  /\ Goto(u, "insert")
  /\ UNCHANGED <<wanted, snapshot, reply>>

(* put is outside the try block: an object it left is not removed.          *)
PutRaises(u) ==
  /\ pc[u] = "put"
  /\ StorageFails
  /\ stored' \in {stored, stored \cup {u}}
  /\ Answer(u, "unknown", u)
  /\ UNCHANGED <<wanted, snapshot>>

(* Mutant of Insert: a conflict is waited out.                              *)
InsertWaiting(u) ==
  /\ pc[u] = "insert"
  /\ ~Blocked(u) /\ Duplicates(u) = {}
  /\ Goto(u, "fill")
  /\ UNCHANGED <<wanted, snapshot, stored, reply>>

(* create_ingesting: the row and its key, which another session may hold.   *)
Insert(u) ==
  /\ pc[u] = "insert"
  /\ ~Blocked(u)
  /\ Goto(u, IF Duplicates(u) = {} THEN "fill" ELSE "conflict")
  /\ UNCHANGED <<wanted, snapshot, stored, reply>>

(* persist_raw_rows, persist_canonical_rows, storage.exists and complete.   *)
Fill(u) ==
  /\ pc[u] = "fill"
  /\ Goto(u, IF u \in stored THEN "commit" ELSE "reconcile")
  /\ UNCHANGED <<wanted, snapshot, stored, reply>>

(* Any exception before the COMMIT rolls the transaction back.  Until       *)
(* create_ingesting returns there is no snapshot id to reconcile.           *)
WriteRaises(u) ==
  /\ \/ DatabaseFails /\ pc[u] = "insert" /\ Goto(u, "delete")
     \/ DatabaseFails /\ pc[u] = "fill" /\ Goto(u, "reconcile")
     \/ StorageFails /\ pc[u] = "fill" /\ Goto(u, "reconcile")
  /\ UNCHANGED <<wanted, snapshot, stored, reply>>

Commit(u) ==
  /\ pc[u] = "commit"
  /\ snapshot' = [snapshot EXCEPT ![u] = Outcome(u)]
  /\ Answer(u, "created", u)
  /\ UNCHANGED <<wanted, stored>>

(* The COMMIT raises: it was refused, or it took effect and its reply was   *)
(* lost.                                                                    *)
CommitRaises(u) ==
  /\ pc[u] = "commit"
  /\ DatabaseFails
  /\ snapshot' \in {snapshot, [snapshot EXCEPT ![u] = Outcome(u)]}
  /\ Goto(u, "reconcile")
  /\ UNCHANGED <<wanted, stored, reply>>
-----------------------------------------------------------------------------
(* After an exception.                                                      *)

(* Mutant of Reconcile: the object is removed without looking.              *)
Presume(u) ==
  /\ pc[u] = "reconcile"
  /\ Goto(u, "delete")
  /\ UNCHANGED <<wanted, snapshot, stored, reply>>

(* _reconcile_commit_outcome: the snapshot is there after all, or it is not *)
(* and the object goes.                                                     *)
Reconcile(u) ==
  /\ pc[u] = "reconcile"
  /\ IF u \in Rows THEN Answer(u, "created", u)
                   ELSE Goto(u, "delete") /\ UNCHANGED reply
  /\ UNCHANGED <<wanted, snapshot, stored>>

(* snapshot_commit_outcome_unknown: the object stays.                       *)
ReconcileRaises(u) ==
  /\ pc[u] = "reconcile"
  /\ DatabaseFails
  /\ Answer(u, "unknown", u)
  /\ UNCHANGED <<wanted, snapshot, stored>>

(* Mutant of Delete: the loser of a conflict keeps its object.              *)
KeepOnConflict(u) ==
  /\ pc[u] \in {"delete", "conflict"}
  /\ IF pc[u] = "delete" THEN stored' = stored \ {u} /\ Answer(u, "refused", u)
                         ELSE Goto(u, "winner") /\ UNCHANGED <<stored, reply>>
  /\ UNCHANGED <<wanted, snapshot>>

Delete(u) ==
  /\ pc[u] \in {"delete", "conflict"}
  /\ stored' = stored \ {u}
  /\ IF pc[u] = "delete" THEN Answer(u, "refused", u)
                         ELSE Goto(u, "winner") /\ UNCHANGED reply
  /\ UNCHANGED <<wanted, snapshot>>

DeleteRaises(u) ==
  /\ pc[u] \in {"delete", "conflict"}
  /\ StorageFails
  /\ stored' \in {stored, stored \ {u}}
  /\ Answer(u, "unknown", u)
  /\ UNCHANGED <<wanted, snapshot>>

(* The snapshot whose key was in the way; if it is gone, or the statement   *)
(* raises, so does ingest.                                                  *)
FindWinner(u) ==
  /\ pc[u] = "winner"
  /\ \/ \E v \in Duplicates(u) : Answer(u, "deduplicated", v)
     \/ (Duplicates(u) = {} \/ DatabaseFails) /\ Answer(u, "refused", u)
  /\ UNCHANGED <<wanted, snapshot, stored>>

(* The process dies: an open transaction is rolled back.                    *)
Crash(u) ==
  /\ pc[u] \notin {"idle", "done"}
  /\ Answer(u, "unknown", u)
  /\ UNCHANGED <<wanted, snapshot, stored>>
-----------------------------------------------------------------------------
Work(u) ==
  \/ Lookup(u) \/ Put(u) \/ Insert(u) \/ Fill(u) \/ Commit(u)
  \/ Reconcile(u) \/ Delete(u) \/ FindWinner(u)

Fault(u) ==
  \/ PutRaises(u) \/ WriteRaises(u) \/ CommitRaises(u) \/ ReconcileRaises(u)
  \/ DeleteRaises(u) \/ Crash(u)

Next ==
  \E u \in Uploads :
    \/ \E w \in Wishes : Begin(u, w)
    \/ Refuse(u) \/ Work(u) \/ Fault(u)

(* A call that has begun goes on.                                           *)
Fairness == \A u \in Uploads : WF_vars(Work(u))

Spec == Init /\ [][Next]_vars
FairSpec == Spec /\ Fairness
-----------------------------------------------------------------------------
(* Storage and database agree, although no transaction spans them.          *)

(* A snapshot always has its workbook: an exception after the COMMIT must   *)
(* not take the object away.                                                *)
SnapshotHasSource == Rows \subseteq stored

(* An upload that was told its outcome leaves an object exactly if it has a *)
(* snapshot: neither a duplicate nor a refusal leaves one behind.           *)
NothingLeftBehind ==
  \A u \in Uploads : reply[u].kind \in {"created", "deduplicated", "refused"} =>
    (u \in stored <=> u \in Rows)

(* The contract of ingestion.                                               *)
Registry == INSTANCE SnapshotRegistry WITH rows <- Rows
RegistryContract == Registry!Spec

(* Uploads of one workbook that race for its key are all answered.          *)
EveryUploadIsAnswered == \A u \in Uploads : pc[u] # "idle" ~> pc[u] = "done"
=============================================================================
