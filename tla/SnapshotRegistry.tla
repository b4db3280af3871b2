-------------------------- MODULE SnapshotRegistry --------------------------
(***************************************************************************)
(* What snapshot ingestion promises, whatever fails on the way: uploads of  *)
(* one workbook share one snapshot unless a new one is forced, an answer    *)
(* that names a snapshot names a registered one of the same workbook, and   *)
(* an upload that was refused has none, then and ever after.                *)
(***************************************************************************)
CONSTANTS Uploads, Books

VARIABLES
  wanted, \* upload: the workbook and whether a new snapshot is forced
  rows,   \* uploads whose snapshot is registered
  reply   \* upload: the kind of answer and the snapshot it names

NotSent == [book |-> "none", forced |-> FALSE]
Wishes == [book : Books, forced : BOOLEAN]
Pending(u) == [kind |-> "pending", names |-> u]

Shared(u) ==
  {v \in rows : ~wanted[v].forced /\ ~wanted[u].forced /\ wanted[v].book = wanted[u].book}

Init ==
  /\ wanted = [u \in Uploads |-> NotSent]
  /\ rows = {}
  /\ reply = [u \in Uploads |-> Pending(u)]

Send(u, w) ==
  /\ wanted[u] = NotSent
  /\ wanted' = [wanted EXCEPT ![u] = w]
  /\ UNCHANGED <<rows, reply>>

(* The snapshot of u appears, before u is answered or with the answer.      *)
Register(u) ==
  /\ wanted[u] # NotSent
  /\ u \notin rows
  /\ Shared(u) = {}
  /\ reply[u].kind = "pending"
  /\ rows' = rows \cup {u}
  /\ reply' \in {reply, [reply EXCEPT ![u] = [kind |-> "created", names |-> u]]}
  /\ UNCHANGED wanted

Answers(u) ==
  {[kind |-> "created", names |-> v] : v \in rows \cap {u}}
  \cup {[kind |-> "deduplicated", names |-> v] : v \in Shared(u) \ {u}}
  \cup {[kind |-> "refused", names |-> v] : v \in {u} \ rows}
  \cup {[kind |-> "unknown", names |-> u]}

Answer(u) ==
  /\ wanted[u] # NotSent
  /\ reply[u].kind = "pending"
  /\ \E a \in Answers(u) : reply' = [reply EXCEPT ![u] = a]
  /\ UNCHANGED <<wanted, rows>>

Next ==
  \E u \in Uploads :
    \/ \E w \in Wishes : Send(u, w)
    \/ Register(u)
    \/ Answer(u)

Spec == Init /\ [][Next]_<<wanted, rows, reply>>
=============================================================================
