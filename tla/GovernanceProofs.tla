-------------------------- MODULE GovernanceProofs --------------------------
(***************************************************************************)
(* Proofs about FindingClosure, FindingEscalations and GovernanceHistory    *)
(* for every set of clients, scanners, actions and users and any number of  *)
(* approvals, with any number of requests and scans that overlap.  First    *)
(* the closure alone, then the composition with the scan, of which all that *)
(* holds of the closure holds too (ScansOnlyRead), then the history, of     *)
(* which all that holds of the composition holds too (HistoryOnlyRecords).  *)
(***************************************************************************)
EXTENDS GovernanceHistory, TLAPS

(* The kinds of requests, told apart by their op.                           *)
LEMMA RequestKinds ==
  ASSUME TypeOK, NEW c \in Clients
  PROVE  /\ request[c].op \in {"close", "closing"} =>
              request[c] \in [op : {"close", "closing"}, seen : VALID_STATUSES]
         /\ request[c].op \in {"ask", "asking"} =>
              request[c] \in [op : {"ask", "asking"}, user : Users, rank : Ranks,
                              seen : SUBSET Ranks, pending : BOOLEAN]
         /\ request[c].op = "inserting" =>
              request[c] \in [op : {"inserting"}, user : Users, rank : Ranks]
         /\ Asking(c) => request[c].user \in Users /\ request[c].rank \in Ranks
         /\ request[c].op = "decide" =>
              request[c] \in [op : {"decide"}, user : Users, rank : Ranks,
                              to : Decisions]
<1>1. request[c] \in Requests
  BY DEF TypeOK
<1> QED BY <1>1 DEF Requests, Idle, Asking

(* What the two ends of a request do to the table of requests.              *)
LEMMA BeginRequest ==
  ASSUME TypeOK, NEW c \in Clients, NEW q \in Requests, Begin(c, q)
  PROVE  /\ request' \in [Clients -> Requests]
         /\ request'[c] = q
         /\ \A d \in Clients : d # c => request'[d] = request[d]
BY DEF TypeOK, Begin

LEMMA EndRequest ==
  ASSUME TypeOK, NEW c \in Clients, End(c)
  PROVE  /\ request' \in [Clients -> Requests]
         /\ request'[c] = Idle
         /\ \A d \in Clients : d # c => request'[d] = request[d]
BY DEF TypeOK, End, Requests

(***************************************************************************)
(* The requests that touch approvals and the rows agree: a decision is      *)
(* under way only on a row, by a manager who did not ask for it, and a row  *)
(* about to be inserted has a place of its own.  TypeOK is not inductive    *)
(* without this: the decision on a row that does not exist would make one   *)
(* without a requester.                                                     *)
(***************************************************************************)
DecidesOnRow ==
  \A c \in Clients : request[c].op = "decide" =>
    /\ request[c].rank \in Inserted
    /\ request[c].user \in Managers \ {approvals[request[c].rank].by}

RankIsFree ==
  \A c \in Clients : Asking(c) => request[c].rank \notin Inserted

RankIsOwn ==
  \A c, d \in Clients :
    Asking(c) /\ Asking(d) /\ request[c].rank = request[d].rank => c = d

DeciderIsOther ==
  \A r \in Inserted :
    /\ approvals[r].decision \in Decisions =>
         approvals[r].decider \in Managers \ {approvals[r].by}
    /\ approvals[r].decision = "pending" => approvals[r].decider = NoUser

RowsInv == DecidesOnRow /\ RankIsFree /\ RankIsOwn /\ DeciderIsOther

(* Requests that start nothing about approvals, and end what they like.     *)
LEMMA RowsInvKept ==
  ASSUME RowsInv, UNCHANGED approvals,
         \A c \in Clients : request'[c].op = "decide" => request'[c] = request[c],
         \A c \in Clients : Asking(c)' =>
           Asking(c) /\ request'[c].rank = request[c].rank
  PROVE  RowsInv'
<1>1. DecidesOnRow'
  BY DEF RowsInv, DecidesOnRow, Inserted
<1>2. RankIsFree' /\ RankIsOwn'
  BY DEF RowsInv, RankIsFree, RankIsOwn, Inserted
<1>3. DeciderIsOther'
  BY DEF RowsInv, DeciderIsOther, Inserted
<1> QED BY <1>1, <1>2, <1>3 DEF RowsInv

LEMMA TypeStep ==
  ASSUME TypeOK, RowsInv, [Next]_vars
  PROVE  TypeOK'
<1>1. ASSUME NEW s \in PatchStatuses, PatchStatus(s) PROVE TypeOK'
  BY <1>1 DEF PatchStatus, TypeOK
<1>2. ASSUME NEW a \in Actions, CreateAction(a) PROVE TypeOK'
  BY <1>2 DEF CreateAction, TypeOK, ActionStatuses
<1>3. ASSUME NEW required \in BOOLEAN, UpdatePolicy(required)
      PROVE  TypeOK'
  BY <1>3 DEF UpdatePolicy, TypeOK
<1>4. ASSUME NEW a \in Actions, NEW s \in ActionStatuses, UpdateAction(a, s)
      PROVE  TypeOK'
  BY <1>4 DEF UpdateAction, TypeOK
<1>5. ASSUME NEW c \in Clients, LookForPending(c) PROVE TypeOK'
  <2>1. ToInsert(c) \in Requests
    BY <1>5, RequestKinds DEF LookForPending, ToInsert, Requests, Asking
  <2>2. Idle \in Requests
    BY DEF Requests
  <2> QED BY <1>5, <2>1, <2>2 DEF LookForPending, TypeOK
<1>6. ASSUME NEW c \in Clients, NEW u \in Users, StartClose(c, u) PROVE TypeOK'
  <2>1. [op |-> "close", seen |-> status] \in Requests
    BY DEF TypeOK, Requests
  <2>2. request' \in [Clients -> Requests]
    BY <1>6, <2>1, BeginRequest DEF StartClose
  <2> QED BY <1>6, <2>2 DEF StartClose, TypeOK
<1>7. ASSUME NEW c \in Clients, CheckApproval(c) PROVE TypeOK'
  <2>1. CASE Continue(c, "closing")
    <3>1. [request[c] EXCEPT !.op = "closing"] \in Requests
      BY <1>7, RequestKinds DEF CheckApproval, Requests
    <3> QED BY <1>7, <2>1, <3>1 DEF CheckApproval, Continue, TypeOK
  <2>2. CASE End(c)
    BY <1>7, <2>2, EndRequest DEF CheckApproval, TypeOK
  <2> QED BY <1>7, <2>1, <2>2 DEF CheckApproval
<1>8. ASSUME NEW c \in Clients, CommitClose(c) PROVE TypeOK'
  BY <1>8, EndRequest DEF CommitClose, TypeOK, VALID_STATUSES
<1>9. ASSUME NEW c \in Clients, NEW u \in Users, NEW r \in Ranks,
             StartAsk(c, u, r)
      PROVE  TypeOK'
  <2> DEFINE q == [op |-> "ask", user |-> u, rank |-> r, seen |-> Latest,
                   pending |-> LatestIs("pending")]
  <2>1. q \in Requests
    BY DEF Requests, Latest, Inserted, LatestIs
  <2>2. request' \in [Clients -> Requests]
    BY <1>9, <2>1, BeginRequest DEF StartAsk
  <2> QED BY <1>9, <2>2 DEF StartAsk, TypeOK
<1>10. ASSUME NEW c \in Clients, CheckReadiness(c) PROVE TypeOK'
  <2>1. CASE Continue(c, "asking")
    <3>1. [request[c] EXCEPT !.op = "asking"] \in Requests
      BY <1>10, RequestKinds DEF CheckReadiness, Requests, Asking
    <3> QED BY <1>10, <2>1, <3>1 DEF CheckReadiness, Continue, TypeOK
  <2>2. CASE End(c)
    BY <1>10, <2>2, EndRequest DEF CheckReadiness, TypeOK
  <2> QED BY <1>10, <2>1, <2>2 DEF CheckReadiness
<1>11. ASSUME NEW c \in Clients, InsertApproval(c) PROVE TypeOK'
  <2>1. request' \in [Clients -> Requests]
    BY <1>11, EndRequest DEF InsertApproval
  <2>2. request[c].user \in Users
    BY <1>11, RequestKinds DEF InsertApproval, Asking
  <2> QED BY <1>11, <2>1, <2>2 DEF InsertApproval, TypeOK, Rows
<1>12. ASSUME NEW c \in Clients, NEW u \in Users, NEW r \in Ranks,
              NEW d \in Decisions, StartDecide(c, u, r, d)
       PROVE  TypeOK'
  <2>1. [op |-> "decide", user |-> u, rank |-> r, to |-> d] \in Requests
    BY DEF Requests
  <2>2. request' \in [Clients -> Requests]
    BY <1>12, <2>1, BeginRequest DEF StartDecide
  <2> QED BY <1>12, <2>2 DEF StartDecide, TypeOK
<1>13. ASSUME NEW c \in Clients, CommitDecision(c) PROVE TypeOK'
  <2>1. request' \in [Clients -> Requests]
    BY <1>13, EndRequest DEF CommitDecision
  <2>2. /\ request[c].user \in Users /\ request[c].to \in Decisions
        /\ request[c].rank \in Inserted
    BY <1>13, RequestKinds DEF CommitDecision, RowsInv, DecidesOnRow
  <2>3. approvals[request[c].rank] \in Rows
    BY <2>2 DEF TypeOK, Inserted
  <2>4. approvals' \in [Ranks -> Rows \cup {NoRow}]
    BY <1>13, <2>2, <2>3 DEF CommitDecision, TypeOK, Rows
  <2> QED BY <1>13, <2>1, <2>4 DEF CommitDecision, TypeOK
<1> QED
  BY <1>1, <1>2, <1>3, <1>4, <1>5, <1>6, <1>7, <1>8, <1>9, <1>10, <1>11, <1>12,
     <1>13
  DEF Next, Resolve, Approve, TypeOK, vars

LEMMA RowsInvStep ==
  ASSUME TypeOK, RowsInv, [Next]_vars
  PROVE  RowsInv'
<1>1. ASSUME UNCHANGED <<approvals, request>> PROVE RowsInv'
  BY <1>1, RowsInvKept DEF Asking
<1>2. ASSUME NEW c \in Clients, End(c), UNCHANGED approvals PROVE RowsInv'
  <2>1. /\ request'[c] = Idle
        /\ \A d \in Clients : d # c => request'[d] = request[d]
    BY <1>2, EndRequest
  <2> QED BY <1>2, <2>1, RowsInvKept DEF Asking, Idle
<1>3. ASSUME NEW c \in Clients, NEW q, Begin(c, q), UNCHANGED approvals,
             q.op = "close"
      PROVE  RowsInv'
  <2>1. /\ request'[c] = q
        /\ \A d \in Clients : d # c => request'[d] = request[d]
    BY <1>3 DEF Begin, TypeOK
  <2> QED BY <1>3, <2>1, RowsInvKept DEF Asking
<1>4. ASSUME NEW c \in Clients, CheckApproval(c) PROVE RowsInv'
  <2>1. CASE Continue(c, "closing")
    <3>1. /\ request'[c].op = "closing"
          /\ \A d \in Clients : d # c => request'[d] = request[d]
      BY <1>4, <2>1, RequestKinds DEF CheckApproval, Continue, TypeOK
    <3> QED BY <1>4, <3>1, RowsInvKept DEF CheckApproval, Asking
  <2> QED BY <1>2, <1>4, <2>1 DEF CheckApproval
<1>5. ASSUME NEW c \in Clients, CheckReadiness(c) PROVE RowsInv'
  <2>1. CASE Continue(c, "asking")
    <3>1. /\ request'[c].op = "asking" /\ request'[c].rank = request[c].rank
          /\ \A d \in Clients : d # c => request'[d] = request[d]
      BY <1>5, <2>1, RequestKinds DEF CheckReadiness, Continue, TypeOK, Asking
    <3> QED BY <1>5, <3>1, RowsInvKept DEF CheckReadiness, Asking
  <2> QED BY <1>2, <1>5, <2>1 DEF CheckReadiness
<1>6. ASSUME NEW c \in Clients, NEW u \in Users, NEW r \in Ranks, StartAsk(c, u, r)
      PROVE  RowsInv'
  <2>1. r \notin Taken
    BY <1>6 DEF StartAsk, NextRank, Ranks
  <2>2. /\ request'[c].op = "ask" /\ request'[c].rank = r
        /\ \A d \in Clients : d # c => request'[d] = request[d]
        /\ UNCHANGED approvals
    BY <1>6 DEF StartAsk, Begin, TypeOK
  <2>3. \A d \in Clients : Asking(d) => request[d].rank # r
    BY <2>1 DEF Taken
  <2>4. DecidesOnRow' /\ DeciderIsOther'
    BY <2>2 DEF RowsInv, DecidesOnRow, DeciderIsOther, Inserted
  <2>5. RankIsFree' /\ RankIsOwn'
    BY <2>1, <2>2, <2>3 DEF RowsInv, RankIsFree, RankIsOwn, Inserted, Asking, Taken
  <2> QED BY <2>4, <2>5 DEF RowsInv
<1>7. ASSUME NEW c \in Clients, InsertApproval(c) PROVE RowsInv'
  <2> DEFINE r == request[c].rank
  <2>1. /\ request'[c] = Idle
        /\ \A d \in Clients : d # c => request'[d] = request[d]
    BY <1>7, EndRequest DEF InsertApproval
  <2>2. approvals' = [approvals EXCEPT ![r] =
               [by |-> request[c].user, decision |-> "pending", decider |-> NoUser]]
    BY <1>7 DEF InsertApproval
  <2>3. r \in Ranks /\ r \notin Inserted /\ request[c].user \in Users /\ Asking(c)
    BY <1>7, RequestKinds DEF InsertApproval, RowsInv, RankIsFree, Asking
  <2>4. /\ approvals'[r] = [by |-> request[c].user, decision |-> "pending",
                            decider |-> NoUser]
        /\ \A q \in Ranks : q # r => approvals'[q] = approvals[q]
    BY <2>2, <2>3 DEF TypeOK
  <2>5. Inserted' = Inserted \cup {r}
    BY <2>3, <2>4, UsersAssumption DEF Inserted, NoRow
  <2>6. DecidesOnRow'
    <3> SUFFICES ASSUME NEW d \in Clients, request'[d].op = "decide"
                 PROVE  /\ request'[d].rank \in Inserted'
                        /\ request'[d].user \in
                             Managers \ {approvals'[request'[d].rank].by}
      BY DEF DecidesOnRow
    <3>1. d # c /\ request'[d] = request[d]
      BY <2>1 DEF Idle
    <3>2. request[d].rank \in Inserted /\ request[d].rank # r
      BY <2>3, <3>1 DEF RowsInv, DecidesOnRow
    <3>3. approvals'[request[d].rank] = approvals[request[d].rank]
      BY <2>4, <3>2 DEF Inserted
    <3> QED BY <2>5, <3>1, <3>2, <3>3 DEF RowsInv, DecidesOnRow
  <2>7. RankIsFree' /\ RankIsOwn'
    BY <2>1, <2>3, <2>5 DEF RowsInv, RankIsFree, RankIsOwn, Asking, Idle
  <2>8. DeciderIsOther'
    BY <2>4, <2>5 DEF RowsInv, DeciderIsOther, Inserted, Decisions
  <2> QED BY <2>6, <2>7, <2>8 DEF RowsInv
<1>8. ASSUME NEW c \in Clients, NEW u \in Users, NEW r \in Ranks,
             NEW d \in Decisions, StartDecide(c, u, r, d)
      PROVE  RowsInv'
  <2>1. /\ request'[c] = [op |-> "decide", user |-> u, rank |-> r, to |-> d]
        /\ \A e \in Clients : e # c => request'[e] = request[e]
        /\ UNCHANGED approvals
    BY <1>8 DEF StartDecide, Begin, TypeOK
  <2>2. r \in Inserted /\ u \in Managers \ {approvals[r].by}
    BY <1>8 DEF StartDecide, Inserted, NoRow
  <2>3. DecidesOnRow'
    BY <2>1, <2>2 DEF RowsInv, DecidesOnRow, Inserted
  <2>4. RankIsFree' /\ RankIsOwn' /\ DeciderIsOther'
    BY <2>1 DEF RowsInv, RankIsFree, RankIsOwn, DeciderIsOther, Inserted, Asking
  <2> QED BY <2>3, <2>4 DEF RowsInv
<1>9. ASSUME NEW c \in Clients, CommitDecision(c) PROVE RowsInv'
  <2> DEFINE r == request[c].rank
  <2>1. /\ request'[c] = Idle
        /\ \A d \in Clients : d # c => request'[d] = request[d]
    BY <1>9, EndRequest DEF CommitDecision
  <2>2. /\ r \in Inserted /\ request[c].to \in Decisions
        /\ request[c].user \in Managers \ {approvals[r].by}
    BY <1>9, RequestKinds DEF CommitDecision, RowsInv, DecidesOnRow
  <2>3. /\ approvals'[r] = [by |-> approvals[r].by, decision |-> request[c].to,
                            decider |-> request[c].user]
        /\ \A q \in Ranks : q # r => approvals'[q] = approvals[q]
    BY <1>9, <2>2 DEF CommitDecision, TypeOK, Inserted
  <2>4. approvals[r].by # NoUser
    BY <2>2, UsersAssumption DEF TypeOK, Inserted, Rows
  <2>5. Inserted' = Inserted
    BY <2>2, <2>3, <2>4 DEF Inserted, NoRow
  <2>6. \A q \in Ranks : approvals'[q].by = approvals[q].by
    BY <2>3
  <2>7. DecidesOnRow'
    BY <2>1, <2>5, <2>6 DEF RowsInv, DecidesOnRow, Idle, Inserted
  <2>8. RankIsFree' /\ RankIsOwn'
    BY <2>1, <2>5 DEF RowsInv, RankIsFree, RankIsOwn, Asking, Idle
  <2>9. DeciderIsOther'
    BY <2>2, <2>3, <2>5 DEF RowsInv, DeciderIsOther, Inserted, Decisions
  <2> QED BY <2>7, <2>8, <2>9 DEF RowsInv
<1>10. ASSUME NEW c \in Clients, LookForPending(c) PROVE RowsInv'
  <2>1. /\ request'[c] \in {Idle, ToInsert(c)}
        /\ \A d \in Clients : d # c => request'[d] = request[d]
        /\ UNCHANGED approvals /\ Asking(c)
    BY <1>10 DEF LookForPending, TypeOK, Asking
  <2> QED BY <2>1, RowsInvKept DEF Asking, Idle, ToInsert
<1> QED
  BY <1>1, <1>2, <1>3, <1>4, <1>5, <1>6, <1>7, <1>8, <1>9, <1>10
  DEF Next, Resolve, Approve, vars, PatchStatus, CreateAction, UpdateAction,
      UpdatePolicy, StartClose, CommitClose

LEMMA TypeAndRows == Spec => [](TypeOK /\ RowsInv)
<1>1. Init => TypeOK /\ RowsInv
  BY DEF Init, TypeOK, VALID_STATUSES, Requests, RowsInv, DecidesOnRow, RankIsFree,
         RankIsOwn, DeciderIsOther, Inserted, Asking, Idle
<1>2. TypeOK /\ RowsInv /\ [Next]_vars => (TypeOK /\ RowsInv)'
  BY TypeStep, RowsInvStep
<1> QED BY <1>1, <1>2, PTL DEF Spec

(* The state keeps its shape under every interleaving of requests.          *)
THEOREM TypeCorrect == Spec => []TypeOK
BY TypeAndRows, PTL

(* Every decision was made by a manager other than the requester, under     *)
(* every interleaving of requests (can_decide_approval).                    *)
THEOREM DecidersAreIndependent == Spec => []MakerChecker
<1>1. TypeOK /\ RowsInv => MakerChecker
  <2> SUFFICES ASSUME TypeOK, RowsInv, NEW r \in Inserted,
                      approvals[r].decider # NoUser
               PROVE  approvals[r].decider \in Managers \ {approvals[r].by}
    BY DEF MakerChecker
  <2>1. approvals[r] \in Rows
    BY DEF TypeOK, Inserted
  <2>2. approvals[r].decision \in Decisions
    BY <2>1 DEF RowsInv, DeciderIsOther, Rows
  <2> QED BY <2>2 DEF RowsInv, DeciderIsOther
<1> QED BY <1>1, TypeAndRows, PTL
-----------------------------------------------------------------------------
(* The composition with the scan. *)

sVars == <<vars, scanVars>>

(* Scans and dates only read what FindingClosure writes, so everything      *)
(* proved of Spec holds of the composition.                                 *)
THEOREM ScansOnlyRead == EscalationsSpec => Spec
<1>1. EscalationsInit => Init
  BY DEF EscalationsInit
<1>2. [EscalationsNext]_sVars => [Next]_vars
  BY DEF EscalationsNext, sVars
<1> QED BY <1>1, <1>2, PTL DEF EscalationsSpec, Spec, sVars
-----------------------------------------------------------------------------
(* One case for each of the steps that scans and dates take.                *)
LEMMA EscalationSteps ==
  ASSUME [EscalationsNext]_sVars
  PROVE  \/ UNCHANGED scanVars
         \/ \E s \in Subjects : Expire(s) \/ Postpone(s)
         \/ \E s \in Subjects : Acknowledge(s)
         \/ \E n \in Scanners : ScanFinding(n) \/ ScanActions(n)
         \/ \E n \in Scanners, s \in Subjects : Escalate(n, s)
         \/ \E n \in Scanners : CommitScan(n)
BY DEF EscalationsNext, Scan, sVars

ScanTypeOK ==
  /\ late \subseteq Subjects
  /\ unhandled \in [Subjects -> 0..MaxEscalations]
  /\ acknowledged \in [Subjects -> 0..MaxEscalations]
  /\ scan \in [Scanners -> [at : {"idle", "finding", "actions"},
                            past : SUBSET Subjects, due : SUBSET Subjects,
                            looked : SUBSET Subjects, new : SUBSET Subjects]]

LEMMA ScanTypeStep ==
  ASSUME ScanTypeOK, [EscalationsNext]_sVars
  PROVE  ScanTypeOK'
<1>1. CASE UNCHANGED scanVars
  BY <1>1 DEF scanVars, ScanTypeOK
<1>2. ASSUME NEW s \in Subjects, Expire(s) \/ Postpone(s) PROVE ScanTypeOK'
  BY <1>2 DEF Expire, Postpone, ScanTypeOK
<1>3. ASSUME NEW s \in Subjects, Acknowledge(s) PROVE ScanTypeOK'
  <2>1. /\ unhandled[s] - 1 \in 0..MaxEscalations
        /\ acknowledged[s] + 1 \in 0..MaxEscalations
    BY <1>3, EscalationAssumption DEF Acknowledge, ScanTypeOK
  <2> QED BY <1>3, <2>1 DEF Acknowledge, ScanTypeOK
<1>4. ASSUME NEW n \in Scanners, ScanFinding(n) PROVE ScanTypeOK'
  <2>1. Overdue({Finding}) \subseteq Subjects /\ late \subseteq Subjects
    BY DEF Overdue, ScanTypeOK
  <2> QED BY <1>4, <2>1 DEF ScanFinding, ScanTypeOK, NoScan
<1>5. ASSUME NEW n \in Scanners, ScanActions(n) PROVE ScanTypeOK'
  <2>1. Overdue(scan[n].past \cap Actions) \subseteq Subjects
    BY DEF Overdue, ScanTypeOK
  <2> QED BY <1>5, <2>1, ZenonT(60) DEF ScanActions, ScanTypeOK
<1>6. ASSUME NEW n \in Scanners, CommitScan(n) PROVE ScanTypeOK'
  <2>1. \A s \in Subjects :
          unhandled[s] < MaxEscalations => unhandled[s] + 1 \in 0..MaxEscalations
    BY EscalationAssumption DEF ScanTypeOK
  <2> QED BY <1>6, <2>1 DEF CommitScan, Insert, ScanTypeOK, NoScan
<1>7. ASSUME NEW n \in Scanners, NEW s \in Subjects, Escalate(n, s)
      PROVE  ScanTypeOK'
  BY <1>7, ZenonT(60) DEF Escalate, ScanTypeOK
<1> QED BY <1>1, <1>2, <1>3, <1>4, <1>5, <1>6, <1>7, EscalationSteps

(* The state of the composition keeps its shape under every interleaving of *)
(* requests and scans.                                                      *)
THEOREM EscalationsTypeCorrect == EscalationsSpec => []EscalationsTypeOK
<1>1. EscalationsInit => ScanTypeOK
  BY EscalationAssumption DEF EscalationsInit, ScanTypeOK, NoScan
<1>2. ScanTypeOK /\ [EscalationsNext]_sVars => ScanTypeOK'
  BY ScanTypeStep
<1>3. TypeOK /\ ScanTypeOK => EscalationsTypeOK
  BY DEF ScanTypeOK, EscalationsTypeOK
<1> QED BY <1>1, <1>2, <1>3, ScansOnlyRead, TypeCorrect, PTL DEF EscalationsSpec, sVars
-----------------------------------------------------------------------------
(* An escalation, once there, is only ever acknowledged: a subject under an *)
(* active escalation stays under one.                                       *)
LEMMA ActiveStays ==
  ASSUME ScanTypeOK, [EscalationsNext]_sVars, NEW s \in Subjects, Active(s)
  PROVE  Active(s)'
<1>1. CASE UNCHANGED <<unhandled, acknowledged>>
  BY <1>1 DEF Active
<1>2. ASSUME NEW q \in Subjects, Acknowledge(q) PROVE Active(s)'
  <2>1. /\ unhandled[s] \in Nat /\ acknowledged[s] \in Nat
        /\ unhandled[q] \in Nat /\ acknowledged[q] \in Nat
    BY DEF ScanTypeOK
  <2>2. unhandled'[s] + acknowledged'[s] = unhandled[s] + acknowledged[s]
    BY <1>2, <2>1 DEF Acknowledge, ScanTypeOK
  <2> QED BY <2>2 DEF Active
<1>3. ASSUME NEW n \in Scanners, CommitScan(n) PROVE Active(s)'
  <2>1. unhandled[s] \in Nat /\ acknowledged[s] \in Nat
    BY DEF ScanTypeOK
  <2>2. /\ acknowledged'[s] = acknowledged[s]
        /\ unhandled'[s] \in {unhandled[s], unhandled[s] + 1}
    BY <1>3 DEF CommitScan, Insert
  <2> QED BY <2>1, <2>2 DEF Active
<1> QED
  BY <1>1, <1>2, <1>3, EscalationSteps
  DEF scanVars, Expire, Postpone, ScanFinding, ScanActions, Escalate

(* What a scan looked up it inserts itself, or has seen escalated.          *)
LookedIsCovered ==
  \A n \in Scanners : \A s \in scan[n].looked : s \in scan[n].new \/ Active(s)

LEMMA LookedIsCoveredStep ==
  ASSUME ScanTypeOK, LookedIsCovered, [EscalationsNext]_sVars
  PROVE  LookedIsCovered'
<1>1. \A n \in Scanners : scan[n].looked \subseteq Subjects
  BY DEF ScanTypeOK
<1>2. ASSUME \A n \in Scanners : /\ scan'[n].looked = scan[n].looked
                                 /\ scan'[n].new = scan[n].new
      PROVE  LookedIsCovered'
  BY <1>1, <1>2, ActiveStays DEF LookedIsCovered
<1>3. ASSUME NEW n \in Scanners, scan'[n].looked = {},
             \A m \in Scanners : m # n => scan'[m] = scan[m]
      PROVE  LookedIsCovered'
  BY <1>1, <1>3, ActiveStays DEF LookedIsCovered
<1>4. ASSUME NEW n \in Scanners, ScanFinding(n) PROVE LookedIsCovered'
  <2>1. /\ scan'[n].looked = {}
        /\ \A m \in Scanners : m # n => scan'[m] = scan[m]
    BY <1>4 DEF ScanFinding, ScanTypeOK, NoScan
  <2> QED BY <1>3, <2>1
<1>5. ASSUME NEW n \in Scanners, ScanActions(n) PROVE LookedIsCovered'
  BY <1>2, <1>5 DEF ScanActions, ScanTypeOK
<1>6. ASSUME NEW n \in Scanners, CommitScan(n) PROVE LookedIsCovered'
  <2>1. /\ scan'[n].looked = {}
        /\ \A m \in Scanners : m # n => scan'[m] = scan[m]
    BY <1>6 DEF CommitScan, ScanTypeOK, NoScan
  <2> QED BY <1>3, <2>1
<1>7. ASSUME NEW n \in Scanners, NEW s \in Subjects, Escalate(n, s)
      PROVE  LookedIsCovered'
  <2>1. /\ scan'[n].looked = scan[n].looked \cup {s}
        /\ scan'[n].new = IF Active(s) THEN scan[n].new ELSE scan[n].new \cup {s}
        /\ \A m \in Scanners : m # n => scan'[m] = scan[m]
    BY <1>7 DEF Escalate, ScanTypeOK
  <2>2. \A q : Active(q)' <=> Active(q)
    BY <1>7 DEF Escalate, Active
  <2> QED BY <2>1, <2>2 DEF LookedIsCovered
<1> QED
  BY <1>2, <1>4, <1>5, <1>6, <1>7, EscalationSteps
  DEF scanVars, Expire, Postpone, Acknowledge

(* The only way for a scan to end.                                          *)
LEMMA ScanEnds ==
  ASSUME ScanTypeOK, [EscalationsNext]_sVars, NEW n \in Scanners, Commits(n)
  PROVE  CommitScan(n)
<1>1. ASSUME NEW m \in Scanners, ScanFinding(m) \/ ScanActions(m) \/ CommitScan(m),
             m # n
      PROVE  scan'[n] = scan[n]
  BY <1>1 DEF ScanFinding, ScanActions, CommitScan, ScanTypeOK
<1>2. ~ScanFinding(n)
  BY DEF ScanFinding, Commits
<1>3. ScanActions(n) => scan'[n].at = "actions"
  BY DEF ScanActions, ScanTypeOK
<1>4. ASSUME NEW m \in Scanners, NEW s \in Subjects, Escalate(m, s)
      PROVE  scan'[n].at = scan[n].at
  BY <1>4 DEF Escalate, ScanTypeOK
<1>5. scan' # scan
  BY DEF Commits
<1>6. \A q \in Subjects : ~Expire(q) /\ ~Postpone(q) /\ ~Acknowledge(q)
  BY <1>5 DEF Expire, Postpone, Acknowledge
<1> QED BY <1>1, <1>2, <1>3, <1>4, <1>5, <1>6, EscalationSteps DEF scanVars, Commits

LEMMA CommitEscalates ==
  ASSUME ScanTypeOK, LookedIsCovered, [EscalationsNext]_sVars, NEW n \in Scanners,
         scan[n].at = "actions", scan'[n].at = "idle", NEW s \in scan[n].due
  PROVE  Active(s)'
<1>1. s \in Subjects
  BY DEF ScanTypeOK
<1>2. CommitScan(n) /\ s \in scan[n].looked
  BY ScanEnds DEF CommitScan, Commits
<1>3. CASE Active(s)
  BY <1>1, <1>3, ActiveStays
<1>4. CASE s \in scan[n].new /\ ~Active(s)
  <2>1. unhandled[s] = 0 /\ acknowledged[s] = 0
    BY <1>1, <1>4 DEF Active, ScanTypeOK
  <2>2. unhandled'[s] = 1 /\ acknowledged'[s] = 0
    BY <1>1, <1>2, <1>4, <2>1, EscalationAssumption DEF CommitScan, Insert
  <2> QED BY <2>2 DEF Active
<1> QED BY <1>2, <1>3, <1>4 DEF LookedIsCovered

LEMMA TypeAndLooked == EscalationsSpec => [](ScanTypeOK /\ LookedIsCovered)
<1>1. EscalationsInit => ScanTypeOK /\ LookedIsCovered
  BY EscalationAssumption DEF EscalationsInit, ScanTypeOK, NoScan, LookedIsCovered
<1>2. ScanTypeOK /\ LookedIsCovered /\ [EscalationsNext]_sVars
        => (ScanTypeOK /\ LookedIsCovered)'
  BY ScanTypeStep, LookedIsCoveredStep
<1> QED BY <1>1, <1>2, PTL DEF EscalationsSpec, sVars

(* Every subject a scan found overdue is under an active escalation when    *)
(* the scan commits, with any number of scans at once                       *)
(* (scan_escalations).                                           *)
THEOREM ScansEscalate == EscalationsSpec => ScanEscalatesWhatIsLate
<1>1. ScanTypeOK /\ LookedIsCovered /\ [EscalationsNext]_sVars =>
        [\A n \in Scanners :
           scan[n].at = "actions" /\ scan'[n].at = "idle" =>
             \A s \in scan[n].due : Active(s)']_sVars
  BY CommitEscalates
<1> QED BY <1>1, TypeAndLooked, PTL DEF EscalationsSpec, ScanEscalatesWhatIsLate, sVars
-----------------------------------------------------------------------------
(* The history. *)

(* Requests and scans of the history are those of the composition.          *)
LEMMA HistoryOnlyRecords == HistorySpec => EscalationsSpec
<1>1. HistoryInit => EscalationsInit
  BY DEF HistoryInit
<1>2. [HistoryNext]_allVars => [EscalationsNext]_sVars
  BY DEF HistoryNext, EscalationsNext, allVars, sVars
<1> QED BY <1>1, <1>2, PTL DEF HistorySpec, EscalationsSpec, sVars

(* A step is a step of the requests, one of the scans, or none.             *)
LEMMA HistorySteps ==
  ASSUME [HistoryNext]_allVars
  PROVE  \/ Next /\ Follow /\ UNCHANGED scanVars
         \/ [EscalationsNext]_sVars /\ FollowScan /\ UNCHANGED vars
         \/ UNCHANGED allVars
BY DEF HistoryNext, EscalationsNext, allVars, sVars

LEMMA HistoryStep ==
  ASSUME [HistoryNext]_allVars
  PROVE  [Next]_vars /\ [EscalationsNext]_sVars
BY DEF HistoryNext, EscalationsNext, allVars, sVars

LEMMA HistoryTypeStep ==
  ASSUME TypeOK, ScanTypeOK, HistoryOK, [HistoryNext]_allVars, TypeOK', ScanTypeOK'
  PROVE  HistoryOK'
<1>1. Inserted' \subseteq Ranks /\ Clients = Clients
  BY DEF Inserted
<1>2. CASE Follow
  <2>1. relaxed' \in BOOLEAN
    BY <1>2, Zenon DEF Follow, HistoryOK, TypeOK
  <2> QED BY <1>1, <1>2, <2>1 DEF Follow, HistoryOK
<1>3. CASE FollowScan
  <2>1. \A n \in Scanners : scan[n].looked \subseteq Subjects
    BY DEF ScanTypeOK
  <2>2. outrun' \in [Scanners -> SUBSET Subjects]
    <3>1. \A n \in Scanners : outrun[n] \subseteq Subjects
      BY DEF HistoryOK
    <3> QED BY <1>3, <2>1, <3>1 DEF FollowScan
  <2>3. doubled' \subseteq Subjects
    BY <1>3 DEF FollowScan, HistoryOK
  <2> QED BY <1>3, <2>2, <2>3 DEF FollowScan, HistoryOK
<1>4. CASE UNCHANGED allVars
  BY <1>4 DEF allVars, historyVars, HistoryOK
<1> QED BY <1>2, <1>3, <1>4, HistorySteps

(* What a step may do to the request of a client.                           *)
LEMMA RequestSteps ==
  ASSUME TypeOK, [Next]_vars, NEW c \in Clients, request'[c] # request[c],
         request'[c] # Idle
  PROVE  \/ \E u \in Users : StartClose(c, u)
         \/ CheckApproval(c) /\ request'[c] = [request[c] EXCEPT !.op = "closing"]
         \/ \E u \in Users, r \in Ranks : StartAsk(c, u, r)
         \/ CheckReadiness(c) /\ request'[c] = [request[c] EXCEPT !.op = "asking"]
         \/ LookForPending(c) /\ ~SeesPending(c) /\ request'[c] = ToInsert(c)
         \/ \E u \in Users, r \in Ranks, d \in Decisions : StartDecide(c, u, r, d)
<1>1. ASSUME NEW d \in Clients, Resolve(d) PROVE d = c
  BY <1>1 DEF Resolve, StartClose, CheckApproval, CommitClose, Begin, Continue, End,
     TypeOK
<1>2. ASSUME NEW d \in Clients, Approve(d) PROVE d = c
  BY <1>2 DEF Approve, StartAsk, CheckReadiness, LookForPending, InsertApproval,
     StartDecide, CommitDecision, Begin, Continue, End, TypeOK
<1>3. Resolve(c) \/ Approve(c)
  BY <1>1, <1>2 DEF Next, vars, PatchStatus, CreateAction, UpdateAction, UpdatePolicy
<1>4. CASE Resolve(c)
  <2>1. ~CommitClose(c)
    BY DEF CommitClose, End, TypeOK
  <2> QED BY <1>4, <2>1 DEF Resolve, CheckApproval, Continue, End, TypeOK
<1>5. CASE Approve(c)
  <2>1. ~InsertApproval(c) /\ ~CommitDecision(c)
    BY DEF InsertApproval, CommitDecision, End, TypeOK
  <2>2. CASE CheckReadiness(c)
    BY <2>2 DEF CheckReadiness, Continue, End, TypeOK
  <2>3. CASE LookForPending(c)
    BY <2>3 DEF LookForPending, TypeOK
  <2> QED BY <1>5, <2>1, <2>2, <2>3 DEF Approve
<1> QED BY <1>3, <1>4, <1>5
-----------------------------------------------------------------------------
(***************************************************************************)
(* Closures under a policy that was never relaxed: from the moment a close  *)
(* request has seen the approval, some row carries a decision by an         *)
(* independent manager, and no later step takes it away.                    *)
(***************************************************************************)
Strict == Governed /\ Severity = "critical" /\ ~relaxed

Reviewed == \E r \in Inserted : approvals[r].decider \in Managers \ {approvals[r].by}

PolicyStays == Severity = "critical" /\ ~relaxed => policy

ClosingWasReviewed ==
  \A c \in Clients : request[c].op \in {"close", "closing"} =>
    /\ HasEvidence
    /\ request[c].op = "closing" /\ Strict => Reviewed

ClosureInv == PolicyStays /\ ClosingWasReviewed /\ ResolvedWasReviewed

(* Decisions are overwritten but never cleared.                             *)
LEMMA ReviewedStays ==
  ASSUME TypeOK, RowsInv, [Next]_vars, Reviewed
  PROVE  Reviewed'
<1> PICK r \in Inserted : approvals[r].decider \in Managers \ {approvals[r].by}
  BY DEF Reviewed
<1>1. CASE UNCHANGED approvals
  BY <1>1 DEF Reviewed, Inserted
<1>2. ASSUME NEW c \in Clients, InsertApproval(c) PROVE Reviewed'
  <2>1. request[c].rank # r /\ request[c].rank \in Ranks
    BY <1>2, RequestKinds DEF InsertApproval, RowsInv, RankIsFree, Asking
  <2>2. approvals'[r] = approvals[r]
    BY <1>2, <2>1 DEF InsertApproval, TypeOK, Inserted
  <2> QED BY <2>2 DEF Reviewed, Inserted
<1>3. ASSUME NEW c \in Clients, CommitDecision(c) PROVE Reviewed'
  <2> DEFINE q == request[c].rank
  <2>1. q \in Inserted /\ request[c].user \in Managers \ {approvals[q].by}
    BY <1>3 DEF CommitDecision, RowsInv, DecidesOnRow
  <2>2. approvals'[q] = [by |-> approvals[q].by, decision |-> request[c].to,
                         decider |-> request[c].user]
    BY <1>3, <2>1 DEF CommitDecision, TypeOK, Inserted
  <2>3. approvals[q].by # NoUser
    BY <2>1, UsersAssumption DEF TypeOK, Inserted, Rows
  <2>4. q \in Inserted' /\ approvals'[q].decider \in Managers \ {approvals'[q].by}
    BY <2>1, <2>2, <2>3 DEF Inserted, NoRow
  <2> QED BY <2>4 DEF Reviewed
<1> QED
  BY <1>1, <1>2, <1>3
  DEF Next, Resolve, Approve, vars, PatchStatus, CreateAction, UpdateAction,
      UpdatePolicy, StartClose, CheckApproval, CommitClose, StartAsk, CheckReadiness,
      LookForPending, StartDecide

(* Once relaxed, always relaxed, and a policy that is not asks.             *)
LEMMA RelaxedStays ==
  ASSUME PolicyStays, [HistoryNext]_allVars
  PROVE  PolicyStays' /\ (relaxed => relaxed')
<1>1. CASE Follow
  BY <1>1 DEF Follow, PolicyStays
<1>2. CASE FollowScan /\ UNCHANGED vars
  BY <1>2 DEF FollowScan, PolicyStays, vars
<1>3. CASE UNCHANGED allVars
  BY <1>3 DEF allVars, vars, historyVars, PolicyStays
<1> QED BY <1>1, <1>2, <1>3, HistorySteps

LEMMA ClosureInvStep ==
  ASSUME TypeOK, RowsInv, ClosureInv, [HistoryNext]_allVars
  PROVE  ClosureInv'
<1>1. PolicyStays' /\ (relaxed => relaxed') /\ [Next]_vars
  BY RelaxedStays, HistoryStep DEF ClosureInv
<1>2. Strict' => Strict
  BY <1>1 DEF Strict
<1>3. Reviewed => Reviewed'
  BY <1>1, ReviewedStays
<1>4. ClosingWasReviewed'
  <2> SUFFICES ASSUME NEW c \in Clients, request'[c].op \in {"close", "closing"}
               PROVE  /\ HasEvidence
                      /\ request'[c].op = "closing" /\ Strict' => Reviewed'
    BY DEF ClosingWasReviewed
  <2>1. CASE request'[c] = request[c]
    BY <1>2, <1>3, <2>1 DEF ClosureInv, ClosingWasReviewed
  <2>2. CASE \E u \in Users : StartClose(c, u)
    <3>1. request'[c].op = "close" /\ HasEvidence
      BY <2>2 DEF StartClose, Begin, CanClose, TypeOK
    <3> QED BY <3>1
  <2>3. CASE CheckApproval(c)
    <3>1. HasEvidence
      BY <2>3 DEF CheckApproval, ClosureInv, ClosingWasReviewed
    <3>2. ASSUME Strict PROVE Reviewed
      <4>1. ApprovalReady
        BY <2>3, EndRequest DEF CheckApproval, Idle
      <4>2. PICK r \in Inserted : approvals[r].decision = "approved"
        BY <3>2, <4>1 DEF ApprovalReady, ApprovalRequired, Strict, Governable,
           ClosureInv, PolicyStays, LatestIs, Latest
      <4> QED BY <4>2 DEF Reviewed, RowsInv, DeciderIsOther, Decisions
    <3> QED BY <1>2, <1>3, <3>1, <3>2
  <2>4. CASE request'[c] # request[c] /\ ~CheckApproval(c)
             /\ ~\E u \in Users : StartClose(c, u)
    <3>1. request'[c] # Idle
      BY DEF Idle
    <3>2. CASE CheckReadiness(c) /\ request'[c] = [request[c] EXCEPT !.op = "asking"]
      BY <3>2, RequestKinds DEF CheckReadiness
    <3>3. CASE request'[c] = ToInsert(c)
      BY <3>3 DEF ToInsert
    <3>4. CASE \E u \in Users, r \in Ranks : StartAsk(c, u, r)
      BY <3>4 DEF StartAsk, Begin, TypeOK
    <3>5. CASE \E u \in Users, r \in Ranks, d \in Decisions : StartDecide(c, u, r, d)
      BY <3>5 DEF StartDecide, Begin, TypeOK
    <3> QED BY <1>1, <2>4, <3>1, <3>2, <3>3, <3>4, <3>5, RequestSteps
  <2> QED BY <2>1, <2>2, <2>3, <2>4
<1>5. ResolvedWasReviewed'
  <2>1. CASE status = "resolved"
    BY <1>2, <1>3, <2>1 DEF ClosureInv, ResolvedWasReviewed, Reviewed, Strict
  <2>2. ASSUME NEW c \in Clients, CommitClose(c) PROVE ResolvedWasReviewed'
    BY <1>2, <1>3, <2>2
    DEF CommitClose, ClosureInv, ClosingWasReviewed, ResolvedWasReviewed, Reviewed,
        Strict
  <2>3. CASE status' # "resolved"
    BY <2>3 DEF ResolvedWasReviewed
  <2>4. \/ status = "resolved" \/ status' # "resolved"
        \/ \E c \in Clients : CommitClose(c)
    BY <1>1 DEF Next, Resolve, Approve, vars, PatchStatus, CreateAction, UpdateAction,
       UpdatePolicy, StartClose, CheckApproval, StartAsk, CheckReadiness,
       LookForPending, InsertApproval, StartDecide, CommitDecision, PatchStatuses
  <2> QED BY <2>1, <2>2, <2>3, <2>4
<1> QED BY <1>1, <1>4, <1>5 DEF ClosureInv

LEMMA HistoryTypes == HistorySpec => [](TypeOK /\ RowsInv /\ ScanTypeOK /\ HistoryOK)
<1>1. HistoryInit => HistoryOK
  BY DEF HistoryInit, HistoryOK, EscalationsInit, Init
<1>2. TypeOK /\ ScanTypeOK /\ HistoryOK /\ [HistoryNext]_allVars /\ TypeOK' /\ ScanTypeOK'
        => HistoryOK'
  BY HistoryTypeStep
<1>3. HistorySpec => [](TypeOK /\ RowsInv /\ ScanTypeOK)
  BY HistoryOnlyRecords, ScansOnlyRead, TypeAndRows, TypeAndLooked, PTL
<1> QED BY <1>1, <1>2, <1>3, PTL DEF HistorySpec

(* A critical finding under governance is resolved only after a manager     *)
(* other than the requester decided on its closure, and only with evidence, *)
(* under every interleaving of requests, unless managers relaxed the policy *)
(* (close_finding, update_policy).                                          *)
THEOREM ResolvedFindingsWereReviewed == HistorySpec => []ResolvedWasReviewed
<1>1. ASSUME HistoryInit PROVE ClosureInv
  <2>1. PolicyStays
    BY <1>1 DEF HistoryInit, PolicyStays
  <2>2. ClosingWasReviewed
    BY <1>1 DEF HistoryInit, EscalationsInit, Init, ClosingWasReviewed, Idle
  <2>3. ResolvedWasReviewed
    BY <1>1 DEF HistoryInit, EscalationsInit, Init, ResolvedWasReviewed
  <2> QED BY <2>1, <2>2, <2>3 DEF ClosureInv
<1>2. TypeOK /\ RowsInv /\ ClosureInv /\ [HistoryNext]_allVars => ClosureInv'
  BY ClosureInvStep
<1>3. ClosureInv => ResolvedWasReviewed
  BY DEF ClosureInv
<1> QED BY <1>1, <1>2, <1>3, HistoryTypes, PTL DEF HistorySpec
-----------------------------------------------------------------------------
(***************************************************************************)
(* Requests that were not overtaken: what they have read is still so.  The  *)
(* three gates follow from that, and so does the order of the approvals.    *)
(***************************************************************************)
Undisturbed == Clients \ overtaken

ClosesReady ==
  \A c \in Undisturbed :
    /\ request[c].op \in {"close", "closing"} => CanClose
    /\ request[c].op = "closing" => ApprovalReady

DecidesPending ==
  \A c \in Undisturbed : request[c].op = "decide" =>
    approvals[request[c].rank].decision = "pending"

AskIsFresh(c) ==
  /\ \A q \in Inserted : q < request[c].rank
  /\ request[c].op \in {"ask", "asking"} =>
       /\ request[c].seen = Latest
       /\ request[c].pending = LatestIs("pending")
  /\ request[c].op = "inserting" => ~LatestIs("pending")

AsksFresh == \A c \in Undisturbed : Asking(c) => AskIsFresh(c)

ReadsInv ==
  ClosesReady /\ DecidesPending /\ AsksFresh /\ PendingIsLatestUnlessOvertaken

(* Which approval is the latest depends on the rows alone.                  *)
LEMMA SameRows ==
  ASSUME UNCHANGED approvals
  PROVE  /\ Inserted' = Inserted /\ Latest' = Latest
         /\ LatestIs("pending")' = LatestIs("pending")
         /\ LatestIs("approved")' = LatestIs("approved")
BY DEF Inserted, Latest, LatestIs

(* A request that is undisturbed after a step was so before, or is new.     *)
LEMMA UndisturbedStep ==
  ASSUME [HistoryNext]_allVars, NEW c \in Undisturbed', request'[c] # Idle
  PROVE  /\ c \in Undisturbed
         /\ Follow => ~Overtakes(c)
<1>1. CASE Follow
  BY <1>1 DEF Follow, Undisturbed
<1>2. CASE FollowScan /\ ~Follow
  BY <1>2 DEF FollowScan, Undisturbed
<1>3. CASE UNCHANGED allVars /\ ~Follow
  BY <1>3 DEF allVars, historyVars, Undisturbed
<1> QED BY <1>1, <1>2, <1>3, HistorySteps

(* What has not overtaken a request has left what it read.                  *)
LEMMA ReadsStay ==
  ASSUME [HistoryNext]_allVars, NEW c \in Undisturbed', request'[c] # Idle
  PROVE  /\ request[c].op \in {"close", "closing"} => UNCHANGED action
         /\ request[c].op = "closing" => UNCHANGED <<policy, approvals>>
         /\ Asking(c) => UNCHANGED approvals
         /\ request[c].op = "decide" =>
              UNCHANGED approvals \/ approvals'[request[c].rank] = approvals[request[c].rank]
<1>1. CASE Follow
  BY <1>1, UndisturbedStep DEF Overtakes
<1>2. CASE UNCHANGED vars
  BY <1>2 DEF vars
<1> QED BY <1>1, <1>2, HistorySteps DEF allVars

LEMMA ClosesReadyStep ==
  ASSUME TypeOK, ClosesReady, [HistoryNext]_allVars
  PROVE  ClosesReady'
<1> SUFFICES ASSUME NEW c \in Undisturbed', request'[c].op \in {"close", "closing"}
             PROVE  CanClose' /\ (request'[c].op = "closing" => ApprovalReady')
  BY DEF ClosesReady
<1>1. c \in Clients /\ c \in Undisturbed /\ [Next]_vars /\ request'[c] # Idle
  BY UndisturbedStep, HistoryStep DEF Idle, Undisturbed
<1>2. CASE request'[c] = request[c]
  <2>1. CanClose'
    BY <1>1, <1>2, ReadsStay DEF ClosesReady, CanClose, ActionsReady
  <2>2. ASSUME request[c].op = "closing" PROVE ApprovalReady'
    <3>1. UNCHANGED <<policy, approvals>>
      BY <1>1, <2>2, ReadsStay
    <3> QED BY <1>1, <2>2, <3>1, SameRows DEF ClosesReady, ApprovalReady, ApprovalRequired
  <2> QED BY <1>2, <2>1, <2>2
<1>3. ASSUME NEW u \in Users, StartClose(c, u)
      PROVE  CanClose' /\ request'[c].op = "close"
  BY <1>1, <1>3 DEF StartClose, Begin, CanClose, ActionsReady, TypeOK
<1>4. CASE CheckApproval(c) /\ request'[c] = [request[c] EXCEPT !.op = "closing"]
  <2>1. ApprovalReady
    BY <1>1, <1>4, EndRequest DEF CheckApproval
  <2>2. CanClose
    BY <1>1, <1>4 DEF CheckApproval, ClosesReady
  <2> QED BY <1>4, <2>1, <2>2, SameRows
      DEF CheckApproval, CanClose, ActionsReady, ApprovalReady, ApprovalRequired
<1>5. CASE \E u \in Users, r \in Ranks : StartAsk(c, u, r)
  BY <1>1, <1>5 DEF StartAsk, Begin, TypeOK
<1>6. CASE CheckReadiness(c) /\ request'[c] = [request[c] EXCEPT !.op = "asking"]
  BY <1>1, <1>6, RequestKinds DEF CheckReadiness
<1>7. CASE request'[c] = ToInsert(c)
  BY <1>7 DEF ToInsert
<1>8. CASE \E u \in Users, r \in Ranks, d \in Decisions : StartDecide(c, u, r, d)
  BY <1>1, <1>8 DEF StartDecide, Begin, TypeOK
<1> QED BY <1>1, <1>2, <1>3, <1>4, <1>5, <1>6, <1>7, <1>8, RequestSteps

LEMMA DecidesPendingStep ==
  ASSUME TypeOK, DecidesPending, [HistoryNext]_allVars
  PROVE  DecidesPending'
<1> SUFFICES ASSUME NEW c \in Undisturbed', request'[c].op = "decide"
             PROVE  approvals'[request'[c].rank].decision = "pending"
  BY DEF DecidesPending
<1>1. c \in Clients /\ c \in Undisturbed /\ [Next]_vars /\ request'[c] # Idle
  BY UndisturbedStep, HistoryStep DEF Idle, Undisturbed
<1>2. CASE request'[c] = request[c]
  BY <1>1, <1>2, ReadsStay DEF DecidesPending
<1>3. CASE \E u \in Users, r \in Ranks, d \in Decisions : StartDecide(c, u, r, d)
  BY <1>1, <1>3 DEF StartDecide, Begin, TypeOK
<1>4. CASE \E u \in Users : StartClose(c, u)
  BY <1>1, <1>4 DEF StartClose, Begin, TypeOK
<1>5. CASE CheckApproval(c) /\ request'[c] = [request[c] EXCEPT !.op = "closing"]
  BY <1>1, <1>5, RequestKinds DEF CheckApproval
<1>6. CASE \E u \in Users, r \in Ranks : StartAsk(c, u, r)
  BY <1>1, <1>6 DEF StartAsk, Begin, TypeOK
<1>7. CASE CheckReadiness(c) /\ request'[c] = [request[c] EXCEPT !.op = "asking"]
  BY <1>1, <1>7, RequestKinds DEF CheckReadiness
<1>8. CASE request'[c] = ToInsert(c)
  BY <1>8 DEF ToInsert
<1> QED BY <1>1, <1>2, <1>3, <1>4, <1>5, <1>6, <1>7, <1>8, RequestSteps

LEMMA AsksFreshStep ==
  ASSUME TypeOK, AsksFresh, [HistoryNext]_allVars
  PROVE  AsksFresh'
<1> SUFFICES ASSUME NEW c \in Undisturbed', Asking(c)'
             PROVE  AskIsFresh(c)'
  BY DEF AsksFresh
<1>1. c \in Clients /\ c \in Undisturbed /\ [Next]_vars /\ request'[c] # Idle
  BY UndisturbedStep, HistoryStep DEF Idle, Undisturbed, Asking
<1>2. CASE request'[c] = request[c]
  <2>1. Asking(c) /\ UNCHANGED approvals
    BY <1>1, <1>2, ReadsStay DEF Asking
  <2> QED BY <1>1, <1>2, <2>1, SameRows DEF AsksFresh, AskIsFresh
<1>3. ASSUME NEW u \in Users, NEW r \in Ranks, StartAsk(c, u, r) PROVE AskIsFresh(c)'
  <2>1. /\ request'[c] = [op |-> "ask", user |-> u, rank |-> r, seen |-> Latest,
                          pending |-> LatestIs("pending")]
        /\ UNCHANGED approvals
    BY <1>1, <1>3 DEF StartAsk, Begin, TypeOK
  <2>2. \A q \in Inserted : q < r
    BY <1>3 DEF StartAsk, NextRank, Taken
  <2> QED BY <2>1, <2>2, SameRows DEF AskIsFresh
<1>4. CASE CheckReadiness(c) /\ request'[c] = [request[c] EXCEPT !.op = "asking"]
  <2>1. /\ request'[c].op = "asking" /\ request'[c].rank = request[c].rank
        /\ request'[c].seen = request[c].seen /\ request'[c].pending = request[c].pending
        /\ request[c].op = "ask" /\ UNCHANGED approvals
    BY <1>1, <1>4, RequestKinds DEF CheckReadiness
  <2>2. AskIsFresh(c)
    BY <1>1, <2>1 DEF AsksFresh, Asking
  <2> QED BY <2>1, <2>2, SameRows DEF AskIsFresh
<1>5. CASE LookForPending(c) /\ ~SeesPending(c) /\ request'[c] = ToInsert(c)
  <2>1. AskIsFresh(c) /\ request[c].op = "asking" /\ UNCHANGED approvals
    BY <1>1, <1>5 DEF LookForPending, AsksFresh, Asking
  <2>2. ~LatestIs("pending")
    BY <1>5, <2>1 DEF SeesPending, AskIsFresh
  <2> QED BY <1>5, <2>1, <2>2, SameRows DEF AskIsFresh, ToInsert
<1>6. CASE \E u \in Users : StartClose(c, u)
  BY <1>1, <1>6 DEF StartClose, Begin, TypeOK, Asking
<1>7. CASE CheckApproval(c) /\ request'[c] = [request[c] EXCEPT !.op = "closing"]
  BY <1>1, <1>7, RequestKinds DEF CheckApproval, Asking
<1>8. CASE \E u \in Users, r \in Ranks, d \in Decisions : StartDecide(c, u, r, d)
  BY <1>1, <1>8 DEF StartDecide, Begin, TypeOK, Asking
<1> QED BY <1>1, <1>2, <1>3, <1>4, <1>5, <1>6, <1>7, <1>8, RequestSteps

(* A row inserted by an undisturbed request is above all others and finds   *)
(* the latest of them decided; every other row is in blind.                 *)
LEMMA InsertKeepsOrder ==
  ASSUME TypeOK, RowsInv, HistoryOK, AsksFresh, PendingIsLatestUnlessOvertaken,
         NEW c \in Clients, InsertApproval(c), Follow
  PROVE  PendingIsLatestUnlessOvertaken'
<1> DEFINE r == request[c].rank
<1>1. r \in Ranks /\ r \notin Inserted /\ request[c].user \in Users /\ Asking(c)
  BY RequestKinds DEF InsertApproval, RowsInv, RankIsFree, Asking
<1>2. /\ approvals'[r] = [by |-> request[c].user, decision |-> "pending",
                          decider |-> NoUser]
      /\ \A q \in Ranks : q # r => approvals'[q] = approvals[q]
  BY <1>1 DEF InsertApproval, TypeOK
<1>3. Inserted' = Inserted \cup {r} /\ Inserted \subseteq Ranks
  BY <1>1, <1>2, UsersAssumption DEF Inserted, NoRow
<1>4. blind \subseteq blind' /\ (c \in overtaken => r \in blind')
  BY <1>1, <1>3 DEF Follow, InsertApproval
<1>5. Ranks \subseteq Nat
  BY DEF Ranks
<1> SUFFICES ASSUME NEW q \in Inserted', NEW s \in Inserted',
                    q < s, approvals'[q].decision = "pending"
             PROVE  \E b \in blind' : q <= b /\ b <= s
  BY DEF PendingIsLatestUnlessOvertaken
<1>6. q \in Nat /\ s \in Nat /\ r \in Nat
  BY <1>1, <1>3, <1>5
<1>7. CASE q # r /\ s # r
  <2>1. q \in Inserted /\ s \in Inserted /\ approvals[q].decision = "pending"
    BY <1>2, <1>3, <1>7
  <2> QED BY <1>4, <2>1 DEF PendingIsLatestUnlessOvertaken
<1>8. CASE c \in overtaken /\ (q = r \/ s = r)
  BY <1>4, <1>6, <1>8
<1>9. CASE c \notin overtaken /\ (q = r \/ s = r)
  <2>1. AskIsFresh(c)
    BY <1>1, <1>9 DEF AsksFresh, Undisturbed
  <2>2. (\A p \in Inserted : p < r) /\ ~LatestIs("pending")
    BY <2>1 DEF AskIsFresh, InsertApproval
  <2>3. s = r /\ q \in Inserted /\ q # r
    BY <1>3, <1>6, <1>9, <2>2
  <2>4. approvals[q].decision = "pending"
    BY <1>2, <1>3, <2>3
  <2>5. PICK l \in Inserted : ~(l <= q)
    BY <2>2, <2>3, <2>4 DEF LatestIs, Latest
  <2>6. l \in Nat /\ q < l /\ l < r
    BY <1>3, <1>5, <1>6, <2>2, <2>5
  <2>7. PICK b \in blind : q <= b /\ b <= l
    BY <2>3, <2>4, <2>6 DEF PendingIsLatestUnlessOvertaken
  <2>8. b \in Nat
    BY <1>5, <2>7 DEF HistoryOK
  <2> QED BY <1>4, <1>6, <2>3, <2>6, <2>7, <2>8
<1> QED BY <1>7, <1>8, <1>9

LEMMA PendingIsLatestStep ==
  ASSUME TypeOK, RowsInv, HistoryOK, AsksFresh, PendingIsLatestUnlessOvertaken,
         [HistoryNext]_allVars
  PROVE  PendingIsLatestUnlessOvertaken'
<1>1. blind \subseteq blind'
  <2>1. CASE Follow
    BY <2>1 DEF Follow
  <2>2. CASE FollowScan
    BY <2>2 DEF FollowScan
  <2>3. CASE UNCHANGED allVars
    BY <2>3 DEF allVars, historyVars
  <2> QED BY <2>1, <2>2, <2>3, HistorySteps
<1>2. CASE UNCHANGED approvals
  BY <1>1, <1>2, SameRows DEF PendingIsLatestUnlessOvertaken
<1>3. ASSUME NEW c \in Clients, CommitDecision(c)
      PROVE  PendingIsLatestUnlessOvertaken'
  <2> DEFINE r == request[c].rank
  <2>1. r \in Inserted /\ request[c].to \in Decisions
    BY <1>3, RequestKinds DEF CommitDecision, RowsInv, DecidesOnRow
  <2>2. /\ approvals'[r] = [by |-> approvals[r].by, decision |-> request[c].to,
                            decider |-> request[c].user]
        /\ \A q \in Ranks : q # r => approvals'[q] = approvals[q]
    BY <1>3, <2>1 DEF CommitDecision, TypeOK, Inserted
  <2>3. Inserted' \subseteq Inserted /\ Inserted \subseteq Ranks
    BY <2>1, <2>2 DEF Inserted
  <2>4. \A q \in Inserted' : approvals'[q].decision = "pending" =>
          approvals[q].decision = "pending"
    BY <2>1, <2>2, <2>3 DEF Decisions
  <2> QED BY <1>1, <2>3, <2>4 DEF PendingIsLatestUnlessOvertaken
<1>4. ASSUME NEW c \in Clients, InsertApproval(c), ~UNCHANGED approvals
      PROVE  PendingIsLatestUnlessOvertaken'
  <2>1. Follow
    BY <1>4, HistorySteps DEF allVars, vars
  <2> QED BY <1>4, <2>1, InsertKeepsOrder
<1> QED
  BY <1>2, <1>3, <1>4, HistoryStep
  DEF Next, Resolve, Approve, vars, PatchStatus, CreateAction, UpdateAction,
      UpdatePolicy, StartClose, CheckApproval, CommitClose, StartAsk, CheckReadiness,
      LookForPending, StartDecide

LEMMA HistoryReads == HistorySpec => []ReadsInv
<1>1. ASSUME HistoryInit PROVE ReadsInv
  BY <1>1 DEF HistoryInit, EscalationsInit, Init, ReadsInv, ClosesReady, DecidesPending,
     AsksFresh, Asking, Idle, Undisturbed, PendingIsLatestUnlessOvertaken, Inserted
<1>2. TypeOK /\ RowsInv /\ HistoryOK /\ ReadsInv /\ [HistoryNext]_allVars => ReadsInv'
  BY ClosesReadyStep, DecidesPendingStep, AsksFreshStep, PendingIsLatestStep DEF ReadsInv
<1> QED BY <1>1, <1>2, HistoryTypes, PTL DEF HistorySpec

(* A pending approval is hidden from the gate by a later one only if that   *)
(* one, or one between them, was inserted by an overtaken request           *)
(* (request_approval, latest_approval).                                     *)
THEOREM PendingApprovalsAreLatest == HistorySpec => []PendingIsLatestUnlessOvertaken
BY HistoryReads, PTL DEF ReadsInv

LEMMA GatesInStep ==
  ASSUME TypeOK, ReadsInv, [HistoryNext]_allVars,
         status # "resolved", status' = "resolved"
  PROVE  \/ CanClose /\ ApprovalReady
         \/ \E c \in overtaken : request[c].op = "closing" /\ request'[c] = Idle
<1>1. PICK c \in Clients : CommitClose(c)
  BY HistoryStep DEF Next, Resolve, Approve, vars, PatchStatus, CreateAction,
     UpdateAction, UpdatePolicy, StartClose, CheckApproval, StartAsk, CheckReadiness,
     LookForPending, InsertApproval, StartDecide, CommitDecision, PatchStatuses
<1>2. request[c].op = "closing" /\ request'[c] = Idle
  BY <1>1, EndRequest DEF CommitClose
<1> QED BY <1>2 DEF ReadsInv, ClosesReady, Undisturbed

(* Evidence, corrective actions and approval are ready in the state in      *)
(* which the finding becomes resolved, unless the closure was overtaken     *)
(* between its reads and its commit (close_finding).                        *)
THEOREM GatesGuardClosure == HistorySpec => GatesHoldUnlessOvertaken
<1>1. TypeOK /\ ReadsInv /\ [HistoryNext]_allVars =>
        [status # "resolved" /\ status' = "resolved" =>
           \/ CanClose /\ ApprovalReady
           \/ \E c \in overtaken : request[c].op = "closing" /\ request'[c] = Idle]_allVars
  BY GatesInStep
<1> QED BY <1>1, HistoryTypes, HistoryReads, PTL DEF HistorySpec, GatesHoldUnlessOvertaken

LEMMA DecisionStays ==
  ASSUME TypeOK, RowsInv, ReadsInv, [HistoryNext]_allVars, NEW r \in Ranks,
         approvals[r].decision \in Decisions, approvals'[r] # approvals[r]
  PROVE  \E c \in overtaken : request[c].op = "decide" /\ request[c].rank = r
<1>1. ASSUME NEW c \in Clients, InsertApproval(c) PROVE FALSE
  <2>1. request[c].rank # r
    BY <1>1 DEF InsertApproval, RowsInv, RankIsFree, Asking, Inserted, Decisions, NoRow
  <2> QED BY <1>1, <2>1 DEF InsertApproval, TypeOK
<1>2. PICK c \in Clients : CommitDecision(c)
  BY <1>1, HistoryStep
  DEF Next, Resolve, Approve, vars, PatchStatus, CreateAction, UpdateAction,
      UpdatePolicy, StartClose, CheckApproval, CommitClose, StartAsk, CheckReadiness,
      LookForPending, StartDecide
<1>3. request[c].op = "decide" /\ request[c].rank = r
  BY <1>2 DEF CommitDecision, TypeOK
<1>4. c \in overtaken
  BY <1>3 DEF ReadsInv, DecidesPending, Undisturbed, Decisions
<1> QED BY <1>3, <1>4

(* A decided approval is written again only by a decision that was          *)
(* overtaken between its check and its commit (decide_closure_approval).    *)
THEOREM DecisionsAreFinal == HistorySpec => DecidedOnceUnlessOvertaken
<1>1. TypeOK /\ RowsInv /\ ReadsInv /\ [HistoryNext]_allVars =>
        [\A r \in Ranks :
           approvals[r].decision \in Decisions /\ approvals'[r] # approvals[r] =>
             \E c \in overtaken : request[c].op = "decide" /\ request[c].rank = r]_allVars
  BY DecisionStays
<1> QED BY <1>1, HistoryTypes, HistoryReads, PTL DEF HistorySpec, DecidedOnceUnlessOvertaken
-----------------------------------------------------------------------------
(***************************************************************************)
(* Scans that were not outrun: what they are about to insert still has no   *)
(* active escalation.                                                       *)
(***************************************************************************)
NewIsInactive ==
  \A n \in Scanners :
    /\ scan[n].new \subseteq scan[n].looked
    /\ scan[n].at = "idle" => scan[n].due = {} /\ scan[n].new = {}
    /\ \A s \in scan[n].new \ outrun[n] : ~Active(s)

ScansInv == NewIsInactive /\ EscalatedOnceUnlessOutrun

(* An escalation appears only at the commit of a scan that inserts it.      *)
LEMMA ActiveSteps ==
  ASSUME ScanTypeOK, [EscalationsNext]_sVars, NEW s \in Subjects, Active(s)', ~Active(s)
  PROVE  \E n \in Scanners : CommitScan(n) /\ s \in scan[n].new
<1>1. ~UNCHANGED <<unhandled, acknowledged>>
  BY DEF Active
<1>2. ASSUME NEW q \in Subjects, Acknowledge(q) PROVE FALSE
  <2>1. /\ unhandled[q] \in Nat /\ acknowledged[q] \in Nat
        /\ unhandled[s] \in Nat /\ acknowledged[s] \in Nat
    BY DEF ScanTypeOK
  <2>2. unhandled'[s] + acknowledged'[s] = unhandled[s] + acknowledged[s]
    BY <1>2, <2>1 DEF Acknowledge, ScanTypeOK
  <2> QED BY <2>2 DEF Active
<1>3. PICK n \in Scanners : CommitScan(n)
  BY <1>1, <1>2, EscalationSteps
  DEF scanVars, Expire, Postpone, ScanFinding, ScanActions, Escalate
<1>4. s \in scan[n].new
  BY <1>3 DEF CommitScan, Insert, Active
<1> QED BY <1>3, <1>4

LEMMA NewIsInactiveStep ==
  ASSUME ScanTypeOK, NewIsInactive, [EscalationsNext]_sVars, FollowScan
  PROVE  NewIsInactive'
<1> SUFFICES ASSUME NEW n \in Scanners
             PROVE  /\ scan'[n].new \subseteq scan'[n].looked
                    /\ scan'[n].at = "idle" => scan'[n].due = {} /\ scan'[n].new = {}
                    /\ \A s \in scan'[n].new \ outrun'[n] : ~Active(s)'
  BY DEF NewIsInactive
<1>1. scan[n].new \subseteq Subjects /\ scan[n].looked \subseteq Subjects
  BY DEF ScanTypeOK
<1>2. scan'[n].at # "idle" =>
        outrun'[n] = outrun[n] \cup
          {s \in scan[n].looked : \E m \in Scanners : Commits(m) /\ s \in scan[m].new}
  BY DEF FollowScan
<1>3. ASSUME scan'[n].at # "idle", NEW s \in scan[n].new, s \notin outrun'[n]
      PROVE  ~Active(s)'
  <2>1. ~Active(s) /\ s \in scan[n].looked /\ s \in Subjects
    BY <1>1, <1>2, <1>3 DEF NewIsInactive
  <2>2. ASSUME NEW m \in Scanners, CommitScan(m), s \in scan[m].new PROVE FALSE
    <3>1. Commits(m)
      BY <2>2 DEF CommitScan, Commits, NoScan, ScanTypeOK
    <3> QED BY <1>2, <1>3, <2>1, <2>2, <3>1
  <2> QED BY <2>1, <2>2, ActiveSteps
<1>4. CASE scan'[n] = scan[n]
  BY <1>1, <1>3, <1>4 DEF NewIsInactive
<1>5. CASE ScanFinding(n)
  <2>1. scan'[n].at = "finding" /\ scan'[n].new = {}
    BY <1>5 DEF ScanFinding, ScanTypeOK, NoScan
  <2> QED BY <2>1
<1>9. CASE CommitScan(n)
  BY <1>9 DEF CommitScan, ScanTypeOK, NoScan
<1>6. CASE ScanActions(n)
  <2>1. /\ scan'[n].at = "actions" /\ scan'[n].new = scan[n].new
        /\ scan'[n].looked = scan[n].looked
    BY <1>6 DEF ScanActions, ScanTypeOK
  <2> QED BY <1>3, <2>1 DEF NewIsInactive
<1>7. ASSUME NEW s \in Subjects, Escalate(n, s)
      PROVE  /\ scan'[n].new \subseteq scan'[n].looked
             /\ scan'[n].at # "idle"
             /\ \A q \in scan'[n].new \ outrun'[n] : ~Active(q)'
  <2>1. /\ scan'[n].at = scan[n].at
        /\ scan'[n].looked = scan[n].looked \cup {s}
        /\ scan'[n].new = IF Active(s) THEN scan[n].new ELSE scan[n].new \cup {s}
    BY <1>7 DEF Escalate, ScanTypeOK
  <2>2. scan[n].at # "idle"
    BY <1>7 DEF Escalate, NewIsInactive
  <2>3. \A q : Active(q)' <=> Active(q)
    BY <1>7 DEF Escalate, Active
  <2> QED BY <1>3, <2>1, <2>2, <2>3 DEF NewIsInactive
<1>8. \/ scan'[n] = scan[n]
      \/ ScanFinding(n) \/ ScanActions(n) \/ CommitScan(n)
      \/ \E s \in Subjects : Escalate(n, s)
  <2>1. ASSUME NEW m \in Scanners, ScanFinding(m) \/ ScanActions(m) \/ CommitScan(m),
               m # n
        PROVE  scan'[n] = scan[n]
    BY <2>1 DEF ScanFinding, ScanActions, CommitScan, ScanTypeOK
  <2>2. ASSUME NEW m \in Scanners, NEW s \in Subjects, Escalate(m, s), m # n
        PROVE  scan'[n] = scan[n]
    BY <2>2 DEF Escalate, ScanTypeOK
  <2> QED BY <2>1, <2>2, EscalationSteps DEF scanVars, Expire, Postpone, Acknowledge
<1> QED BY <1>4, <1>5, <1>6, <1>7, <1>8, <1>9

LEMMA EscalatedOnceStep ==
  ASSUME ScanTypeOK, NewIsInactive, EscalatedOnceUnlessOutrun, [EscalationsNext]_sVars,
         FollowScan
  PROVE  EscalatedOnceUnlessOutrun'
<1> SUFFICES ASSUME NEW q \in Subjects, q \notin doubled'
             PROVE  unhandled'[q] + acknowledged'[q] <= 1
  BY DEF EscalatedOnceUnlessOutrun
<1>1. \/ UNCHANGED <<unhandled, acknowledged>>
      \/ \E s \in Subjects : Acknowledge(s)
      \/ \E n \in Scanners : CommitScan(n)
  BY EscalationSteps DEF scanVars, Expire, Postpone, ScanFinding, ScanActions, Escalate
<1>2. /\ unhandled[q] + acknowledged[q] <= 1
      /\ unhandled[q] \in Nat /\ acknowledged[q] \in Nat
  BY DEF EscalatedOnceUnlessOutrun, ScanTypeOK, FollowScan
<1>3. ASSUME NEW s \in Subjects, Acknowledge(s)
      PROVE  unhandled'[q] + acknowledged'[q] <= 1
  <2>1. unhandled[s] \in Nat /\ acknowledged[s] \in Nat
    BY DEF ScanTypeOK
  <2> QED BY <1>2, <1>3, <2>1 DEF Acknowledge, ScanTypeOK
<1>4. ASSUME NEW n \in Scanners, CommitScan(n)
      PROVE  unhandled'[q] + acknowledged'[q] <= 1
  <2>1. CASE q \in scan[n].new
    <3>1. Commits(n)
      BY <1>4 DEF CommitScan, Commits, NoScan, ScanTypeOK
    <3>2. q \notin outrun[n]
      BY <2>1, <3>1 DEF FollowScan
    <3>3. unhandled[q] = 0 /\ acknowledged[q] = 0
      BY <1>2, <2>1, <3>2 DEF NewIsInactive, Active
    <3>4. unhandled'[q] \in {0, 1} /\ acknowledged'[q] = 0
      BY <1>4, <3>3 DEF CommitScan, Insert
    <3> QED BY <3>4
  <2>2. CASE q \notin scan[n].new
    BY <1>2, <1>4, <2>2 DEF CommitScan, Insert
  <2> QED BY <2>1, <2>2
<1> QED BY <1>1, <1>2, <1>3, <1>4

LEMMA ScansInvStep ==
  ASSUME ScanTypeOK, ScansInv, [HistoryNext]_allVars
  PROVE  ScansInv'
<1>1. CASE [EscalationsNext]_sVars /\ FollowScan
  BY <1>1, NewIsInactiveStep, EscalatedOnceStep DEF ScansInv
<1>2. CASE UNCHANGED <<scan, unhandled, acknowledged, outrun, doubled>>
  BY <1>2 DEF ScansInv, NewIsInactive, EscalatedOnceUnlessOutrun, Active
<1> QED BY <1>1, <1>2, HistorySteps DEF Follow, allVars, scanVars, historyVars

(* A subject is under two active escalations only if a scan escalated it    *)
(* that another scan had outrun since it looked (_ensure_escalation).       *)
THEOREM EscalationsAreSuppressed == HistorySpec => []EscalatedOnceUnlessOutrun
<1>1. HistoryInit => ScansInv
  BY EscalationAssumption
  DEF HistoryInit, EscalationsInit, ScansInv, NoScan, NewIsInactive,
      EscalatedOnceUnlessOutrun
<1>2. ScanTypeOK /\ ScansInv /\ [HistoryNext]_allVars => ScansInv'
  BY ScansInvStep
<1>3. ScansInv => EscalatedOnceUnlessOutrun
  BY DEF ScansInv
<1> QED BY <1>1, <1>2, <1>3, HistoryTypes, PTL DEF HistorySpec
=============================================================================
