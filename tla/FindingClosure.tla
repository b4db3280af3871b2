--------------------------- MODULE FindingClosure ---------------------------
(***************************************************************************)
(* The way of one finding to its closure: its status, its corrective        *)
(* actions, the closure approvals and the governance policy of its project. *)
(*                                                                          *)
(* Every HTTP request runs in a session of its own at READ COMMITTED: each  *)
(* SELECT sees what is committed when it runs, a row read once keeps the    *)
(* values first read for the rest of the session, and the commit writes     *)
(* back the attributes that were assigned a different value.  A request is  *)
(* therefore a sequence of reads and one write, and requests of different   *)
(* clients interleave.                                                      *)
(***************************************************************************)
EXTENDS Naturals

CONSTANTS
  Clients,       \* requests that may be in progress at once
  Actions,       \* corrective actions of the finding
  Users,         \* authenticated users of the organisation
  Managers,      \* users with role org_admin or project_manager
  Severity,      \* of the finding
  HasEvidence,   \* does the finding have evidence rows?
  Governed,      \* CONTROLCHECK_GOVERNANCE_ENABLED
  MaxApprovals   \* bound: approval requests followed

ASSUME ClosureAssumption ==
  /\ Managers \subseteq Users
  /\ Severity \in {"critical", "warning", "observation"}
  /\ HasEvidence \in BOOLEAN
  /\ Governed \in BOOLEAN
  /\ MaxApprovals \in Nat

NoUser == "no user"

ASSUME UsersAssumption == NoUser \notin Users

VARIABLES
  status,    \* finding: status
  action,    \* corrective action: status, "none" until it is created
  policy,    \* project: does the finding's severity require an approval?
  approvals, \* closure approvals by requested_at, the start of their request
  request    \* client: the request in progress, with what it has read

vars == <<status, action, policy, approvals, request>>

VALID_STATUSES == {"open", "acknowledged", "resolved", "dismissed"}
PatchStatuses == {"open", "in_review", "dismissed"}
ActionStatuses == {"open", "in_review", "completed", "cancelled"}
Decisions == {"approved", "rejected"}
Governable == {"critical", "warning"}

Ranks == 1..MaxApprovals
NoRow == [by |-> NoUser, decision |-> "none", decider |-> NoUser]
Rows == [by : Users, decision : {"pending"} \cup Decisions,
         decider : Users \cup {NoUser}]

Idle == [op |-> "idle"]

(* A request between two of its statements: what it is and what it read.    *)
Requests ==
  {Idle}
  \cup [op : {"close", "closing"}, seen : VALID_STATUSES]
  \cup [op : {"ask", "asking"}, user : Users, rank : Ranks, seen : SUBSET Ranks,
        pending : BOOLEAN]
  \cup [op : {"inserting"}, user : Users, rank : Ranks]
  \cup [op : {"decide"}, user : Users, rank : Ranks, to : Decisions]

TypeOK ==
  /\ status \in VALID_STATUSES
  /\ action \in [Actions -> ActionStatuses \cup {"none"}]
  /\ policy \in BOOLEAN
  /\ approvals \in [Ranks -> Rows \cup {NoRow}]
  /\ request \in [Clients -> Requests]

Init ==
  /\ status = "open"
  /\ action = [a \in Actions |-> "none"]
  /\ policy = (Severity = "critical")
  /\ approvals = [r \in Ranks |-> NoRow]
  /\ request = [c \in Clients |-> Idle]
-----------------------------------------------------------------------------
(* What the handlers read.                                                  *)

(* evaluate_closure_readiness.                                              *)
ActionsReady == \A a \in Actions : action[a] \notin {"open", "in_review"}
CanClose == HasEvidence /\ ActionsReady

ApprovalRequired == Severity \in Governable /\ policy

(* latest_approval: the row with the latest requested_at, if there is one.  *)
Inserted == {r \in Ranks : approvals[r] # NoRow}
Latest == {r \in Inserted : \A q \in Inserted : q <= r}
LatestIs(decision) == \E r \in Latest : approvals[r].decision = decision

(* approval_gate, as build_readiness uses it.                               *)
ApprovalReady == Governed /\ ApprovalRequired => LatestIs("approved")

(* A client has one request in progress at a time; those that read and      *)
(* write in one step need a client with none.                               *)
SomeIdle == \E c \in Clients : request[c] = Idle
Begin(c, r) == request[c] = Idle /\ request' = [request EXCEPT ![c] = r]
Continue(c, op) == request' = [request EXCEPT ![c].op = op]
End(c) == request' = [request EXCEPT ![c] = Idle]
-----------------------------------------------------------------------------
(* Statuses and corrective actions.                                         *)

(* Mutant of PatchStatus: the repository stores what the schema admits.     *)
PatchUnchecked(s) ==
  /\ SomeIdle
  /\ status' = s
  /\ UNCHANGED <<action, policy, approvals, request>>

(* PATCH findings/{id}/status: the schema admits PatchStatuses, the         *)
(* repository only VALID_STATUSES; in_review is refused with a 422.  A      *)
(* status equal to the one it read is not written, so the request acts as   *)
(* one step: where it reads, or where it commits.                           *)
PatchStatus(s) ==
  /\ SomeIdle
  /\ status' = IF s \in VALID_STATUSES THEN s ELSE status
  /\ UNCHANGED <<action, policy, approvals, request>>

(* POST findings/{id}/actions: nothing is asked about the finding's status. *)
CreateAction(a) ==
  /\ SomeIdle
  /\ action[a] = "none"
  /\ action' = [action EXCEPT ![a] = "open"]
  /\ UNCHANGED <<status, policy, approvals, request>>

(* PATCH actions/{id} of the status: any of ActionStatuses after any other. *)
(* As above it acts as one step.                                            *)
UpdateAction(a, s) ==
  /\ SomeIdle
  /\ action[a] # "none"
  /\ action' = [action EXCEPT ![a] = s]
  /\ UNCHANGED <<status, policy, approvals, request>>
-----------------------------------------------------------------------------
(* POST findings/{id}/close.                                                *)

(* Mutant of StartClose: the corrective actions are not asked.              *)
StartUnready(c, u) ==
  /\ Governed => u \in Managers
  /\ Begin(c, [op |-> "close", seen |-> status])
  /\ UNCHANGED <<status, action, policy, approvals>>

(* Authority, the finding, its evidence and its actions; 409 if not ready.  *)
StartClose(c, u) ==
  /\ Governed => u \in Managers
  /\ CanClose
  /\ Begin(c, [op |-> "close", seen |-> status])
  /\ UNCHANGED <<status, action, policy, approvals>>

(* Mutant of CheckApproval: an approval that is still pending will do.      *)
CheckAsked(c) ==
  /\ request[c].op = "close"
  /\ IF ApprovalReady \/ LatestIs("pending") THEN Continue(c, "closing") ELSE End(c)
  /\ UNCHANGED <<status, action, policy, approvals>>

(* The policy and the latest approval; 409 if the approval is missing.      *)
CheckApproval(c) ==
  /\ request[c].op = "close"
  /\ IF ApprovalReady THEN Continue(c, "closing") ELSE End(c)
  /\ UNCHANGED <<status, action, policy, approvals>>

(* update_status and commit.                                                *)
CommitClose(c) ==
  /\ request[c].op = "closing"
  /\ status' = IF request[c].seen = "resolved" THEN status ELSE "resolved"
  /\ End(c)
  /\ UNCHANGED <<action, policy, approvals>>
-----------------------------------------------------------------------------
(* Governance: the policy, closure approvals and their decision.            *)

(* PATCH projects/{id}/governance-policy by a manager, of the flag that     *)
(* matters to this finding.                                                 *)
UpdatePolicy(required) ==
  /\ SomeIdle
  /\ Managers # {}
  /\ policy' = required
  /\ UNCHANGED <<status, action, approvals, request>>

(* requested_at is the start of the transaction, later than that of every   *)
(* request that began before.                                               *)
Asking(c) == request[c].op \in {"ask", "asking", "inserting"}
Taken == Inserted \cup {request[c].rank : c \in {d \in Clients : Asking(d)}}
NextRank(r) == (\A q \in Taken : q < r) /\ (r = 1 \/ r - 1 \in Taken)

(* POST findings/{id}/closure-approval: the gate reads the policy and the   *)
(* latest approval, which stays in the session as it was read.              *)
StartAsk(c, u, r) ==
  /\ ApprovalRequired
  /\ NextRank(r)
  /\ Begin(c, [op |-> "ask", user |-> u, rank |-> r, seen |-> Latest,
               pending |-> LatestIs("pending")])
  /\ UNCHANGED <<status, action, policy, approvals>>

(* The evidence and the actions; 409 if not ready.                          *)
CheckReadiness(c) ==
  /\ request[c].op = "ask"
  /\ IF CanClose THEN Continue(c, "asking") ELSE End(c)
  /\ UNCHANGED <<status, action, policy, approvals>>

(* request_approval looks for the latest approval again: the row that the  *)
(* gate read keeps its values in the session, another one is read now.      *)
SeesPending(c) ==
  IF Latest = request[c].seen THEN request[c].pending ELSE LatestIs("pending")

ToInsert(c) == [op |-> "inserting", user |-> request[c].user, rank |-> request[c].rank]

(* Mutant of LookForPending: the row goes in whatever is found.             *)
InsertAnyway(c) ==
  /\ request[c].op = "asking"
  /\ request' = [request EXCEPT ![c] = ToInsert(c)]
  /\ UNCHANGED <<status, action, policy, approvals>>

(* A pending approval is returned instead of a new row.                     *)
LookForPending(c) ==
  /\ request[c].op = "asking"
  /\ request' = [request EXCEPT ![c] = IF SeesPending(c) THEN Idle ELSE ToInsert(c)]
  /\ UNCHANGED <<status, action, policy, approvals>>

(* The new row is flushed, and visible to others when the request commits.  *)
(* Nothing is asked again.                                                  *)
InsertApproval(c) ==
  LET q == request[c] IN
  /\ q.op = "inserting"
  /\ approvals' = [approvals EXCEPT ![q.rank] =
                     [by |-> q.user, decision |-> "pending", decider |-> NoUser]]
  /\ End(c)
  /\ UNCHANGED <<status, action, policy>>

(* Mutants of StartDecide: the requester may decide; a decided request may  *)
(* be decided again.                                                        *)
DecideOwn(c, u, r, d) ==
  /\ approvals[r].decision = "pending"
  /\ u \in Managers
  /\ Begin(c, [op |-> "decide", user |-> u, rank |-> r, to |-> d])
  /\ UNCHANGED <<status, action, policy, approvals>>

DecideAgain(c, u, r, d) ==
  /\ r \in Inserted
  /\ u \in Managers
  /\ u # approvals[r].by
  /\ Begin(c, [op |-> "decide", user |-> u, rank |-> r, to |-> d])
  /\ UNCHANGED <<status, action, policy, approvals>>

(* POST closure-approvals/{id}/decision: a pending row, and a manager who   *)
(* is not its requester; 409 or 403 otherwise.                              *)
StartDecide(c, u, r, d) ==
  /\ approvals[r].decision = "pending"
  /\ u \in Managers
  /\ u # approvals[r].by
  /\ Begin(c, [op |-> "decide", user |-> u, rank |-> r, to |-> d])
  /\ UNCHANGED <<status, action, policy, approvals>>

(* decide_approval writes the decision without asking again.                *)
CommitDecision(c) ==
  LET q == request[c] IN
  /\ q.op = "decide"
  /\ approvals' = [approvals EXCEPT ![q.rank] =
                     [by |-> @.by, decision |-> q.to, decider |-> q.user]]
  /\ End(c)
  /\ UNCHANGED <<status, action, policy>>
-----------------------------------------------------------------------------
Resolve(c) ==
  \/ \E u \in Users : StartClose(c, u)
  \/ CheckApproval(c) \/ CommitClose(c)

Approve(c) ==
  \/ \E u \in Users, r \in Ranks : StartAsk(c, u, r)
  \/ CheckReadiness(c) \/ LookForPending(c) \/ InsertApproval(c)
  \/ \E u \in Users, r \in Ranks, d \in Decisions : StartDecide(c, u, r, d)
  \/ CommitDecision(c)

Next ==
  \/ \E s \in PatchStatuses : PatchStatus(s)
  \/ \E a \in Actions : CreateAction(a) \/ \E s \in ActionStatuses : UpdateAction(a, s)
  \/ \E required \in BOOLEAN : UpdatePolicy(required)
  \/ \E c \in Clients : Resolve(c) \/ Approve(c)

Spec == Init /\ [][Next]_vars
-----------------------------------------------------------------------------
(* Safety under every interleaving of requests.                             *)

(* Maker-checker: whoever decided an approval is a manager and not its      *)
(* requester, although the row is read and written in different statements. *)
MakerChecker ==
  \A r \in Inserted : approvals[r].decider # NoUser =>
    approvals[r].decider \in Managers \ {approvals[r].by}

(* "The backend revalidates all closure gates before changing the finding   *)
(* to resolved": they hold in the state in which it becomes resolved.       *)
GatesHoldAtClosure ==
  [][status # "resolved" /\ status' = "resolved" => CanClose /\ ApprovalReady]_vars
=============================================================================
