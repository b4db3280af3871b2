-------------------------- MODULE GovernanceHistory --------------------------
(***************************************************************************)
(* FindingEscalations with a history of the requests that were overtaken:   *)
(* another request committed a change of something they had already read.   *)
(* Nothing in the code excludes it (no lock, no version, no constraint), and *)
(* its gates promise nothing to such a request.  The history names them, so *)
(* that the properties hold of any number of overlapping requests.          *)
(***************************************************************************)
EXTENDS FindingEscalations

VARIABLES
  overtaken, \* clients whose request in progress was overtaken
  blind,     \* approvals inserted by an overtaken request
  outrun,    \* scan request: subjects that were escalated since it looked
  doubled,   \* subjects escalated by a scan that was outrun on them
  relaxed    \* did the policy ever ask for no approval?

historyVars == <<overtaken, blind, outrun, doubled, relaxed>>
allVars == <<vars, scanVars, historyVars>>

HistoryOK ==
  /\ overtaken \subseteq Clients
  /\ blind \subseteq Ranks
  /\ outrun \in [Scanners -> SUBSET Subjects]
  /\ doubled \subseteq Subjects
  /\ relaxed \in BOOLEAN

HistoryInit ==
  /\ EscalationsInit
  /\ overtaken = {}
  /\ blind = {}
  /\ outrun = [n \in Scanners |-> {}]
  /\ doubled = {}
  /\ relaxed = ~policy

(* A commit changes what the request of c has read and will act upon: the   *)
(* corrective actions, the policy and the approvals for a closure, the      *)
(* approvals for a new request, its own row for a decision.                 *)
Overtakes(c) ==
  LET q == request[c] IN
  \/ q.op \in {"close", "closing"} /\ action' # action
  \/ q.op = "closing" /\ <<policy, approvals>>' # <<policy, approvals>>
  \/ Asking(c) /\ approvals' # approvals
  \/ q.op = "decide" /\ approvals'[q.rank] # approvals[q.rank]

Follow ==
  /\ overtaken' = {c \in Clients : /\ request'[c] # Idle
                                   /\ c \in overtaken \/ Overtakes(c)}
  /\ blind' = blind \cup
       {r \in Inserted' \ Inserted :
          \E c \in overtaken : request[c].op = "inserting" /\ request[c].rank = r}
  /\ relaxed' = (relaxed \/ ~policy')
  /\ UNCHANGED <<outrun, doubled>>

(* The commit of scan n, if it is one.                                      *)
Commits(n) == scan[n].at = "actions" /\ scan'[n].at = "idle"

FollowScan ==
  /\ outrun' = [n \in Scanners |->
       IF scan'[n].at = "idle" THEN {}
       ELSE outrun[n] \cup
            {s \in scan[n].looked : \E m \in Scanners : Commits(m) /\ s \in scan[m].new}]
  /\ doubled' = doubled \cup
       {s \in Subjects : \E n \in Scanners : Commits(n) /\ s \in scan[n].new \cap outrun[n]}
  /\ UNCHANGED <<overtaken, blind, relaxed>>

HistoryNext ==
  \/ Next /\ UNCHANGED scanVars /\ Follow
  \/ /\ \/ \E s \in Subjects : Expire(s) \/ Postpone(s) \/ Acknowledge(s)
        \/ \E n \in Scanners : Scan(n)
     /\ UNCHANGED vars
     /\ FollowScan

HistorySpec == HistoryInit /\ [][HistoryNext]_allVars
-----------------------------------------------------------------------------
(* Unless managers relaxed the policy, a critical finding under governance  *)
(* is resolved only after a manager decided on somebody else's request, and *)
(* only if it has evidence: whatever overlaps or is overtaken.              *)
ResolvedWasReviewed ==
  status = "resolved" =>
    /\ HasEvidence
    /\ Governed /\ Severity = "critical" /\ ~relaxed =>
         \E r \in Inserted : approvals[r].decider \in Managers \ {approvals[r].by}

(* The gates of close_finding hold where the finding becomes resolved, but  *)
(* for a closure that was overtaken between its reads and its commit.       *)
GatesHoldUnlessOvertaken ==
  [][status # "resolved" /\ status' = "resolved" =>
       \/ CanClose /\ ApprovalReady
       \/ \E c \in overtaken : request[c].op = "closing" /\ request'[c] = Idle]_allVars

(* approval_already_decided: a decision is made once, but for a decision    *)
(* that was overtaken by another one between its check and its commit.      *)
DecidedOnceUnlessOvertaken ==
  [][\A r \in Ranks :
       approvals[r].decision \in Decisions /\ approvals'[r] # approvals[r] =>
         \E c \in overtaken : request[c].op = "decide" /\ request[c].rank = r]_allVars

(* A pending approval is the latest one, which is the only one the gate     *)
(* asks for: a request buries one only if it, or one in between, was        *)
(* overtaken after it had looked for a pending approval.                    *)
PendingIsLatestUnlessOvertaken ==
  \A q, s \in Inserted :
    q < s /\ approvals[q].decision = "pending" => \E r \in blind : q <= r /\ r <= s

(* A subject is under one active escalation, unless a scan escalated it     *)
(* that was outrun by another one after it had looked.                      *)
EscalatedOnceUnlessOutrun ==
  \A s \in Subjects \ doubled : unhandled[s] + acknowledged[s] <= 1
=============================================================================
