------------------------- MODULE FindingEscalations -------------------------
(***************************************************************************)
(* Escalations of a finding and its corrective actions: the scan a manager  *)
(* starts over HTTP, composed with the requests of FindingClosure that      *)
(* change what the scan reads.                                              *)
(***************************************************************************)
EXTENDS FindingClosure

CONSTANTS
  Scanners,      \* scan requests that may be in progress at once
  MaxEscalations \* bound: equal escalations of a subject counted up to this

Finding == "the finding"  \* the subject of a finding_sla escalation

ASSUME EscalationAssumption == Finding \notin Actions /\ MaxEscalations \in Nat \ {0}

VARIABLES
  late,         \* subjects past their due date
  unhandled,    \* escalations of each subject with status open
  acknowledged, \* escalations of each subject with status acknowledged
  scan          \* scan request: what was late at its start, what it listed, looked
                \* up and inserted
scanVars == <<late, unhandled, acknowledged, scan>>

Subjects == Actions \cup {Finding}
NoScan == [at |-> "idle", past |-> {}, due |-> {}, looked |-> {}, new |-> {}]

EscalationsTypeOK ==
  /\ TypeOK
  /\ late \subseteq Subjects
  /\ unhandled \in [Subjects -> 0..MaxEscalations]
  /\ acknowledged \in [Subjects -> 0..MaxEscalations]
  /\ scan \in [Scanners -> [at : {"idle", "finding", "actions"},
                            past : SUBSET Subjects, due : SUBSET Subjects,
                            looked : SUBSET Subjects, new : SUBSET Subjects]]

EscalationsInit ==
  /\ Init
  /\ late = {}
  /\ unhandled = [s \in Subjects |-> 0]
  /\ acknowledged = [s \in Subjects |-> 0]
  /\ scan = [n \in Scanners |-> NoScan]
-----------------------------------------------------------------------------
(* Dates.                                                                   *)

Expire(s) ==
  /\ s \notin late
  /\ late' = late \cup {s}
  /\ UNCHANGED <<unhandled, acknowledged, scan>>

(* PATCH actions/{id} with a later due_date, or PATCH of the policy with    *)
(* more days for the finding's severity.                                    *)
Postpone(s) ==
  /\ s \in late
  /\ s # Finding => action[s] # "none"
  /\ late' = late \ {s}
  /\ UNCHANGED <<unhandled, acknowledged, scan>>
-----------------------------------------------------------------------------
(* POST governance-escalations/scan.                                        *)

Watched(s) == IF s = Finding THEN status \in {"open", "acknowledged"}
                             ELSE action[s] \in {"open", "in_review"}

(* _ensure_escalation's query.                                              *)
Active(s) == unhandled[s] + acknowledged[s] > 0

Overdue(S) == {s \in late \cap S : Watched(s)}

(* The time of the scan, and the finding if it is overdue.                  *)
ScanFinding(n) ==
  /\ scan[n].at = "idle"
  /\ scan' = [scan EXCEPT ![n] = [NoScan EXCEPT !.at = "finding", !.past = late,
                                               !.due = Overdue({Finding})]]
  /\ UNCHANGED <<late, unhandled, acknowledged>>

(* Mutant of Escalate: escalations that exist are not looked for.           *)
EscalateAnyway(n, s) ==
  /\ s \in scan[n].due \ scan[n].looked
  /\ scan' = [scan EXCEPT ![n].looked = @ \cup {s}, ![n].new = @ \cup {s}]
  /\ UNCHANGED <<late, unhandled, acknowledged>>

(* _ensure_escalation: a row is flushed for a subject without an active     *)
(* escalation.                                                              *)
Escalate(n, s) ==
  /\ s \in scan[n].due \ scan[n].looked
  /\ scan' = [scan EXCEPT ![n].looked = @ \cup {s},
                          ![n].new = IF Active(s) THEN @ ELSE @ \cup {s}]
  /\ UNCHANGED <<late, unhandled, acknowledged>>

(* After the finding, the corrective actions that are overdue at the time   *)
(* of the scan.                                                             *)
ScanActions(n) ==
  /\ scan[n].at = "finding"
  /\ scan[n].due = scan[n].looked
  /\ scan' = [scan EXCEPT ![n].at = "actions",
                          ![n].due = @ \cup Overdue(scan[n].past \cap Actions)]
  /\ UNCHANGED <<late, unhandled, acknowledged>>

(* One row more for each subject of S.                                      *)
Insert(S) ==
  unhandled' = [s \in Subjects |->
    IF s \in S /\ unhandled[s] < MaxEscalations THEN unhandled[s] + 1 ELSE unhandled[s]]

(* Commit makes the new rows visible.                                       *)
CommitScan(n) ==
  /\ scan[n].at = "actions"
  /\ scan[n].due = scan[n].looked
  /\ Insert(scan[n].new)
  /\ scan' = [scan EXCEPT ![n] = NoScan]
  /\ UNCHANGED <<late, acknowledged>>

(* POST governance-escalations/{id}/acknowledge of an open escalation.      *)
Acknowledge(s) ==
  /\ unhandled[s] > 0
  /\ acknowledged[s] < MaxEscalations
  /\ unhandled' = [unhandled EXCEPT ![s] = @ - 1]
  /\ acknowledged' = [acknowledged EXCEPT ![s] = @ + 1]
  /\ UNCHANGED <<late, scan>>

Scan(n) ==
  \/ ScanFinding(n) \/ ScanActions(n) \/ CommitScan(n)
  \/ \E s \in Subjects : Escalate(n, s)

EscalationsNext ==
  \/ Next /\ UNCHANGED scanVars
  \/ /\ \/ \E s \in Subjects : Expire(s) \/ Postpone(s) \/ Acknowledge(s)
        \/ \E n \in Scanners : Scan(n)
     /\ UNCHANGED vars

EscalationsSpec == EscalationsInit /\ [][EscalationsNext]_<<vars, scanVars>>
-----------------------------------------------------------------------------
(* "Active duplicate escalations are suppressed by repository logic".       *)
NoDuplicateEscalation == \A s \in Subjects : unhandled[s] + acknowledged[s] <= 1

(* A scan leaves nothing behind: every subject it found overdue is under an *)
(* active escalation after its commit, whoever inserted it.                 *)
ScanEscalatesWhatIsLate ==
  [][\A n \in Scanners :
       scan[n].at = "actions" /\ scan'[n].at = "idle" =>
         \A s \in scan[n].due : Active(s)']_<<vars, scanVars>>
=============================================================================
