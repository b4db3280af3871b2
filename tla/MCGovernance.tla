---------------------------- MODULE MCGovernance ----------------------------
(***************************************************************************)
(* GovernanceHistory for TLC.  Clients, scanners and corrective actions are *)
(* interchangeable; users are not, since some of them are managers.         *)
(***************************************************************************)
EXTENDS GovernanceHistory, TLC

Symmetry ==
  Permutations(Clients) \cup Permutations(Scanners) \cup Permutations(Actions)

(***************************************************************************)
(* Bound: the requests and rows of a closure and those of the escalations   *)
(* have no variable in common but the status of the finding and of its      *)
(* actions, which the PATCH requests change on either side, so a behaviour  *)
(* follows the one side or the other.                                       *)
(***************************************************************************)
NoClosure == Inserted = {} /\ ~relaxed /\ \A c \in Clients : request[c] = Idle
NoEscalation ==
  /\ late = {}
  /\ \A s \in Subjects : ~Active(s)
  /\ \A n \in Scanners : scan[n].at = "idle"

MCSpec == HistoryInit /\ [][HistoryNext /\ (NoClosure \/ NoEscalation)']_allVars
=============================================================================
