SPECIFICATION MCSpec
CONSTANTS
  Clients = {c1, c2}
  Actions = {a1}
  Users = {amy, bob}
  Managers = {amy}
  Severity = "critical"
  HasEvidence = TRUE
  Governed = TRUE
  MaxApprovals = 3
  Scanners = {n1, n2}
  MaxEscalations = 2
SYMMETRY Symmetry
INVARIANTS
  EscalationsTypeOK
  MakerChecker
  ResolvedWasReviewed
  PendingIsLatestUnlessOvertaken
  EscalatedOnceUnlessOutrun
PROPERTIES
  GatesHoldUnlessOvertaken
  DecidedOnceUnlessOvertaken
