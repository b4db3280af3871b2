SPECIFICATION MCSpec
CONSTANTS
  Clients = {c1, c2}
  Actions = {a1}
  Users = {amy}
  Managers = {}
  Severity = "critical"
  HasEvidence = TRUE
  Governed = FALSE
  MaxApprovals = 0
  Scanners = {}
  MaxEscalations = 1
SYMMETRY Symmetry
PROPERTY
  GatesHoldAtClosure
