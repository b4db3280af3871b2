SPECIFICATION MCSpec
CONSTANTS
  Clients = {c1}
  Actions = {a1}
  Users = {amy}
  Managers = {amy}
  Severity = "critical"
  HasEvidence = TRUE
  Governed = TRUE
  MaxApprovals = 0
  Scanners = {n1, n2}
  MaxEscalations = 2
SYMMETRY Symmetry
INVARIANT
  NoDuplicateEscalation
