SPECIFICATION Spec
CONSTANTS
  Jobs = {j1}
  Keys = {k1}
  Workers = {w1, w2}
  MAX_ATTEMPTS = 3
  MaxRetries = 3
  PollLimit = 1
  Grace = 1
  TimeLimit = 2
  Faults = {"timeout", "analysis"}
  SharedKeys = FALSE
  MaxClaims = 4
  MaxRuns = 2
  MaxCopies = 1
PROPERTY
  SettledIsFinal
