SPECIFICATION FairSpec
CONSTANTS
  Jobs = {j1, j2}
  Keys = {k1}
  Workers = {w1}
  MAX_ATTEMPTS = 2
  MaxRetries = 1
  PollLimit = 1
  Grace = 1
  TimeLimit = 2
  Faults = {}
  SharedKeys = TRUE
  MaxClaims = 3
  MaxRuns = 2
  MaxCopies = 1
PROPERTY
  EveryJobSettles
