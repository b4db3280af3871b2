SPECIFICATION FairHistorySpec
CONSTANTS
  Jobs = {j1}
  Keys = {k1}
  Workers = {w1, w2}
  MAX_ATTEMPTS = 2
  MaxRetries = 1
  PollLimit = 1
  Grace = 1
  TimeLimit = 2
  Faults = {"crash", "timeout", "database", "storage", "analysis"}
  SharedKeys = FALSE
  MaxClaims = 4
  MaxRuns = 3
  MaxCopies = 1
  MaxFaults = 1
INVARIANTS
  UploadOutlivesItsJob
  OneHolderPerJob
  QueuedJobHasUpload
  AttemptsPaidByRecoveries
PROPERTIES
  TakenAfterGrace
  SettledStaysSettled
  JobsContract
  JobsSettleAfterFaults
