SPECIFICATION FairSpec
CONSTANTS
  Operations = {o1, o2}
  Keyed = {o1, o2}
  Impatient = {o2}
  Tries = 2
  DatabaseFails = TRUE
INVARIANTS
  ResultsMatchStatus
PROPERTIES
  ServiceContract
  EveryCallEnds
CHECK_DEADLOCK FALSE
