SPECIFICATION Spec
CONSTANTS
  Operations = {o1, o2}
  Keyed = {o1}
  Impatient = {o1}
  Tries = 2
  DatabaseFails = FALSE
INVARIANT
  OneResultPerKey
CHECK_DEADLOCK FALSE
