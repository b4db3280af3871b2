SPECIFICATION FairSpec
CONSTANTS
  Uploads = {u1, u2, u3}
  Books = {b1, b2}
  Flawed = {b1}
  StorageFails = TRUE
  DatabaseFails = TRUE
INVARIANTS
  SnapshotHasSource
  NothingLeftBehind
PROPERTIES
  RegistryContract
  EveryUploadIsAnswered
CHECK_DEADLOCK FALSE
