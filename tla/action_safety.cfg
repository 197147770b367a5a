SPECIFICATION Spec
CONSTANTS
  Snapshots = 2
  Kinds = {"enroll", "verify", "identify"}
  Galleries <- MCGalleries
  Samples = 4
CHECK_DEADLOCK FALSE
INVARIANTS TypeOK JobGrounded OutcomeComplete
PROPERTY InterruptionClean
