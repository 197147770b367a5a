SPECIFICATION FairSpec
CONSTANT Reentrant = TRUE
INVARIANTS TypeOK Exclusive RequestsHeld QuietWhenStopped
PROPERTIES ReinitBeforeUse ImplementsHardwareOwner Served
