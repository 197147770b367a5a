SPECIFICATION Spec
CONSTANT ProbeFailures = 2
CONSTANT ChipFailures = 2
CONSTANT GtlsGroup = 1
CONSTANT EsdResets = 2
CONSTANT Reason = {"UP", "UP_INVALID_BASE"}
INVARIANT TypeOK
INVARIANT PublishedTogether
INVARIANT BringUpOrdered
PROPERTY ReadyEstablished
PROPERTY MachinesEnd
