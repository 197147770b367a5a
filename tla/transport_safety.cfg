SPECIFICATION Spec
CONSTANT Command <- Commands
CONSTANT Slot <- Slots
CONSTANT Image = "frame"
CONSTANT ResponseSlot <- Responses
CONSTANT Retried = {"arm", "version"}
CONSTANT Interruptible = {"version"}
INVARIANTS TypeOK CallbackOwed
PROPERTIES ResultHonest ImplementsChannel
