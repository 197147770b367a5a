SPECIFICATION FairSpec
CONSTANT Command = {"version"}
CONSTANT Slot <- Slots
CONSTANT Image = "frame"
CONSTANT ResponseSlot <- VersionResponses
CONSTANT Retried = {"version"}
CONSTANT Interruptible = {"version"}
PROPERTY WaitsEnd
