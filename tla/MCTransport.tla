----------------------------- MODULE MCTransport -----------------------------
EXTENDS Transport

\* Rows of command_policies: FDT arm (0x32), image (0x20), firmware version (0xa8).
Arm == "arm"
Version == "version"
Capture == "image"

Commands == {Arm, Version, Capture}

Slots == {"system", "frame"}

Responses == [c \in Commands |->
  CASE c = Arm -> "none" [] c = Version -> "system" [] c = Capture -> "frame"]

VersionResponses == [c \in {Version} |-> "system"]

=============================================================================
