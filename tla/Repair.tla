------------------------------- MODULE Repair -------------------------------
(* The composite commands of device/commands.c that repair the sensor in      *)
(* place: arming with one configuration repair, and the recovery from an      *)
(* electrostatic discharge.  Operators on the session record t of Open.tla;   *)
(* an ordinary answer that asks for more is "rejected".                       *)
EXTENDS Base

CONSTANT EsdResets \* resets a repair gives up after: 10

ASSUME RepairAssumption == EsdResets \in Nat \ {0}

NoEsd == [notice |-> FALSE]

\* ---------------------------------------------------------------------------
\* Arming.  t.arm is the command it waits for.

ArmStart(t) == [t EXCEPT !.arm = "FIRST"]

\* A completed arm is joined although the session stops; a repair is not begun.
ArmOutcome(t, o) ==
  IF o \notin {"ok", "rejected", "exhausted"} THEN o
  ELSE IF t.cancelled /\ (t.arm = "CONFIG" \/ o = "exhausted") THEN "cancelled"
  ELSE "none"

ArmNext(t, o) ==
  IF t.cancelled \/ o \notin {"ok", "rejected", "exhausted"} THEN "none"
  ELSE IF t.arm = "CONFIG" THEN "REPEAT"
  ELSE IF t.arm = "FIRST" /\ o = "rejected" THEN "CONFIG"
  ELSE "none"

\* Mutant of RepairJoined: the retry count outlives its machine.
RepairJoined_KeepsCount(t, e) ==
  [t EXCEPT !.sub = "joined", !.at = "none", !.arm = "none", !.esd = NoEsd, !.joined = e]

\* Both children, arm and ESD, hand their result to the coordinator.
RepairJoined(t, e) ==
  [t EXCEPT !.sub = "joined", !.at = "none", !.arm = "none", !.n = 0,
            !.esd = NoEsd, !.joined = e]

ArmResult(t, o) ==
  LET u == [t EXCEPT !.arm = ArmNext(t, o),
              !.needsReinit = @ \/ o \in {"fault", "gone"}]
  IN IF u.arm # "none" THEN u
     ELSE RepairJoined(u, ArmOutcome(t, o))

\* ---------------------------------------------------------------------------
\* Electrostatic discharge.

EsdReset(t) == [t EXCEPT !.at = "RESET", !.n = @ + 1]

EsdStart(t, notice) ==
  EsdReset([t EXCEPT !.sub = "esd", !.esd = [notice |-> notice]])

\* Mutant of EsdRetry: every reset starts the count again.
EsdRetry_Unbounded(t) == EsdReset([t EXCEPT !.n = 0])

\* The delay of every failed attempt, the last one included, has passed.
EsdRetry(t) ==
  IF t.n < EsdResets THEN EsdReset(t) ELSE [t EXCEPT !.at = "EXHAUSTED_RESET"]

\* The identity an earlier attempt read is kept, but it was never the sensor's own:
\* that one ends the attempts.
EsdChip(t, o) ==
  [t EXCEPT !.at = IF o = "ok" THEN "CONFIG"
                   ELSE IF t.esd.notice /\ o = "exhausted" THEN "FAILED_READ_RESET"
                   ELSE "RETRY"]

\* "rejected": the answer of a reset names the discharge bits; a chip answers
\* with another identity.
EsdResult(t, o) ==
  IF t.at = "RETRY" THEN EsdRetry(t)
  ELSE IF o \notin {"ok", "rejected", "exhausted"} THEN RepairJoined(t, o)
  ELSE CASE t.at = "RESET" ->
              [t EXCEPT !.at = IF t.esd.notice THEN "CHIP"
                               ELSE IF o = "rejected" THEN "RESET_AGAIN" ELSE "RETRY"]
         [] t.at = "RESET_AGAIN" -> [t EXCEPT !.at = "CHIP"]
         [] t.at = "CHIP" -> EsdChip(t, o)
         [] t.at = "FAILED_READ_RESET" -> [t EXCEPT !.at = "RETRY"]
         [] t.at = "CONFIG" -> ArmStart([t EXCEPT !.at = "ARM"])
         [] t.at = "EXHAUSTED_RESET" -> RepairJoined(t, "none")
=============================================================================
