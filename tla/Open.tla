-------------------------------- MODULE Open --------------------------------
(* Initialization of the hardware (device/session.c): the open machine with   *)
(* its probe, chip identification, key selection and GTLS handshake, its one  *)
(* recovery, cold reconstruction and warm resume, and the children the        *)
(* coordinator of an open session runs: reference refresh, arming, ESD repair *)
(* and GTLS restart.                                                          *)
(*                                                                            *)
(* One machine at a time waits for one command of the transport.  A step is a *)
(* command's completion, a delay's end or a request from outside.             *)
EXTENDS Repair

CONSTANTS
  ProbeFailures, \* failed firmware queries an open goes on after: 5
  ChipFailures,  \* failed identifications an open fails after: 6
  GtlsGroup      \* handshakes of one group: 3

ASSUME OpenAssumption == {ProbeFailures, ChipFailures, GtlsGroup} \subseteq Nat \ {0}

Key == {"default", "windows"}

\* "absent", a valid key of the other system, or a file that does not parse.
File == {"absent", "windows", "broken"}

Life == {"closed", "opening", "reinit", "warm", "ready", "suspended"}

OpenState == {"none", "USB_RESET", "CLAIM_INTERFACE", "PING", "RESET", "READ_OTP",
              "READ_PSK_HASH", "WRITE_PSK", "VERIFY_PSK_WRITE", "GTLS",
              "UPLOAD_CONFIG", "CAPTURE_REF", "FINAL_FIRMWARE", "FINAL_SLEEP",
              "SLEEP", "EC_POWER_OFF"}

\* The first errors a machine keeps: any that may be tried again, or final.
Error == {"none", "fault", "cancelled", "gone"}

Child == {"none", "probe", "chip", "gtls", "base", "arm", "esd", "joined"}

VARIABLE s

vars == s

NewDevice(key, file) ==
  [life |-> "closed", open |-> "none", sub |-> "none", at |-> "none", n |-> 0,
   error |-> "none", joined |-> "none", claimed |-> FALSE,
   resetRequired |-> FALSE, recoveryAttempted |-> FALSE, gtlsFailed |-> FALSE,
   needsReinit |-> FALSE, powered |-> FALSE, cancelled |-> FALSE,
   removed |-> FALSE, sensorKey |-> key, file |-> file, psk |-> "default",
   imported |-> FALSE, verifyPending |-> FALSE, established |-> FALSE,
   gen |-> NoGeneration, retained |-> FALSE, hw |-> NoReference,
   fdt |-> None, baseValid |-> FALSE, recoveryPending |-> FALSE,
   base |-> NoBase, arm |-> "none", esd |-> NoEsd]

Init == \E key \in Key, file \in File : s = NewDevice(key, file)

\* ---------------------------------------------------------------------------
\* The open machine: its states, its failure, its end.

StartOpen(t) == [t EXCEPT !.open = "USB_RESET", !.error = "none", !.gtlsFailed = FALSE]

CleanupFailedOpen(t) ==
  [t EXCEPT !.claimed = FALSE, !.life = "closed", !.cancelled = FALSE]

\* Everything a failed attempt leaves is dropped once its transport is joined.
DropSession(t) ==
  [ForgetHardware(t) EXCEPT !.psk = "default", !.imported = FALSE]

Retry(t) ==
  StartOpen([t EXCEPT !.recoveryAttempted = TRUE, !.claimed = FALSE,
                      !.resetRequired = TRUE])

Ready(t) == [t EXCEPT !.life = "ready", !.needsReinit = FALSE, !.cancelled = FALSE]

Unready(t) == [t EXCEPT !.life = "ready", !.needsReinit = TRUE, !.cancelled = FALSE]

MayRetry(t) ==
  ~t.recoveryAttempted /\ ~t.gtlsFailed /\ ~t.cancelled /\ t.error = "fault"

\* The open's completion after the join; a reconstruction reports to its owner,
\* which grants readiness only to a success, and leaves its mark of a powered
\* reference for the cleanup of whatever open comes next.
OpenDone(t) ==
  LET u == [t EXCEPT !.open = "none", !.error = "none",
                     !.powered = @ /\ t.life = "reinit"]
  IN IF t.error = "none" THEN Ready(u)
     ELSE IF t.life = "reinit" THEN Unready(u)
     ELSE IF MayRetry(t) THEN Retry(DropSession(u))
     ELSE CleanupFailedOpen(DropSession(u))

Fail(t, e) ==
  LET u == [t EXCEPT !.error = IF @ = "none" THEN e ELSE @]
  IN IF t.powered THEN [u EXCEPT !.open = "SLEEP"] ELSE OpenDone(u)

Wait(t, state) == [t EXCEPT !.open = state]

\* goodix_probe_cancelled: a stop or a removal seen by the host.
Probed(t) == ~t.cancelled /\ ~t.removed

ProbeError(t) == IF t.cancelled THEN "cancelled" ELSE "gone"

\* ---------------------------------------------------------------------------
\* Children: firmware probe, chip identification.

ChildWait(t, state) == [t EXCEPT !.at = state]

Joined(t, e) == [t EXCEPT !.sub = "joined", !.at = "none", !.n = 0, !.joined = e]

StartChild(t, state, child, first) ==
  LET u == [t EXCEPT !.open = state, !.sub = child, !.at = first, !.n = 0]
  IN IF Probed(t) THEN u ELSE Joined(u, ProbeError(t))

ProbeResult(t, o) ==
  IF ~Probed(t) THEN Joined(t, ProbeError(t))
  ELSE IF t.at = "AFTER_DELAY" /\ t.n = ProbeFailures THEN Joined(t, "none")
  ELSE IF t.at = "AFTER_DELAY" THEN ChildWait(t, "PING")
  ELSE IF o \notin {"ok", "exhausted"} THEN Joined(t, o)
  ELSE IF t.at = "PING" THEN ChildWait(t, "FIRMWARE")
  ELSE IF o = "ok" THEN Joined(t, "none")
  ELSE ChildWait([t EXCEPT !.n = @ + 1], "AFTER_DELAY")

\* "rejected": a family that is not known is a failed identification.
ChipResult(t, o) ==
  IF ~Probed(t) THEN Joined(t, ProbeError(t))
  ELSE IF t.at = "AFTER_DELAY" /\ t.n = ChipFailures THEN Joined(t, "fault")
  ELSE IF t.at = "AFTER_DELAY" THEN ChildWait(t, "READ")
  ELSE IF o \notin {"ok", "rejected", "exhausted"} THEN Joined(t, o)
  ELSE IF t.at = "INITIAL_RESET" THEN ChildWait(t, "READ")
  ELSE IF t.at = "RECOVERY_RESET" THEN ChildWait(t, "AFTER_DELAY")
  ELSE IF o = "ok" THEN Joined(t, "none")
  ELSE ChildWait([t EXCEPT !.n = @ + 1], "RECOVERY_RESET")

\* ---------------------------------------------------------------------------
\* The handshake: one group of attempts for an event's restart, two groups for an
\* initialization or a resume.  t.n counts the attempts begun.

Restart(t) == t.life = "ready"

GtlsAttempts(t) == IF Restart(t) THEN GtlsGroup ELSE 2 * GtlsGroup

GtlsFails(t, e) == Joined([t EXCEPT !.gtlsFailed = @ \/ ~Restart(t)], e)

\* A stop seen by the retry machine itself is not a handshake that failed.
GtlsHello(t) ==
  IF t.cancelled THEN Joined(t, "cancelled")
  ELSE [t EXCEPT !.at = "HELLO", !.n = @ + 1, !.established = FALSE]

\* Mutant of GtlsExhausted: running out of attempts is a success.
GtlsExhausted_AsDone(t) == Joined(t, "none")

GtlsExhausted(t) ==
  IF t.cancelled THEN Joined(t, "cancelled")
  ELSE IF Restart(t) THEN Joined(t, "none")
  ELSE GtlsFails(t, "fault")

GtlsNext(t) ==
  CASE t.at = "HELLO" -> ChildWait(t, "IDENTITY")
    [] t.at = "IDENTITY" -> ChildWait(t, IF t.sensorKey = t.psk THEN "VERIFY" ELSE "RETRY")
    [] t.at = "VERIFY" -> ChildWait(t, "COMPLETION")
    [] t.at = "COMPLETION" -> Joined([t EXCEPT !.established = TRUE], "none")

GtlsResult(t, o) ==
  IF t.at = "RETRY" /\ t.n < GtlsAttempts(t) THEN GtlsHello(t)
  ELSE IF t.at = "RETRY" THEN GtlsExhausted(t)
  ELSE IF o \in {"cancelled", "gone"} THEN GtlsFails(t, o)
  ELSE IF o # "ok" THEN ChildWait(t, "RETRY")
  ELSE IF t.cancelled THEN GtlsFails(t, "cancelled")
  ELSE GtlsNext(t)

\* An event's restart ends with its owner's answer; an interrupted key
\* replacement is not an established session.
StartGtls(t) == GtlsHello([t EXCEPT !.sub = "gtls", !.n = 0])

\* ---------------------------------------------------------------------------
\* Keys.

LoadPsk(t) ==
  [t EXCEPT !.psk = IF t.file = "windows" THEN "windows" ELSE "default",
            !.imported = t.file = "windows"]

OpenGtls(t) == StartGtls([t EXCEPT !.open = "GTLS", !.verifyPending = FALSE,
                                   !.gtlsFailed = FALSE])

\* The key the sensor holds is compared before anything is written to it.
SelectPsk(t) ==
  IF t.sensorKey = t.psk THEN OpenGtls(t)
  ELSE IF t.imported THEN Fail(t, "fault")
  ELSE Wait([t EXCEPT !.verifyPending = TRUE], "WRITE_PSK")

\* Mutant of VerifyPsk: whatever key the sensor reports is taken for ours.
VerifyPsk_Trusting(t) == OpenGtls(t)

\* The hash is read again: an accepted write is not yet a written key.
VerifyPsk(t) ==
  IF t.verifyPending /\ t.sensorKey # t.psk THEN Fail(t, "fault") ELSE OpenGtls(t)

\* ---------------------------------------------------------------------------
\* The commands of the open machine itself.

ConfigFailed(t) ==
  Wait([t EXCEPT !.baseValid = FALSE, !.recoveryPending = TRUE], "FINAL_FIRMWARE")

FinalFirmware(t) ==
  IF Probed(t) THEN Wait(t, "FINAL_FIRMWARE") ELSE Fail(t, ProbeError(t))

\* Results the native machine ignores: configuration, last query, mode.
NativeResult(t, o) ==
  IF o \notin {"ok", "exhausted"} THEN Fail(t, o)
  ELSE IF ~Probed(t) THEN Fail(t, ProbeError(t))
  ELSE CASE t.open = "UPLOAD_CONFIG" ->
              IF o = "exhausted" THEN ConfigFailed(t)
              ELSE BaseStart(Wait(t, "CAPTURE_REF"), FALSE, "NONE")
         [] t.open = "FINAL_FIRMWARE" -> Wait(t, "FINAL_SLEEP")
         [] t.open = "FINAL_SLEEP" -> OpenDone(t)

Host(o) == IF o = "exhausted" THEN "fault" ELSE o

OpenResult(t, o) ==
  IF t.open \in {"UPLOAD_CONFIG", "FINAL_FIRMWARE", "FINAL_SLEEP"} THEN NativeResult(t, o)
  ELSE IF t.open = "SLEEP" THEN Wait(t, "EC_POWER_OFF")
  ELSE IF t.open = "EC_POWER_OFF" THEN OpenDone([t EXCEPT !.powered = FALSE])
  ELSE IF o # "ok" THEN Fail(t, Host(o))
  ELSE CASE t.open = "READ_OTP" ->
              IF t.file = "broken" THEN Fail(LoadPsk(t), "fault")
              ELSE Wait(LoadPsk(t), "READ_PSK_HASH")
         [] t.open = "READ_PSK_HASH" -> SelectPsk(t)
         [] t.open = "WRITE_PSK" -> Wait(t, "VERIFY_PSK_WRITE")
         [] t.open = "VERIFY_PSK_WRITE" -> VerifyPsk(t)

\* ---------------------------------------------------------------------------
\* Reconstruction and warm resume of an open session.

\* Mutant of ReinitIdleJoined: the reference of the old session is kept.
ReinitIdleJoined_KeepsGeneration(t) ==
  StartOpen([t EXCEPT
    !.hw = NoReference, !.life = "reinit", !.recoveryAttempted = FALSE, !.resetRequired = TRUE,
    !.claimed = FALSE])

\* Reception is joined before the interface is released and the device reset.
ReinitIdleJoined(t) ==
  StartOpen([ForgetHardware(t) EXCEPT
    !.life = "reinit", !.recoveryAttempted = FALSE, !.resetRequired = TRUE,
    !.claimed = FALSE])

\* A failed re-key falls back to a reconstruction, once.
WarmDone(t, e) ==
  IF e = "none" THEN Ready(t)
  ELSE IF e \in {"cancelled", "gone"} THEN Unready(t)
  ELSE ReinitIdleJoined([t EXCEPT !.needsReinit = TRUE])

\* What follows a child of the open machine, of the resume, of the coordinator.
ChildDone(t) ==
  LET e == t.joined
      u == [t EXCEPT !.sub = "none", !.joined = "none"]
  IN IF t.life = "warm" THEN WarmDone(u, e)
     ELSE IF t.life = "ready"
     THEN [u EXCEPT !.needsReinit = @ \/ e \notin {"none", "cancelled"}, !.cancelled = FALSE]
     ELSE IF e # "none" THEN Fail(u, e)
     ELSE CASE t.open = "PING" -> StartChild(u, "RESET", "chip", "INITIAL_RESET")
            [] t.open = "RESET" -> Wait(u, "READ_OTP")
            [] t.open = "GTLS" -> Wait([u EXCEPT !.powered = FALSE], "UPLOAD_CONFIG")
            [] t.open = "CAPTURE_REF" ->
                 FinalFirmware([u EXCEPT !.powered = t.gen # NoGeneration])

\* A child may end in the step that starts it.
Settle(t) ==
  LET u == IF t.sub = "joined" THEN ChildDone(t) ELSE t
  IN IF u.sub = "joined" THEN ChildDone(u) ELSE u

\* ---------------------------------------------------------------------------
\* Completions.

\* An interrupted write leaves the sensor partially commanded.
Outcome ==
  {"ok", "exhausted", "fault"}
    \cup (IF s.cancelled THEN {"cancelled", "interrupted"} ELSE {})
    \cup (IF s.removed THEN {"gone"} ELSE {})

Delays == {"AFTER_DELAY", "RETRY"}

\* Answers whose content is judged: samples, frames, identities, an arm's status.
Judged ==
  s.arm = "FIRST" \/ s.at \in {"READ", "CAPTURE_TX_OFF", "FDT_TX_ON_AFTER", "RESET", "CHIP"}

\* The answers of the command, the delay or the comparison the machine waits for.
Answers ==
  IF s.at \in Delays THEN {"ok"}
  ELSE IF s.at = "VALIDATE" THEN {"ok", "rejected"}
  ELSE IF Judged THEN Outcome \cup {"rejected"}
  ELSE Outcome

Complete(Result(_, _)) ==
  \E o \in Answers :
    s' = Named(Settle(
           IF o = "interrupted" THEN Result([s EXCEPT !.needsReinit = TRUE], "cancelled")
           ELSE Result(s, o)))

HostErrors == {"fault"} \cup (IF s.removed THEN {"gone"} ELSE {})

UsbReset ==
  /\ s.open = "USB_RESET"
  /\ \/ s' = Wait([s EXCEPT !.resetRequired = FALSE], "CLAIM_INTERFACE")
     \/ s.resetRequired /\ \E e \in HostErrors : s' = Fail(s, e)

ClaimInterface ==
  /\ s.open = "CLAIM_INTERFACE"
  /\ \/ s' = Settle(StartChild([s EXCEPT !.claimed = TRUE], "PING", "probe", "PING"))
     \/ \E e \in HostErrors : s' = Fail(s, e)

OpenCommand ==
  /\ s.open \notin {"none", "USB_RESET", "CLAIM_INTERFACE"} /\ s.sub = "none"
  /\ Complete(OpenResult)

Probe == s.sub = "probe" /\ Complete(ProbeResult)

Chip == s.sub = "chip" /\ Complete(ChipResult)

Gtls == s.sub = "gtls" /\ Complete(GtlsResult)

BaseAcquisition == s.sub = "base" /\ Complete(BaseCommand)

Arm == s.arm # "none" /\ Complete(ArmResult)

Esd == s.sub = "esd" /\ s.arm = "none" /\ Complete(EsdResult)

Machine ==
  UsbReset \/ ClaimInterface \/ OpenCommand \/ Probe \/ Chip \/ Gtls
    \/ BaseAcquisition \/ Arm \/ Esd

\* ---------------------------------------------------------------------------
\* Requests.

OpenDevice ==
  /\ s.life = "closed" /\ ~s.removed
  /\ s' = StartOpen([s EXCEPT !.life = "opening", !.recoveryAttempted = FALSE,
                              !.resetRequired = FALSE])

Resting == s.life = "ready" /\ s.sub = "none"

CloseDevice ==
  /\ Resting \/ s.life = "suspended"
  /\ s' = [Named(DropSession(s)) EXCEPT !.life = "closed", !.claimed = FALSE,
                                 !.cancelled = FALSE]

\* An action, or the resume of a session with a known fault, starts over.
Reinit ==
  /\ (Resting \/ s.life = "suspended") /\ s.needsReinit
  /\ s' = Named(ReinitIdleJoined(s))

\* Sleep and power off on the way down; a failure is a fault of the session.
Suspend ==
  /\ Resting
  /\ \E failed \in BOOLEAN :
       s' = [s EXCEPT !.life = "suspended", !.needsReinit = @ \/ failed]

ResumeWarm ==
  /\ s.life = "suspended" /\ ~s.needsReinit
  /\ LET t == [s EXCEPT !.life = "warm", !.claimed = TRUE]
     IN \/ s.removed /\ s' = WarmDone(s, "gone")
        \/ ~s.removed /\ s' = Settle(StartGtls(t))
        \/ ~s.removed /\ s' = WarmDone([t EXCEPT !.claimed = FALSE], "fault")

Coordinating == Resting /\ ~s.needsReinit

Refresh ==
  /\ Coordinating
  /\ s.gen # NoGeneration \/ s.recoveryPending
  /\ \E reason \in Reason : s' = BaseStart(s, TRUE, reason)

RestartGtls == Coordinating /\ s' = Settle(StartGtls(s))

ArmDetection == Coordinating /\ s' = ArmStart([s EXCEPT !.sub = "arm"])

RepairEsd == Coordinating /\ \E notice \in BOOLEAN : s' = EsdStart(s, notice)

DeliverSample ==
  /\ Coordinating /\ s.gen # NoGeneration
  /\ \E admitted \in BOOLEAN : s' = Named(Deliver(s, admitted))

\* Faults the transport, a wait or the service report.
FaultSession == Resting /\ s' = [s EXCEPT !.needsReinit = TRUE]

Cancel ==
  /\ s.open # "none" \/ s.sub # "none"
  /\ s' = [s EXCEPT !.cancelled = TRUE]

\* goodix_removed also stops the coordinator and its token.
Removed ==
  /\ s.life # "closed" /\ ~s.removed
  /\ s' = [s EXCEPT !.removed = TRUE, !.needsReinit = TRUE,
                    !.cancelled = @ \/ (s.life = "ready" /\ s.sub # "none")]

\* The other system may pair the sensor again; an administrator imports its key.
PairElsewhere ==
  /\ s.life \in {"closed", "suspended"} /\ ~s.removed
  /\ \E key \in Key, file \in File :
       s' = [s EXCEPT !.sensorKey = key,
                      !.file = IF s.life = "closed" THEN file ELSE @]

\* A key sent to the sensor takes effect, or not, whatever the write answers.
SensorTakesKey ==
  /\ s.open = "WRITE_PSK" /\ s.sensorKey # s.psk /\ ~s.removed
  /\ s' = [s EXCEPT !.sensorKey = s.psk]

\* A removed device that returns is a new one.
Plug ==
  /\ s.life = "closed" /\ s.removed
  /\ \E key \in Key, file \in File : s' = NewDevice(key, file)

Next ==
  \/ Machine
  \/ OpenDevice \/ CloseDevice \/ Reinit \/ Suspend \/ ResumeWarm
  \/ Refresh \/ RestartGtls \/ ArmDetection \/ RepairEsd \/ DeliverSample
  \/ FaultSession \/ Cancel \/ Removed \/ PairElsewhere \/ SensorTakesKey
  \/ Plug

Spec == Init /\ [][Next]_vars /\ WF_vars(Machine)

\* ---------------------------------------------------------------------------
\* Properties.

ChildState ==
  {"none", "PING", "FIRMWARE", "AFTER_DELAY", "INITIAL_RESET", "READ",
   "RECOVERY_RESET", "HELLO", "IDENTITY", "VERIFY", "COMPLETION", "RETRY",
   "UPLOAD_CONFIG", "FDT_TX_ON_BEFORE", "CAPTURE_TX_ON", "FDT_TX_OFF",
   "HEALTH_FIRST", "HEALTH_SECOND", "VALIDATE", "CAPTURE_TX_OFF",
   "FDT_TX_ON_AFTER", "CLEANUP_SLEEP", "CLEANUP_EC_POWER_OFF", "RESET",
   "RESET_AGAIN", "CHIP", "FAILED_READ_RESET", "EXHAUSTED_RESET", "CONFIG", "ARM"}

\* The session record has its type; one machine at a time runs, and a child
\* ends in the step that completes its last command (device/session.c,
\* device/base.c, device/commands.c).
TypeOK ==
  /\ s.life \in Life /\ s.open \in OpenState /\ s.sub \in Child \ {"joined"}
  /\ s.at \in ChildState /\ s.n \in Nat /\ s.error \in Error
  /\ s.joined = "none" /\ s.sensorKey \in Key /\ s.psk \in {"default", "windows"}
  /\ s.fdt \in Token /\ s.hw.ref \in Token /\ s.gen.setup \in Token
  /\ s.arm \in {"none", "FIRST", "CONFIG", "REPEAT"}
  /\ (s.open # "none") <=> (s.life \in {"opening", "reinit"})
  /\ (s.arm # "none") => (s.sub \in {"arm", "esd"})
  /\ s.n <= ProbeFailures + ChipFailures + 2 * GtlsGroup + EsdResets
  /\ (s.sub = "none") => (s.base = NoBase /\ s.esd = NoEsd /\ s.n = 0)

\* The tuple of a reference is published and dropped as one: a generation of an
\* open session has a hardware reference behind it, its setup frame is the frame
\* of the base it names, a mark waits only where there is something to deliver,
\* retained process state and a generation exclude each other, and a session
\* whose base is valid has its finger detection from the very acquisition of its
\* reference, whatever failed, was refused or was rebuilt before
\* (base.c:782-926, 357-419, 528-575).
PublishedTogether ==
  /\ (s.gen # NoGeneration) => (s.hw.ref # None /\ ~s.retained)
  /\ s.hw.pending => s.gen # NoGeneration
  /\ (s.gen # NoGeneration /\ s.gen.id = s.hw.id) => s.gen.setup = s.hw.ref
  /\ (s.baseValid /\ s.life = "ready" /\ ~s.needsReinit)
       => (s.hw.ref # None /\ s.fdt = s.hw.ref)

\* The device is reset, and its interface claimed, only while the driver does not
\* hold the claim: every path to an initialization, a first open, its recovery, a
\* reconstruction and the fallback of a resume, has released it
\* (session.c:1255-1262, 1331-1347, 1578-1585).
ResetUnclaimed == s.open \in {"USB_RESET", "CLAIM_INTERFACE"} => ~s.claimed

\* The handshake of an initialization starts only on a sensor that holds the
\* selected key, although a write the sensor accepts may not have taken effect
\* and the verification may be left over from an interrupted attempt
\* (session.c:989-1114).
KeyConfirmed == (s.open = "GTLS" /\ s.life # "ready") => s.sensorKey = s.psk

\* The steps of an initialization find what they rely on: a device nobody has
\* claimed, and a sensor that holds the key.
BringUpOrdered == ResetUnclaimed /\ KeyConfirmed

\* A session becomes ready, with nothing left to rebuild, only with the interface
\* claimed, a key established with the sensor's own, and a generation or the
\* recovery that will make one; the reference step of the coordinator therefore
\* never has to acquire a base of its own (session.c:1268-1276, 1530-1546,
\* scan.c:435-453).
ReadyEstablished ==
  [][ (s.life # "ready" /\ s'.life = "ready" /\ ~s'.needsReinit)
        => /\ s'.claimed /\ s'.established /\ s'.sensorKey = s'.psk
           /\ s'.gen # NoGeneration \/ s'.recoveryPending ]_vars

\* Every initialization, reconstruction, resume, refresh and repair ends: attempts
\* are bounded and a failed open is recovered once
\* (session.c:436-500, 745-785, 1246-1266, commands.c:548).
Running == s.open # "none" \/ s.sub # "none"

MachinesEnd == Running ~> ~Running
=============================================================================
