------------------------------ MODULE Transport ------------------------------
(***************************************************************************)
(* Command execution over the USB transport of the sensor.                 *)
(*                                                                         *)
(* Source: drivers/goodix53x5/device/transport.c.  One operation (a command*)
(* or a wait) is active at a time; it owns its OUT transfer, a deadline    *)
(* timer and a cancellation source, never the continuous IN transfer.  An  *)
(* IN buffer holds several packets: RxBegin, RxCell for each packet and    *)
(* RxEnd are one run of goodix_rx_cb, nothing else happens between them.   *)
(*                                                                         *)
(* A packet is its kind: what it publishes, not its bytes.  A client's     *)
(* next call from inside a completion callback is an action of its own.    *)
(***************************************************************************)

EXTENDS Integers

CONSTANTS
  Command,        \* the kinds of command the driver sends
  Slot,           \* the response events (GoodixResponseSlot)
  Image,          \* the slot of captured images
  ResponseSlot,   \* the slot that answers a command, "none" if only its ACK does
  Retried,        \* commands sent a second time after a timeout
  Interruptible   \* commands whose waits observe the owner's cancellation

ASSUME TransportAssumption ==
  /\ "none" \notin Command /\ {"none", "ack"} \cap Slot = {}
  /\ ResponseSlot \in [Command -> Slot \cup {"none"}]
  /\ Retried \subseteq Command /\ Interruptible \subseteq Command
  /\ Image \in Slot

VARIABLE s

vars == s

Outcome == {"none", "ok", "exhausted", "writeCancelled", "error"}

\* Times the command was sent.
Attempt == 0..2

Failure == {"none", "timeout", "io", "cancelled", "proto", "other"}

TransportState(t) ==
  /\ DOMAIN t =
       {"phase", "cmd", "attempt", "ack", "out", "submitted", "deadline",
        "timer", "watch", "eventCancel", "processing", "completionPending",
        "completionError", "reader", "joined", "ready", "imageFailed",
        "imageErrorHistory", "restartPending", "restartActive", "mcuReady",
        "pending", "partial", "service", "cancelled", "result", "seen"}
  \* the operation: "none" when there is no self->transport
  /\ t.phase \in {"none", "send", "ack", "response", "event", "reply"}
  /\ t.cmd \in Command \cup {"none"}
  /\ t.attempt \in Attempt
  /\ t.ack \in {"none", "invalid", "valid"}
  /\ t.out \in BOOLEAN          \* its OUT transfer has not called back yet
  /\ t.submitted \in BOOLEAN    \* write_submitted: the write really started
  /\ t.deadline \in BOOLEAN     \* deadline_us # 0
  /\ t.timer \in BOOLEAN /\ t.watch \in BOOLEAN  \* attached main loop sources
  /\ t.eventCancel \in BOOLEAN  \* an event wait's own cancellable
  /\ t.processing \in BOOLEAN /\ t.completionPending \in BOOLEAN
  /\ t.completionError \in Failure
  \* the reader: "idle" only inside goodix_rx_cb
  /\ t.reader \in {"none", "idle", "pending", "failed"}
  /\ t.joined \in BOOLEAN
  \* what the packets published
  /\ t.ready \subseteq Slot
  /\ t.imageFailed \in BOOLEAN /\ t.imageErrorHistory \in BOOLEAN
  /\ t.restartPending \in BOOLEAN /\ t.restartActive \in BOOLEAN
  /\ t.mcuReady \in BOOLEAN /\ t.pending \in BOOLEAN
  /\ t.partial \in BOOLEAN      \* a packet is being reassembled
  \* the owner: background service or not, its I/O cancellable
  /\ t.service \in BOOLEAN /\ t.cancelled \in BOOLEAN
  \* the last result; the answers received since the command was last sent
  /\ t.result \in Outcome
  /\ t.seen \subseteq Slot \cup {"ack"}

SlotOf(t) == IF t.cmd \in Command THEN ResponseSlot[t.cmd] ELSE "none"

\* rx_cb hands packets to an idle operation while there is no receiver.
IsIdle(t) == t.phase \in {"none", "send"}

-----------------------------------------------------------------------------
(* Sending, receiving and completing *)

StartReader(t) ==
  [t EXCEPT !.reader = IF @ \in {"none", "idle"} /\ ~t.joined THEN "pending" ELSE @]

\* Mutant of Send: the previous answer stays published.
Send_KeepsAnswer(t) ==
  StartReader([t EXCEPT !.phase = "send", !.attempt = @ + 1, !.ack = "none",
                        !.timer = FALSE, !.watch = FALSE, !.seen = {},
                        !.submitted = ~t.cancelled, !.out = TRUE])

Send(t) ==
  StartReader([t EXCEPT !.phase = "send", !.attempt = @ + 1, !.ack = "none",
                        !.timer = FALSE, !.watch = FALSE,
                        !.ready = @ \ {SlotOf(t)}, !.seen = {},
                        !.submitted = ~t.cancelled, !.out = TRUE])

\* A timeout, or a write the host could not perform: the native "zero" result.
NativeZero(phase, e) == e = "timeout" \/ (phase = "send" /\ e = "io")

\* Mutant of Retry: an attempt that is itself a retry is retried.
Retry_Again(t, e) ==
  /\ t.cmd \in Retried
  /\ t.phase \in {"send", "ack", "response"}
  /\ NativeZero(t.phase, e)

Retry(t, e) ==
  /\ t.cmd \in Retried /\ t.attempt = 1
  /\ t.phase \in {"send", "ack", "response"}
  /\ NativeZero(t.phase, e)

Free(t, result) ==
  [t EXCEPT !.phase = "none", !.cmd = "none", !.attempt = 0, !.ack = "none",
            !.submitted = FALSE, !.deadline = FALSE, !.timer = FALSE,
            !.watch = FALSE, !.eventCancel = FALSE, !.completionPending = FALSE,
            !.completionError = "none", !.result = result]

\* The buffer is drained first; the first error of the batch is kept.
Defer(t, e) ==
  [t EXCEPT !.completionPending = TRUE,
            !.completionError = IF @ = "none" THEN e ELSE @]

ImageRejected(t) ==
  SlotOf(t) = Image /\ t.imageFailed /\ t.phase \in {"ack", "response"}

Settled(t, e) ==
  LET rejected == e = "none" /\ ImageRejected(t)
      failed   == rejected \/ e # "none"
      healthy  == t.reader # "failed"
  IN  IF failed /\ healthy /\ Retry(t, e)
      THEN Send(t)
      ELSE Free(t, IF ~failed THEN "ok"
                   ELSE IF healthy /\ (rejected \/ NativeZero(t.phase, e))
                   THEN "exhausted"
                   ELSE IF t.phase = "send" /\ t.submitted /\ e = "cancelled"
                   THEN "writeCancelled" ELSE "error")

Complete(t, e) == IF t.processing THEN Defer(t, e) ELSE Settled(t, e)

\* Without a deadline the wait has no timer.
ArmWait(t) ==
  [t EXCEPT !.timer = t.deadline,
            !.watch = t.phase = "event" \/ t.cmd \in Interruptible]

CanTakeMcu(t) == ~t.processing /\ t.phase = "reply" /\ t.mcuReady

TakeMcu(t) == Complete([t EXCEPT !.mcuReady = FALSE], "none")

Receive(t) ==
  IF CanTakeMcu(t) THEN TakeMcu(t)
  ELSE IF t.processing THEN t ELSE StartReader(ArmWait(t))

\* Mutant of Ack: an answer that came before the ACK is waited for.
Ack_AlwaysWaits(t) ==
  IF SlotOf(t) = "none"
  THEN Complete(t, "none")
  ELSE Receive([t EXCEPT !.phase = "response", !.deadline = TRUE])

Ack(t) ==
  IF SlotOf(t) = "none" \/ SlotOf(t) \in t.ready
  THEN Complete(t, "none")
  ELSE Receive([t EXCEPT !.phase = "response", !.deadline = TRUE])

-----------------------------------------------------------------------------
(* Requests of the owners *)

Free2Submit(t) == t.phase = "none" /\ ~t.joined /\ ~t.processing

Request ==
  /\ Free2Submit(s)
  /\ \E c \in Command : s' = Send([s EXCEPT !.cmd = c, !.result = "none"])

\* A wait on a failed reader ends at once; so does an event wait when a
\* notification or a GTLS restart request is already there.
Wait(phase, served) ==
  /\ Free2Submit(s)
  /\ LET a == [s EXCEPT !.phase = phase, !.deadline = phase = "reply", !.seen = {},
                        !.result = "none"]
     IN  s' = IF s.reader = "failed" THEN Complete(a, "other")
              ELSE IF served THEN Complete(a, "none") ELSE Receive(a)

WaitEvent == Wait("event", s.pending \/ s.restartPending)

WaitMcu == Wait("reply", FALSE)

CancelEvent ==
  /\ s.phase = "event" /\ ~s.processing
  /\ s' = [s EXCEPT !.eventCancel = TRUE]

\* The owner's I/O cancellable is cancelled; a later owner brings a new one.
CancelIo == ~s.cancelled /\ ~s.processing /\ s' = [s EXCEPT !.cancelled = TRUE]

ChangeOwner ==
  /\ s.phase = "none" /\ ~s.processing
  /\ \E service \in BOOLEAN :
       s' = [s EXCEPT !.service = service, !.cancelled = FALSE]

SelectFdt ==
  /\ s.phase = "none" /\ ~s.processing /\ s.pending
  /\ s' = [s EXCEPT !.pending = FALSE]

StartGtlsRestart ==
  /\ Free2Submit(s) /\ s.restartPending /\ ~s.restartActive
  /\ s' = [s EXCEPT !.restartPending = FALSE, !.restartActive = TRUE]

GtlsRestartDone ==
  /\ s.phase = "none" /\ ~s.processing /\ s.restartActive
  /\ s' = [s EXCEPT !.restartActive = FALSE]

Joined(t) == [t EXCEPT !.reader = "none", !.joined = FALSE]

Quiesce ==
  /\ Free2Submit(s)
  /\ s' = IF s.reader = "pending" THEN [s EXCEPT !.joined = TRUE] ELSE Joined(s)

Invalidate ==
  /\ s.phase = "none" /\ ~s.processing /\ s.reader = "none"
  /\ s' = [s EXCEPT !.mcuReady = FALSE, !.imageFailed = FALSE,
                    !.imageErrorHistory = FALSE, !.restartPending = FALSE,
                    !.ready = @ \ {Image}, !.partial = FALSE, !.pending = FALSE]

-----------------------------------------------------------------------------
(* Packets *)

\* The waiting command a packet may answer.
Current(t) == t.phase \in {"ack", "response"} /\ ~t.completionPending

\* goodix_transport_complete on the operation rx_cb was given.
CellDone(t, e) == IF IsIdle(t) THEN t ELSE Complete(t, e)

\* Status of any addressed ACK is stored, even before the write has returned;
\* an invalid status keeps the wait and its clock.
AckCell(t, c, status) ==
  LET a == [t EXCEPT !.ack = status,
                     !.seen = IF status = "valid" THEN @ \cup {"ack"} ELSE @]
  IN  IF c # t.cmd THEN t
      ELSE IF Current(t) /\ t.phase = "ack" /\ status = "valid" THEN Ack(a) ELSE a

Publish(t, slot) ==
  [t EXCEPT !.ready = @ \cup {slot},
            !.seen = IF t.cmd = "none" THEN @ ELSE @ \cup {slot}]

Awaited(t, slot) == Current(t) /\ t.phase = "response" /\ SlotOf(t) = slot

ResponseCell(t, slot) ==
  IF Awaited(t, slot) THEN Complete(Publish(t, slot), "none") ELSE Publish(t, slot)

\* Every second undecodable image asks for a GTLS restart, unless one is running.
ImageError(t) ==
  [t EXCEPT !.imageErrorHistory = ~@,
            !.restartPending = @ \/ (t.imageErrorHistory /\ ~t.restartActive)]

\* "rejected" consumed the record counter of an established session.
ImageCell(t, quality) ==
  LET a == IF quality = "good"
           THEN [Publish(t, Image) EXCEPT !.imageFailed = FALSE]
           ELSE [ImageError(t) EXCEPT !.imageFailed = @ \/ quality = "rejected"]
  IN  IF a.phase = "event" /\ a.restartPending THEN Complete(a, "none")
      ELSE IF Awaited(a, Image) /\ Image \in a.ready THEN Complete(a, "none") ELSE a

\* Notices and FDT events share one coalescing notification.
NotificationCell(t) ==
  LET a == [t EXCEPT !.pending = TRUE]
  IN  IF t.phase = "event" THEN Complete(a, "none") ELSE a

FixedDeadline(t) ==
  t.phase = "ack" \/ (t.phase = "response" /\ SlotOf(t) # "none") \/ t.phase = "reply"

\* A cell that does not finish its packet renews a budget that is not fixed.
PartialCell(t) ==
  [t EXCEPT !.partial = TRUE,
            !.deadline = @ \/ (~FixedDeadline(t) /\ ~IsIdle(t) /\
                               ~(t.phase = "event" /\ t.service))]

RxCell ==
  /\ s.processing
  /\ LET t == [s EXCEPT !.partial = FALSE]
     IN  \/ \E c \in Command, status \in {"valid", "invalid"} : s' = AckCell(t, c, status)
         \/ \E slot \in Slot \ {Image} : s' = ResponseCell(t, slot)
         \/ \E quality \in {"good", "rejected", "unreadable"} : s' = ImageCell(t, quality)
         \/ s' = NotificationCell(t)
         \/ s' = [t EXCEPT !.mcuReady = TRUE]
         \/ s' = PartialCell(t)
         \/ s' = CellDone(t, "proto")
         \/ s' = t   \* unclaimed or damaged packet

-----------------------------------------------------------------------------
(* Completions of the USB host and the main loop *)

\* Mutant of TxDone: the ACK wait starts without a clock.
TxDone_NoDeadline ==
  /\ s.out /\ ~s.processing
  /\ \E e \in {"none", "cancelled", "io", "other"} :
       /\ e = "cancelled" => s.cancelled
       /\ ~s.submitted => e = "cancelled"
       /\ LET a == [s EXCEPT !.out = FALSE]
              b == [a EXCEPT !.phase = "ack"]
          IN  s' = IF e # "none" THEN Complete(a, e)
                   ELSE IF s.reader = "failed" THEN Complete(b, "other")
                   ELSE IF s.ack = "valid" THEN Ack(b) ELSE Receive(b)

\* An already cancelled write is never started; no other write is refused.
TxDone ==
  /\ s.out /\ ~s.processing
  /\ \E e \in {"none", "cancelled", "io", "other"} :
       /\ e = "cancelled" => s.cancelled
       /\ ~s.submitted => e = "cancelled"
       /\ LET a == [s EXCEPT !.out = FALSE]
              b == [a EXCEPT !.phase = "ack", !.deadline = TRUE]
          IN  s' = IF e # "none" THEN Complete(a, e)
                   ELSE IF s.reader = "failed"
                   THEN Complete([a EXCEPT !.phase = "ack"], "other")
                   ELSE IF s.ack = "valid" THEN Ack(b) ELSE Receive(b)

Expired ==
  /\ s.timer /\ ~s.processing
  /\ s' = Complete([s EXCEPT !.timer = FALSE], "timeout")

Cancelled ==
  /\ s.watch /\ ~s.processing
  /\ IF s.phase = "event" THEN s.eventCancel ELSE s.cancelled
  /\ s' = Complete(s, "cancelled")

\* Mutant of RxFail: the cancelled read of a join is recorded as a failure.
RxFail_AlsoJoining ==
  /\ s.reader = "pending" /\ ~s.processing
  /\ s' = CellDone([s EXCEPT !.reader = "failed"], "other")

RxFail ==
  /\ s.reader = "pending" /\ ~s.processing
  /\ LET a == [s EXCEPT !.reader = "failed"]
     IN  s' = IF s.joined THEN Joined(s) ELSE CellDone(a, "other")

RxBegin ==
  /\ s.reader = "pending" /\ ~s.processing
  /\ s' = [s EXCEPT !.reader = "idle", !.processing = TRUE]

\* The end of goodix_rx_cb.
Drained(t, empty) ==
  LET a == StartReader(t)
      b == [a EXCEPT !.completionPending = FALSE, !.completionError = "none"]
  IN  IF t.joined THEN Joined(t)
      ELSE IF IsIdle(t) THEN a
      ELSE IF t.completionError = "none" /\ CanTakeMcu(a) THEN TakeMcu(a)
      ELSE IF t.completionPending THEN Complete(b, t.completionError)
      ELSE ArmWait([a EXCEPT !.deadline = @ /\ ~(empty /\ t.phase = "event")])

RxEnd == s.processing /\ s' = Drained([s EXCEPT !.processing = FALSE], FALSE)

RxEmpty ==
  /\ s.reader = "pending" /\ ~s.processing
  /\ s' = Drained([s EXCEPT !.reader = "idle"], TRUE)

-----------------------------------------------------------------------------
Init ==
  s = [ phase |-> "none", cmd |-> "none", attempt |-> 0, ack |-> "none",
        out |-> FALSE, submitted |-> FALSE, deadline |-> FALSE, timer |-> FALSE,
        watch |-> FALSE, eventCancel |-> FALSE, processing |-> FALSE,
        completionPending |-> FALSE, completionError |-> "none",
        reader |-> "none", joined |-> FALSE, ready |-> {}, imageFailed |-> FALSE,
        imageErrorHistory |-> FALSE, restartPending |-> FALSE,
        restartActive |-> FALSE, mcuReady |-> FALSE, pending |-> FALSE,
        partial |-> FALSE, service |-> FALSE, cancelled |-> FALSE,
        result |-> "none", seen |-> {} ]

Client ==
  \/ Request \/ WaitEvent \/ WaitMcu \/ CancelEvent \/ CancelIo \/ ChangeOwner
  \/ SelectFdt \/ StartGtlsRestart \/ GtlsRestartDone \/ Quiesce \/ Invalidate

Host ==
  \/ TxDone \/ Expired \/ Cancelled
  \/ RxFail \/ RxBegin \/ RxCell \/ RxEnd \/ RxEmpty

Next == Client \/ Host

Spec == Init /\ [][Next]_vars

\* The USB host completes every transfer, the buffer it delivers is finite,
\* and the main loop dispatches a completed write, a due timer or a cancelled
\* source between two IN completions, however many there are.
Fairness ==
  /\ SF_vars(TxDone) /\ WF_vars(RxEnd)
  /\ SF_vars(Expired /\ s.phase # "event") /\ SF_vars(Cancelled)
  /\ WF_vars(RxFail \/ RxBegin \/ RxEmpty)

FairSpec == Spec /\ Fairness

-----------------------------------------------------------------------------
(* Properties *)

\* Every field keeps its type.
TypeOK == TransportState(s)

\* transport.c:281-290: the OUT callback gets the operation as its data, so
\* nothing may end or replace the operation while its write is in flight, not
\* a timer of an earlier attempt, not a failing reader, not a packet.
OutOwned == s.out <=> s.phase = "send"

\* Whoever waits has an IN transfer posted: no wait outlives the reader.  An
\* event wait has no clock that would end it otherwise.
WaiterHasReader ==
  ~s.processing /\ ~IsIdle(s) => s.reader = "pending" /\ ~s.joined

\* No lost wakeup: nobody sleeps on an answer that has already been published,
\* in whichever order ACK, answer and OUT callback came and however they were
\* packed into buffers.
NoSleepOverAnswer ==
  ~s.processing =>
    /\ s.phase = "event" => ~s.pending /\ ~s.restartPending
    /\ s.phase = "reply" => ~s.mcuReady
    /\ s.phase = "ack" => s.ack # "valid"
    /\ s.phase = "response" => SlotOf(s) \notin s.ready
    /\ ~s.completionPending

\* Whoever has been sent, waits or listens can still be called back, by an
\* event that is yet to come.
CallbackOwed == OutOwned /\ WaiterHasReader /\ NoSleepOverAnswer

\* A command succeeds only on an ACK and an answer that came after it was last
\* sent: nothing left over from an earlier command or attempt is taken for one.
AnswerIsFresh ==
  [][s.cmd # "none" /\ s'.cmd = "none" /\ s'.result = "ok"
       => "ack" \in s'.seen /\ SlotOf(s) \in s'.seen \cup {"none"}]_vars

\* transport.c:1036 "Never disguise a physical failure as sender
\* timeout/retry": once the reader has failed no operation is sent again and
\* none is reported as ordinary exhaustion, after which callers carry on.
FailureNotDisguised ==
  [][s'.reader = "failed" =>
       /\ s'.attempt <= 1 \/ s'.attempt = s.attempt
       /\ s'.result = "exhausted" => s.result = "exhausted"]_vars

\* What the owner of an operation is told is true: success only of an answer to
\* this very command, and ordinary exhaustion only of a reader that lives.
ResultHonest == AnswerIsFresh /\ FailureNotDisguised

\* Every command and every bounded wait ends, after at most two attempts.
OperationEnds == s.phase \in {"send", "ack", "response", "reply"} ~> s.phase = "none"

\* A stopped event wait ends, and every reader join calls back.
StopsEnd ==
  /\ s.phase = "event" /\ s.eventCancel ~> s.phase # "event"
  /\ s.joined ~> ~s.joined

\* No wait is for ever, except a finger's that nobody stops.
WaitsEnd == OperationEnds /\ StopsEnd

C == INSTANCE Channel WITH
  busy <- s.phase # "none",
  reader <- IF s.reader = "idle" THEN "pending" ELSE s.reader,
  joining <- s.joined

\* The transport keeps the promise the session's owners rely on.
ImplementsChannel == C!Spec

=============================================================================
