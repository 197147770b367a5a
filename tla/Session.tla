------------------------------- MODULE Session -------------------------------
(***************************************************************************)
(* Ownership of the sensor hardware in an open driver session.             *)
(*                                                                         *)
(* Source: drivers/goodix53x5/device/session.c (settle, quiesce, open,     *)
(* close, suspend, resume, reinitialization), goodix53x5.c (the libfprint  *)
(* virtual methods), and the parts of scan.c and transport.c through which *)
(* an owner starts, stops and hands the hardware on.  libfprint's core     *)
(* (which request may follow which, idle delivery of results) is external. *)
(*                                                                         *)
(* The driver runs in one main loop: every callback runs to completion, so *)
(* every action below is one callback with the whole chain of calls it     *)
(* makes.  A call is an operator from session state to session state, and  *)
(* the action is the composition of the calls, in the order of the code.   *)
(***************************************************************************)

CONSTANT
  Reentrant   \* TRUE: a completed action's callback may start the next one
              \* before it returns (session.c, goodix_session_action_done)

ASSUME ReentrantAssumption == Reentrant \in BOOLEAN

VARIABLE s

vars == s

Error == {"none", "plain", "final"}  \* "final": cancelled, device gone, GTLS
                                     \* exhausted: never retried by open

\* s is a record; its type is stated field by field.
SessionState(t) ==
  /\ DOMAIN t =
       {"action", "answered", "cancelled", "cancelDue", "isOpen", "power",
        "deferred", "isSuspended", "removed", "sessionOpen",
        "foregroundActive", "actionPending", "serviceActive",
        "serviceDraining", "serviceJoined", "suspendPending",
        "sessionSuspended", "needsReinit", "sessionCancel", "cancel", "owner",
        "stopRequested", "task", "recovered", "error", "transport", "reader",
        "joiner", "asserts"}
  \* libfprint core: the current action; answered when the driver completed it
  \* and its delivery is queued; cancelled is the action's own cancellable and
  \* cancelDue the cancel() method queued in an idle source
  /\ t.action \in {"none", "open", "close", "act"}
  /\ t.answered \in BOOLEAN /\ t.cancelled \in BOOLEAN /\ t.cancelDue \in BOOLEAN
  \* the device; deferred while a suspend waits for open or close to end
  /\ t.isOpen \in BOOLEAN /\ t.isSuspended \in BOOLEAN /\ t.removed \in BOOLEAN
  /\ t.power \in {"none", "suspending", "resuming"} /\ t.deferred \in BOOLEAN
  \* FpiDeviceGoodix53x5
  /\ t.sessionOpen \in BOOLEAN /\ t.foregroundActive \in BOOLEAN
  /\ t.actionPending \in BOOLEAN /\ t.serviceActive \in BOOLEAN
  /\ t.serviceDraining \in BOOLEAN /\ t.suspendPending \in BOOLEAN
  /\ t.sessionSuspended \in BOOLEAN /\ t.needsReinit \in BOOLEAN
  /\ t.serviceJoined \in {"none", "close", "suspend"}
  /\ t.sessionCancel \in {"none", "live", "cancelled"}
  /\ t.cancel \in {"none", "live", "cancelled"}
  \* the running coordinator and state machine; the error travels with a join
  /\ t.owner \in {"none", "service", "scan", "tail"} /\ t.stopRequested \in BOOLEAN
  /\ t.task \in {"none", "open", "power", "warm", "cold"}
  /\ t.recovered \in BOOLEAN     \* open_recovery_attempted
  /\ t.error \in Error
  \* transport: an operation in flight, the continuous reader, who joins it
  /\ t.transport \in BOOLEAN
  /\ t.reader \in {"none", "pending", "failed"}
  /\ t.joiner \in {"none", "session", "open", "reinit", "power", "resume"}
  \* conjunction of every assertion evaluated so far
  /\ t.asserts \in BOOLEAN

Assert(t, p) == [t EXCEPT !.asserts = @ /\ p]

Revoke(token) == IF token = "live" THEN "cancelled" ELSE token

-----------------------------------------------------------------------------
(* libfprint core, as the driver uses it *)

\* fpi_device_*_complete and fpi_device_action_error: one result per request.
Complete(t) ==
  [Assert(t, t.action # "none" /\ ~t.answered)
     EXCEPT !.answered = TRUE, !.cancelDue = FALSE]

SuspendComplete(t) ==
  [Assert(t, t.power = "suspending" /\ ~t.deferred)
     EXCEPT !.power = "none", !.isSuspended = TRUE]

ResumeComplete(t) ==
  [Assert(t, t.power = "resuming") EXCEPT !.power = "none", !.isSuspended = FALSE]

-----------------------------------------------------------------------------
(* transport.c: the reader join every hardware boundary goes through *)

StartReader(t) == [t EXCEPT !.reader = IF @ = "none" THEN "pending" ELSE @]

Command(t) == [StartReader(t) EXCEPT !.transport = TRUE]

TransportQuiesce(t, who, Joined(_)) ==
  LET a == Assert(t, ~t.transport /\ t.joiner = "none")
  IN  IF t.reader = "pending"
      THEN [a EXCEPT !.joiner = who]
      ELSE Joined([a EXCEPT !.reader = "none"])

Invalidate(t) == Assert(t, ~t.transport /\ t.reader = "none")

-----------------------------------------------------------------------------
(* session.c: hardware ownership *)

CloseJoined(t) ==
  Complete([Invalidate(t) EXCEPT !.cancel = "none", !.sessionCancel = "none",
              !.sessionSuspended = FALSE, !.sessionOpen = FALSE, !.isOpen = FALSE])

SuspendServiceJoined(t) ==
  Command([t EXCEPT !.sessionCancel = "live", !.task = "power"])

\* Mutant of HardwareJoined: the callback is released, the flag that a physical
\* stop is in flight is left set.
HardwareJoined_StillDraining(t) ==
  LET a == [t EXCEPT !.serviceJoined = "none"]
  IN  IF t.serviceJoined = "close" THEN CloseJoined(a) ELSE SuspendServiceJoined(a)

HardwareJoined(t) ==
  LET a == [t EXCEPT !.serviceJoined = "none", !.serviceDraining = FALSE]
  IN  IF t.serviceJoined = "close" THEN CloseJoined(a) ELSE SuspendServiceJoined(a)

\* A reader that already failed ends the new service inside its own start.
StartService(t) ==
  LET a == Assert(t, t.owner = "none" /\ ~t.transport)
  IN  IF t.reader = "failed"
      THEN [a EXCEPT !.needsReinit = TRUE]
      ELSE Command([a EXCEPT !.serviceActive = TRUE, !.owner = "service",
                             !.stopRequested = FALSE])

BeginScan(t) ==
  Command([Assert(t, t.owner = "none") EXCEPT !.owner = "scan",
                                               !.stopRequested = FALSE])

ReinitIdleJoined(t) == [Invalidate(t) EXCEPT !.recovered = FALSE]

\* goodix_enroll_start and goodix_auth_start, up to their first wait.
StartForeground(t) ==
  LET a == [t EXCEPT !.foregroundActive = TRUE, !.cancel = "live"]
  IN  IF t.needsReinit
      THEN TransportQuiesce(a, "reinit", ReinitIdleJoined)
      ELSE BeginScan(a)

\* Mutant of RefusePending: only a completed suspend refuses.
RefusePending_OnlySuspended(t) == t.sessionSuspended \/ t.cancelled

RefusePending(t) ==
  t.sessionSuspended \/ t.suspendPending \/ t.serviceJoined # "none" \/ t.cancelled

\* Mutant of MayService: maintenance retries on hardware that needs a reset.
MayService_Retrying(t) ==
  t.sessionOpen /\ ~t.suspendPending /\ ~t.sessionSuspended

MayService(t) ==
  t.sessionOpen /\ ~t.needsReinit /\ ~t.suspendPending /\ ~t.sessionSuspended

\* What settle does once no action is waiting.
SettleIdle(t) ==
  IF t.serviceJoined # "none"
  THEN TransportQuiesce([t EXCEPT !.serviceDraining = TRUE], "session", HardwareJoined)
  ELSE IF MayService(t) THEN StartService(t) ELSE t

\* Mutants of Settle: the background owner is not waited for; a refused action
\* gets no error.
Settle_OverService(t) ==
  LET u == [t EXCEPT !.actionPending = FALSE]
  IN  IF t.foregroundActive \/ t.serviceDraining
      THEN t
      ELSE IF t.actionPending /\ ~RefusePending(t)
           THEN StartForeground(u) ELSE SettleIdle(u)

Settle_SilentRefusal(t) ==
  LET u == [t EXCEPT !.actionPending = FALSE]
  IN  IF t.foregroundActive \/ t.serviceActive \/ t.serviceDraining
      THEN t
      ELSE IF t.actionPending /\ ~RefusePending(t)
           THEN StartForeground(u) ELSE SettleIdle(u)

Settle(t) ==
  LET u == [t EXCEPT !.actionPending = FALSE]
  IN  IF t.foregroundActive \/ t.serviceActive \/ t.serviceDraining
      THEN t
      ELSE IF ~t.actionPending
           THEN SettleIdle(t)
           ELSE IF RefusePending(t)
                THEN SettleIdle(Complete(u))
                ELSE StartForeground(u)

RequestStop(t) == [t EXCEPT !.stopRequested = @ \/ t.owner # "none"]

JoinService(t) == RequestStop(Assert(t, t.serviceActive /\ t.owner # "none"))

ServiceDone(t, failed) ==
  Settle([t EXCEPT !.serviceActive = FALSE, !.owner = "none",
                   !.stopRequested = FALSE, !.needsReinit = @ \/ failed])

StartAction(t) ==
  IF t.suspendPending \/ t.sessionSuspended \/ t.serviceJoined # "none"
  THEN Complete(t)
  ELSE LET a == [t EXCEPT !.actionPending = TRUE]
       IN  IF t.serviceActive THEN JoinService(a) ELSE Settle(a)

\* The core accepts the next action and calls the driver's start method.
AdmitAction(t) ==
  StartAction([t EXCEPT !.action = "act", !.answered = FALSE, !.cancelled = FALSE])

ActionDone(t, again) ==
  LET a == Complete([t EXCEPT !.foregroundActive = FALSE])
  IN  Settle(IF again THEN AdmitAction(a) ELSE a)

\* Mutant of Quiesce: the tokens are revoked, the coordinator is not stopped.
Quiesce_TokensOnly(t, who) ==
  LET a == [t EXCEPT !.serviceJoined = who, !.sessionCancel = Revoke(@)]
  IN  IF t.serviceActive
      THEN JoinService(a)
      ELSE IF t.foregroundActive
           THEN [a EXCEPT !.cancelled = TRUE, !.cancel = Revoke(@)]
           ELSE Settle(a)

Quiesce(t, who) ==
  LET a == [Assert(t, t.serviceJoined = "none")
              EXCEPT !.serviceJoined = who, !.sessionCancel = Revoke(@)]
  IN  IF t.serviceActive
      THEN JoinService(a)
      ELSE IF t.foregroundActive
           THEN RequestStop([a EXCEPT !.cancelled = TRUE, !.cancel = Revoke(@),
                                      !.cancelDue = @ \/ ~t.cancelled])
           ELSE Settle(a)

SuspendVfunc(t) == Quiesce([t EXCEPT !.suspendPending = TRUE], "suspend")

\* fpi_device_suspend: an action or an idle open device reaches the driver, a
\* short request (open, close) delays the dispatch until it has ended.
DispatchSuspend(t) ==
  IF t.action \in {"open", "close"}
  THEN [t EXCEPT !.deferred = TRUE]
  ELSE LET a == [t EXCEPT !.deferred = FALSE]
       IN  IF t.action = "act" \/ t.isOpen THEN SuspendVfunc(a) ELSE SuspendComplete(a)

-----------------------------------------------------------------------------
(* Requests of the core *)

StartOpenSsm(t) == [t EXCEPT !.cancel = "live", !.task = "open"]

Open ==
  /\ s.action = "none" /\ ~s.isOpen /\ ~s.isSuspended /\ ~s.removed
  /\ s.power = "none"
  /\ s' = StartOpenSsm([s EXCEPT !.action = "open", !.recovered = FALSE,
                          !.sessionCancel = "live", !.sessionSuspended = FALSE,
                          !.suspendPending = FALSE])

Close ==
  /\ s.action = "none" /\ s.isOpen /\ s.power = "none"
  /\ s' = Quiesce([s EXCEPT !.action = "close"], "close")

Act ==
  /\ s.action = "none" /\ s.isOpen /\ ~s.isSuspended
  /\ s' = AdmitAction(s)

\* The application cancels: the core queues the driver's cancel method.
UserCancel ==
  /\ s.action # "none" /\ ~s.answered /\ ~s.cancelled
  /\ s' = [s EXCEPT !.cancelled = TRUE, !.cancelDue = TRUE]

Cancel ==
  /\ s.cancelDue
  /\ IF s.actionPending
     THEN s' = Complete([s EXCEPT !.actionPending = FALSE, !.cancelDue = FALSE])
     ELSE s' = [s EXCEPT !.cancelDue = FALSE, !.cancel = Revoke(@),
                  !.stopRequested = @ \/ (s.owner = "scan" /\ s.cancel # "none")]

\* Results are delivered from an idle source; a deferred suspend follows.
Deliver ==
  /\ s.answered
  /\ LET a == [s EXCEPT !.action = "none", !.answered = FALSE, !.cancelled = FALSE]
     IN  s' = IF s.deferred THEN DispatchSuspend(a) ELSE a

Suspend ==
  /\ s.power = "none" /\ ~s.isSuspended
  /\ s' = DispatchSuspend([s EXCEPT !.power = "suspending"])

ResumeVfunc(t) ==
  LET a == [t EXCEPT !.cancel = "live", !.sessionCancel = "live"]
  IN  IF t.needsReinit
      THEN TransportQuiesce([a EXCEPT !.task = "cold"], "reinit", ReinitIdleJoined)
      ELSE [a EXCEPT !.task = "warm"]

Resume ==
  /\ s.power = "none" /\ s.isSuspended
  /\ LET a == [s EXCEPT !.power = "resuming"]
     IN  s' = IF s.isOpen /\ s.action \in {"none", "act"}
              THEN ResumeVfunc(a) ELSE ResumeComplete(a)

Removed ==
  /\ ~s.removed
  /\ LET a == [s EXCEPT !.removed = TRUE]
     IN  s' = IF s.sessionOpen \/ s.task \in {"open", "power", "warm", "cold"}
              THEN RequestStop([a EXCEPT !.needsReinit = TRUE,
                                         !.sessionCancel = Revoke(@)])
              ELSE a

-----------------------------------------------------------------------------
(* Completions inside the driver *)

\* An owner whose turn it is may use the transport.
HardwareUser(t) ==
  (t.owner # "none" \/ t.task # "none" \/ t.foregroundActive) /\ t.joiner = "none"

StartOperation ==
  /\ HardwareUser(s) /\ ~s.transport
  /\ s' = Command(s)

OperationDone ==
  /\ s.transport
  /\ s' = [s EXCEPT !.transport = FALSE]

\* The continuous IN transfer fails; it also ends the operation, unless that
\* operation's OUT transfer has not completed yet.
ReaderError ==
  /\ s.reader = "pending" /\ s.joiner = "none"
  /\ \E op \in {s.transport, FALSE} :
       s' = [s EXCEPT !.reader = "failed", !.needsReinit = TRUE, !.transport = op]

ServiceEnds ==
  /\ s.owner = "service" /\ ~s.transport
  /\ \E failed \in BOOLEAN :
       /\ failed \/ s.stopRequested
       /\ s' = ServiceDone(s, failed)

TailEnds ==
  /\ s.owner = "tail" /\ ~s.transport
  /\ \E failed \in BOOLEAN : s' = ServiceDone(s, failed)

\* goodix_scan_detach_action: the outcome goes back to the action while the
\* coordinator's deactivation tail stays on as the background owner.
DetachScan(failed, again) ==
  LET a == [Assert(s, ~s.serviceActive)
              EXCEPT !.needsReinit = @ \/ failed, !.serviceActive = TRUE,
                     !.owner = "tail", !.stopRequested = FALSE]
  IN  ActionDone(Command(a), again)

ScanEnds ==
  /\ s.owner = "scan" /\ ~s.transport
  /\ \E failed \in BOOLEAN, again \in {FALSE, Reentrant} :
       s' = DetachScan(failed, again)

\* Reinitialization inside an action: REINIT_DONE, then admission of the scan.
ForegroundReinitEnds ==
  /\ s.foregroundActive /\ s.owner = "none" /\ s.joiner = "none" /\ ~s.transport
  /\ \E ok \in BOOLEAN, again \in {FALSE, Reentrant} :
       LET a == [s EXCEPT !.needsReinit = @ /\ ~ok]
       IN  s' = IF ok /\ s.cancel # "cancelled" THEN BeginScan(a) ELSE ActionDone(a, again)

OpenCompleteAfterIdle(t) ==
  IF t.error = "none"
  THEN Complete([Settle([t EXCEPT !.needsReinit = FALSE, !.sessionOpen = TRUE])
                   EXCEPT !.isOpen = TRUE])
  ELSE LET a == [Invalidate(t) EXCEPT !.error = "none"]
       IN  IF ~t.recovered /\ ~t.cancelled /\ t.error # "final"
           THEN StartOpenSsm([a EXCEPT !.recovered = TRUE])
           ELSE Complete([a EXCEPT !.cancel = "none"])

OpenSsmDone ==
  /\ s.task = "open" /\ ~s.transport
  /\ \E e \in Error :
       LET a == [s EXCEPT !.task = "none", !.error = e]
       IN  s' = IF e = "none" THEN OpenCompleteAfterIdle(a)
                ELSE TransportQuiesce(a, "open", OpenCompleteAfterIdle)

SuspendJoined(t) ==
  SuspendComplete([Invalidate(t) EXCEPT !.needsReinit = @ \/ t.error # "none",
                     !.error = "none", !.suspendPending = FALSE,
                     !.sessionSuspended = TRUE])

\* Mutant of PowerDone: the reader is not joined after the power commands.
PowerDone_NoJoin ==
  /\ s.task = "power" /\ ~s.transport
  /\ \E e \in {"none", "plain"} :
       s' = SuspendJoined([s EXCEPT !.task = "none", !.error = e])

PowerDone ==
  /\ s.task = "power" /\ ~s.transport
  /\ \E e \in {"none", "plain"} :
       s' = TransportQuiesce([s EXCEPT !.task = "none", !.error = e], "power", SuspendJoined)

ResumeJoined(t) ==
  LET a == [t EXCEPT !.sessionSuspended = FALSE, !.error = "none",
                     !.needsReinit = t.error # "none"]
  IN  ResumeComplete(Settle(IF t.error # "none" THEN Invalidate(a) ELSE a))

ResumeDone(t, e) ==
  LET a == [t EXCEPT !.task = "none", !.error = e]
  IN  IF e = "none" THEN ResumeJoined(a)
      ELSE TransportQuiesce(a, "resume", ResumeJoined)

WarmDone ==
  /\ s.task = "warm" /\ ~s.transport
  /\ \E e \in Error :
       s' = IF e = "plain"
            THEN TransportQuiesce([s EXCEPT !.needsReinit = TRUE, !.task = "cold"],
                                  "reinit", ReinitIdleJoined)
            ELSE ResumeDone(s, e)

ColdDone ==
  /\ s.task = "cold" /\ ~s.transport /\ s.joiner = "none"
  /\ \E e \in {"none", "plain"} : s' = ResumeDone(s, e)

\* The cancelled IN transfer comes back, with an error or with a last packet.
ReaderJoined ==
  /\ s.joiner # "none" /\ s.reader = "pending"
  /\ LET a == [s EXCEPT !.reader = "none", !.joiner = "none"]
     IN  s' = CASE s.joiner = "session" -> HardwareJoined(a)
                [] s.joiner = "open"    -> OpenCompleteAfterIdle(a)
                [] s.joiner = "reinit"  -> ReinitIdleJoined(a)
                [] s.joiner = "power"   -> SuspendJoined(a)
                [] s.joiner = "resume"  -> ResumeJoined(a)

-----------------------------------------------------------------------------
Init ==
  s = [ action |-> "none", answered |-> FALSE, cancelled |-> FALSE,
        cancelDue |-> FALSE, isOpen |-> FALSE, power |-> "none",
        deferred |-> FALSE, isSuspended |-> FALSE, removed |-> FALSE,
        sessionOpen |-> FALSE, foregroundActive |-> FALSE,
        actionPending |-> FALSE, serviceActive |-> FALSE,
        serviceDraining |-> FALSE, serviceJoined |-> "none",
        suspendPending |-> FALSE, sessionSuspended |-> FALSE,
        needsReinit |-> FALSE, sessionCancel |-> "live", cancel |-> "none",
        owner |-> "none", stopRequested |-> FALSE, task |-> "none",
        recovered |-> FALSE, error |-> "none", transport |-> FALSE,
        reader |-> "none", joiner |-> "none", asserts |-> TRUE ]

Application == Open \/ Close \/ Act \/ UserCancel \/ Suspend \/ Resume \/ Removed

Core == Cancel \/ Deliver

Driver ==
  \/ StartOperation \/ OperationDone \/ ReaderError \/ ReaderJoined
  \/ ServiceEnds \/ TailEnds \/ ScanEnds \/ ForegroundReinitEnds
  \/ OpenSsmDone \/ PowerDone \/ WarmDone \/ ColdDone

Next == Application \/ Core \/ Driver

Spec == Init /\ [][Next]_vars

\* The USB host controller completes every transfer and the main loop runs
\* every queued source.  A state machine that has been asked to stop, or that
\* has a fixed number of states, issues finitely many operations.
Fairness ==
  /\ WF_vars(OperationDone) /\ WF_vars(ReaderJoined)
  /\ WF_vars(Cancel) /\ WF_vars(Deliver)
  /\ SF_vars(ServiceEnds /\ s.stopRequested) /\ SF_vars(TailEnds)
  /\ SF_vars(ScanEnds /\ s.stopRequested) /\ SF_vars(ForegroundReinitEnds)
  /\ SF_vars(OpenSsmDone) /\ SF_vars(PowerDone)
  /\ SF_vars(WarmDone) /\ SF_vars(ColdDone)

FairSpec == Spec /\ Fairness

-----------------------------------------------------------------------------
(* Properties *)

\* Every field keeps its type.  While a physical stop is in flight its callback
\* stays owned (driver-private.h:142), and an error waits nowhere but in the
\* reader join that will report it.
TypeOK ==
  /\ SessionState(s)
  /\ s.serviceDraining => s.serviceJoined # "none"
  /\ s.error # "none" => s.joiner \in {"open", "power", "resume"}

SessionWork(t) ==
  t.task # "none" \/ t.serviceDraining \/ t.joiner \notin {"none", "reinit"}

\* session.c:43-48: at most one hardware owner.  A background owner, a
\* foreground action and session work (open, suspend, resume, close and their
\* reader joins) exclude each other, and whoever runs a coordinator is flagged.
AtMostOneOwner ==
  /\ ~(s.serviceActive /\ s.foregroundActive)
  /\ ~(SessionWork(s) /\ (s.serviceActive \/ s.foregroundActive))
  /\ s.serviceActive <=> s.owner \in {"service", "tail"}
  /\ s.owner = "scan" => s.foregroundActive

\* Every unanswered request of the core has exactly one continuation in the
\* driver that will answer it, and a continuation never outlives its request.
RequestsHeld ==
  /\ (s.action = "act" /\ ~s.answered) <=> (s.foregroundActive \/ s.actionPending)
  /\ ~(s.foregroundActive /\ s.actionPending)
  /\ (s.action = "close" /\ ~s.answered) <=> s.serviceJoined = "close"
  /\ (s.action = "open" /\ ~s.answered) <=> (s.task = "open" \/ s.joiner = "open")
  /\ (s.power = "suspending" /\ ~s.deferred) <=> s.suspendPending
  /\ s.suspendPending <=>
       (s.serviceJoined = "suspend" \/ s.task = "power" \/ s.joiner = "power")
  /\ s.power = "resuming" <=> (s.task \in {"warm", "cold"} \/ s.joiner = "resume")

\* The assertions of session.c, scan.c and transport.c hold, and no request is
\* completed twice or completed when none is outstanding.
NoAssertFails == s.asserts

\* The hardware has one owner and one user: no hand-over meets an owner that is
\* still there, starts one that was not expected, or answers anyone twice.
Exclusive == AtMostOneOwner /\ NoAssertFails

\* A closed session, and a suspended one between its suspend and its resume,
\* leave the USB device alone: nothing in flight, no reader to come back.  And
\* nobody issues a command while the reader is being joined.
QuietWhenStopped ==
  /\ \/ s.isOpen /\ ~s.sessionSuspended
     \/ s.action = "open" /\ ~s.answered
     \/ s.power = "resuming"
     \/ /\ ~s.transport /\ s.reader = "none" /\ s.joiner = "none"
        /\ s.owner = "none" /\ s.task = "none" /\ ~s.foregroundActive
  /\ s.joiner # "none" => s.reader = "pending" /\ ~s.transport

\* A healthy open session with nothing else to do always has its background
\* owner: no path through settle forgets to restart maintenance.
BackgroundPresent ==
  MayService(s) /\ s.serviceJoined = "none" /\ ~s.foregroundActive
    => s.serviceActive

\* No coordinator starts on hardware that still awaits reconstruction.
ReinitBeforeUse ==
  [][s.owner = "none" /\ s'.owner # "none" => ~s'.needsReinit]_vars

\* Every open, close, suspend and resume is answered, whatever the session
\* was doing.
RequestsAnswered ==
  /\ s.power # "none" ~> s.power = "none"
  /\ s.action \in {"open", "close"} ~> s.answered

\* An action never waits for ever for the background owner it asked to stop.
PendingServed == s.actionPending ~> ~s.actionPending

\* A cancelled action ends, in whichever phase the cancellation finds it.
CancelledActionEnds ==
  s.action = "act" /\ s.cancelled ~> s.answered \/ ~s.cancelled

\* Everybody is served in the end: the application by its answers, an action by
\* the owner it waits for, a cancellation by the end of its action, and a sensor
\* that nobody uses by its maintenance.
Served == []BackgroundPresent /\ RequestsAnswered /\ PendingServed /\ CancelledActionEnds

\* What HardwareOwner sees of a session state.
Holder(t) ==
  IF t.serviceActive THEN "background"
  ELSE IF t.foregroundActive THEN "action"
  ELSE IF SessionWork(t) THEN "session" ELSE "none"

Request(t) ==
  IF t.foregroundActive THEN "running"
  ELSE IF t.actionPending THEN "waiting" ELSE "none"

AtBoundary(t) == t.serviceJoined # "none" \/ t.suspendPending \/ t.sessionSuspended

HO == INSTANCE HardwareOwner WITH
  owner <- Holder(s), request <- Request(s), boundary <- AtBoundary(s)

\* The session implements the ownership promise of HardwareOwner.
ImplementsHardwareOwner == HO!Spec

=============================================================================
