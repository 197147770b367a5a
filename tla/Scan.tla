-------------------------------- MODULE Scan --------------------------------
(***************************************************************************)
(* The coordinator that owns the sensor's events, one at a time.           *)
(*                                                                         *)
(* Source: drivers/goodix53x5/device/scan.c.  An action's coordinator      *)
(* ("enroll", "auth") waits for a finger, captures a frame, hands it to a  *)
(* worker and re-arms; a "service" does the maintenance only; "wait" is the*)
(* maintenance child a detached action lends its ownership to, a "tail" the*)
(* last command of its deactivation.                                       *)
(*                                                                         *)
(* One action is one main loop callback with every handler it runs.  A     *)
(* command, a child state machine (base, health, ESD, GTLS) or a delay is  *)
(* one outstanding "op"; the state says which.  An event is its kind, and  *)
(* for a release whether its vector shows drift (a new reference is due).  *)
(***************************************************************************)

EXTENDS Naturals

CONSTANTS
  Notice,    \* the notifications this sensor sends
  Kinds      \* the actions the application runs: a subset of Action

Action == {"enroll", "auth"}

Release == {"up", "upDrift", "reverse", "reverseDrift"}

Event == Release \cup {"down", "config", "esd", "wake", "deactivate"}

ASSUME ScanAssumption ==
  Notice \subseteq Event \ {"deactivate"} /\ Kinds \subseteq Action

VARIABLE s

vars == s

\* GoodixScanDisposition; those that settle the lift first
AfterUp == {"retry", "continue", "final"}

Verdict == AfterUp \cup {"success", "fatal", "cancelled"}

Cleanup == {"CLEANUP_JOIN", "CLEANUP_SLEEP"}

State ==
  {"ENSURE_REFERENCE", "POWER_ON", "ARM_DOWN", "WAIT_EVENT", "DISPATCH_EVENT",
   "DOWN_MANUAL", "CAPTURE", "ARM_UP", "RECOVERY_ARM_UP", "REFRESH", "UP_HEALTH",
   "REARM_DOWN", "WAIT_CPU", "RESTORE_CONFIG", "ESD", "DEACTIVATE_EC",
   "CYCLE_SETTLED"} \cup Cleanup

Failure == {"none", "cancelled", "error"}

ScanState(t) ==
  /\ DOMAIN t =
       {"kind", "state", "work", "cut", "dispatching", "stop", "ssmError",
        "tailError", "cpu", "cycle", "deferred", "recovering", "capturing", "unread",
        "event", "pending", "restart", "waitMode", "mode", "reference",
        "healthy", "reader", "token", "io", "needsReinit", "told"}
  \* profile9_fdt.owner and its machine; "none" when there is no owner
  /\ t.kind \in Action \cup {"none", "service", "wait", "tail"}
  /\ t.state \in State
  \* "event" = waiting_event; "callback": inside the cycle_settled callback
  /\ t.work \in {"none", "op", "event", "callback"}
  /\ t.cut \in BOOLEAN             \* the posted event wait is cancelled
  /\ t.dispatching \in BOOLEAN
  \* stop_requested and stop_error: "yes" is a stop without an error
  /\ t.stop \in {"no", "yes", "cancelled", "error"}
  \* the machine's first error; a detached one's while its child runs
  /\ t.ssmError \in Failure /\ t.tailError \in Failure
  \* cpu_outstanding ("running") and, when cpu_done, the disposition
  /\ t.cpu \in Verdict \cup {"none", "running"}
  \* cycle_active and release_settled
  /\ t.cycle \in {"idle", "active", "released"}
  /\ t.deferred \in BOOLEAN        \* refresh_deferred
  /\ t.recovering \in BOOLEAN      \* recovering_generation
  /\ t.capturing \in BOOLEAN       \* capture_callback_pending
  /\ t.unread \in 0..2             \* capture_unread
  /\ t.event \in Event \cup {"none"}
  /\ t.pending \in Event \cup {"none"}   \* the coalescing pending_fdt slot
  /\ t.restart \in BOOLEAN         \* gtls_restart_pending
  /\ t.waitMode \in {"none", "down", "up"}
  /\ t.mode \in {"capture", "sleep"}     \* requested_mode
  \* milan_generation with hardware_reference, or initial_recovery_pending
  /\ t.reference \in {"none", "recovery", "ready"}
  /\ t.healthy \in BOOLEAN         \* health.complete
  /\ t.reader \in {"ok", "failed"}
  \* the action's token and the session's: cancelled or not
  /\ t.token \in BOOLEAN /\ t.io \in BOOLEAN
  /\ t.needsReinit \in BOOLEAN
  \* the outcome handed to the action, "none" before that
  /\ t.told \in {"none", "ok", "cancelled", "error"}

Idle(t) == t.kind \in {"service", "wait"}

Stopping(t) == t.stop # "no"

CpuDone(t) == t.cpu \in Verdict

\* The first error is kept.
Or(first, second) == IF first = "none" THEN second ELSE first

-----------------------------------------------------------------------------
(* The end of a coordinator, last step first *)

\* coordinator_done and service_done: the session is told of the machine's error.
Gone(t) ==
  [t EXCEPT !.kind = "none", !.state = "WAIT_EVENT", !.work = "none",
            !.cut = FALSE, !.dispatching = FALSE, !.stop = "no",
            !.needsReinit = @ \/ t.ssmError = "error", !.ssmError = "none",
            !.event = "none", !.recovering = FALSE, !.cpu = "none"]

\* The deactivation's last command; an action is detached by then.
Sleep(t) ==
  [t EXCEPT !.kind = "tail", !.state = "CLEANUP_SLEEP", !.work = "op", !.cut = FALSE,
            !.dispatching = FALSE, !.stop = "no", !.event = "none",
            !.recovering = FALSE, !.healthy = TRUE]

\* The child returns the ownership, and its error if it is the first.
ChildDone(t) ==
  Sleep([t EXCEPT !.ssmError = Or(t.tailError, @), !.tailError = "none"])

\* The child starts in WAIT_EVENT, where the deactivation is already pending.
\* Mutant: the detached machine's own error is forgotten.
StartHealthWait_DropsError(t) ==
  [t EXCEPT !.kind = "wait", !.state = "DISPATCH_EVENT", !.work = "op",
            !.cut = FALSE, !.dispatching = TRUE, !.stop = "no",
            !.ssmError = "none", !.recovering = FALSE,
            !.event = t.pending, !.pending = "none"]

StartHealthWait(t) ==
  LET child == [t EXCEPT !.kind = "wait", !.state = "WAIT_EVENT", !.work = "op",
                         !.cut = FALSE, !.dispatching = TRUE, !.stop = "no",
                         !.tailError = t.ssmError, !.ssmError = "none",
                         !.recovering = FALSE]
  IN  IF t.reader = "failed"
      THEN ChildDone([child EXCEPT !.needsReinit = TRUE, !.ssmError = "error"])
      ELSE IF t.restart
      THEN [child EXCEPT !.restart = FALSE]
      ELSE [child EXCEPT !.state = "DISPATCH_EVENT", !.event = t.pending,
                         !.pending = "none"]

\* Mutant of DetachAction: any stop is taken for the outcome.
DetachAction_AnyStop(t) ==
  LET u == [t EXCEPT !.told = IF Stopping(t) THEN t.stop ELSE Or(t.ssmError, "ok"),
                     !.cycle = "idle", !.deferred = FALSE, !.waitMode = "none",
                     !.pending = "deactivate", !.capturing = FALSE, !.unread = 0]
  IN  IF t.healthy THEN Sleep(u) ELSE StartHealthWait(u)

DetachAction(t) ==
  LET outcome == IF t.stop \in Failure THEN t.stop ELSE t.ssmError
      u == [t EXCEPT !.told = IF outcome = "none"
                                 \/ (outcome = "error" /\ t.cpu = "success")
                              THEN "ok" ELSE outcome,
                     !.needsReinit = @ \/ outcome = "error",
                     !.cycle = "idle", !.deferred = FALSE, !.waitMode = "none",
                     !.pending = "deactivate", !.capturing = FALSE, !.unread = 0]
  IN  IF t.healthy THEN Sleep(u) ELSE StartHealthWait(u)

\* Mutant of CleanupJoin: the action's outcome does not wait for its worker.
CleanupJoin_NoJoin(t) ==
  IF t.kind = "service" THEN Gone(t)
  ELSE IF t.kind = "wait" THEN ChildDone(t)
  ELSE DetachAction([t EXCEPT !.state = "CLEANUP_JOIN"])

\* Cancelling the token runs action_cancelled, which requests a stop.
CleanupJoin(t) ==
  IF t.kind = "service" THEN Gone(t)
  ELSE IF t.kind = "wait" THEN ChildDone(t)
  ELSE IF t.cpu = "running"
  THEN [t EXCEPT !.state = "CLEANUP_JOIN", !.work = "none", !.token = TRUE,
                 !.stop = IF ~t.token /\ @ \in {"no", "yes"}
                          THEN "cancelled" ELSE @]
  ELSE DetachAction([t EXCEPT !.state = "CLEANUP_JOIN"])

\* fpi_ssm_mark_failed: the first error stays; cleanup takes over.
Fail(t, e) == CleanupJoin([t EXCEPT !.ssmError = Or(@, e)])

FinishRequested(t) ==
  IF t.stop \in Failure
  THEN Fail([t EXCEPT !.stop = "yes"], t.stop)
  ELSE CleanupJoin(t)

MaybeFinish(t) ==
  IF t.dispatching \/ t.work \in {"op", "event"} THEN t
  ELSE IF t.cpu = "running"
  THEN IF t.state \in Cleanup THEN t
       ELSE [t EXCEPT !.state = "WAIT_CPU", !.work = "none"]
  ELSE IF t.deferred
  THEN [t EXCEPT !.deferred = FALSE, !.dispatching = TRUE,
                 !.state = "REFRESH", !.work = "op"]
  ELSE FinishRequested(t)

RequestStop(t, e) ==
  LET u == [t EXCEPT !.stop = IF @ = "no" \/ (@ = "yes" /\ e # "yes")
                              THEN e ELSE @]
  IN  IF ~Stopping(t) /\ t.work = "event"
      THEN [u EXCEPT !.cut = TRUE] ELSE MaybeFinish(u)

-----------------------------------------------------------------------------
(* Entering the states *)

\* A stop keeps undispatched work from starting.
Enter(t, state, mode) ==
  IF Stopping(t) /\ ~t.dispatching
  THEN MaybeFinish([t EXCEPT !.state = state, !.work = "none"])
  ELSE [t EXCEPT !.state = state, !.work = "op", !.waitMode = mode]

Start(t, state) == Enter(t, state, t.waitMode)

RearmDown(t) == Enter(t, "REARM_DOWN", "down")

RecoveryArmUp(t) == Enter([t EXCEPT !.dispatching = TRUE], "RECOVERY_ARM_UP", "up")

UpHealth(t) ==
  IF t.event \in {"up", "upDrift"} /\ t.reference = "ready"
  THEN Start(t, "UP_HEALTH") ELSE RearmDown(t)

\* Mutant of PrepareRefresh: the reference is replaced under the worker.
PrepareRefresh_Immediate(t) == Start(t, "REFRESH")

PrepareRefresh(t) ==
  IF t.cpu = "running"
  THEN [t EXCEPT !.deferred = TRUE, !.dispatching = FALSE,
                 !.state = "WAIT_CPU", !.work = "none"]
  ELSE Start(t, "REFRESH")

\* WAIT_EVENT with nothing pending: an idle owner that must stop ends, any
\* other posts its wait, cancelled from the start if a stop is requested.
Post(t) ==
  LET u == [t EXCEPT !.stop = IF t.kind = "wait" /\ t.healthy /\ @ = "no"
                              THEN "yes" ELSE @]
  IN  IF Idle(u) /\ Stopping(u)
      THEN MaybeFinish([u EXCEPT !.dispatching = FALSE])
      ELSE [u EXCEPT !.work = "event", !.cut = Stopping(u), !.event = "none"]

Dispatch(t) ==
  LET e == t.pending
      u == [t EXCEPT !.pending = "none", !.event = e, !.dispatching = TRUE,
                     !.work = "none", !.cut = FALSE]
  IN  IF e = "esd" THEN Start(u, "ESD")
      ELSE IF e = "wake"
      THEN IF t.waitMode = "up" THEN RecoveryArmUp(u) ELSE RearmDown(u)
      ELSE IF e = "deactivate" THEN Start(u, "DISPATCH_EVENT")
      ELSE IF e = "config"
      THEN IF t.mode = "sleep" THEN Post([u EXCEPT !.dispatching = FALSE])
           ELSE Start(u, "RESTORE_CONFIG")
      ELSE IF e = "down" THEN Start([u EXCEPT !.healthy = FALSE], "DOWN_MANUAL")
      ELSE LET up == [u EXCEPT !.cycle = IF @ = "active" THEN "released" ELSE @]
           IN  IF e \in {"upDrift", "reverseDrift"} \/ t.recovering
               THEN PrepareRefresh(up) ELSE UpHealth(up)

RestartGtls(t) ==
  [t EXCEPT !.restart = FALSE, !.dispatching = TRUE, !.work = "op", !.cut = FALSE]

EventFailed(t, e) == Fail([t EXCEPT !.work = "none", !.cut = FALSE], e)

WaitEvent(t) ==
  LET u == [t EXCEPT !.state = "WAIT_EVENT", !.work = "none"]
  IN  IF Idle(u) /\ (Stopping(u) \/ (u.kind = "wait" /\ u.healthy))
      THEN Post(u)
      ELSE IF u.reader = "failed"
      THEN EventFailed([u EXCEPT !.needsReinit = TRUE], "error")
      ELSE IF u.restart THEN RestartGtls(u)
      ELSE IF u.pending # "none" THEN Dispatch(u)
      ELSE Post(u)

\* ARM_UP_DONE, RECOVERY_ARM_UP_DONE, ESD_DONE, DEACTIVATE_EC_DONE and the
\* handlers that give up: the selected work is over.
WorkDone(t) == WaitEvent([t EXCEPT !.dispatching = FALSE])

\* The cycle_settled callback runs; SettleReturns is the rest of the state.
CycleSettled(t) == [t EXCEPT !.state = "CYCLE_SETTLED", !.work = "callback"]

RearmDownDone(t) ==
  LET u == [t EXCEPT !.dispatching = FALSE]
  IN  IF u.pending # "none" \/ Stopping(u) THEN WaitEvent(u)
      ELSE IF u.cycle = "released"
      THEN IF CpuDone(u) THEN CycleSettled(u)
           ELSE [u EXCEPT !.state = "WAIT_CPU", !.work = "none"]
      ELSE WaitEvent(u)

EnsureReferenceDone(t) ==
  Start([t EXCEPT !.recovering = t.reference = "recovery"], "POWER_ON")

\* touched: the manual read confirms the finger.
DownValidate(t, touched) ==
  IF ~touched THEN PrepareRefresh(t)
  ELSE IF t.mode # "capture" \/ ~t.capturing \/ t.cycle # "idle"
  THEN RecoveryArmUp(t)
  ELSE IF t.reference # "ready" THEN RecoveryArmUp([t EXCEPT !.recovering = TRUE])
  ELSE Start(t, "CAPTURE")

\* The frame goes to the worker before the arm; refused: capture_ready itself
\* answers with FATAL.
ArmUp(t, refused) ==
  LET u == [t EXCEPT !.capturing = FALSE, !.cycle = "active", !.cpu = "none"]
  IN  Enter(IF Stopping(t) THEN u
            ELSE IF refused THEN [u EXCEPT !.cpu = "fatal", !.stop = "error"]
            ELSE [u EXCEPT !.cpu = "running"],
            "ARM_UP", "up")

SetDisposition(t, d) ==
  LET u == [t EXCEPT !.cpu = d]
  IN  IF t.state \in Cleanup THEN DetachAction(u)
      ELSE IF Stopping(t) THEN MaybeFinish(u)
      ELSE IF d = "fatal" THEN RequestStop(u, "error")
      ELSE IF d = "cancelled" THEN RequestStop(u, "cancelled")
      ELSE IF d = "success" THEN RequestStop(u, "yes")
      ELSE IF t.deferred
      THEN [u EXCEPT !.deferred = FALSE, !.dispatching = TRUE,
                     !.state = "REFRESH", !.work = "op"]
      ELSE IF t.cycle = "released" /\ ~t.dispatching /\ t.work = "none"
      THEN CycleSettled(u)
      ELSE u

-----------------------------------------------------------------------------
(* Operations that end *)

Ends(state) == s.work = "op" /\ s.state = state

Ended == [s EXCEPT !.work = "none"]

Answered == s.reader = "ok"

\* Cancellable waits observe the session's token, an action's also its own.
Failures ==
  {"error"} \cup IF s.io \/ (s.kind \in Action /\ s.token) THEN {"cancelled"} ELSE {}

\* marked: command_done or the arm marks the session for reconstruction; a
\* write cut short marks it whatever ran.
CommandFails(marked) ==
  \E e \in Failures, m \in BOOLEAN :
    /\ e = "error" => m = marked
    /\ s' = Fail([Ended EXCEPT !.needsReinit = @ \/ m], e)

EnsureReference ==
  /\ Ends("ENSURE_REFERENCE")
  /\ \/ /\ Answered
        /\ \E r \in {"recovery", "ready"} :
             s' = EnsureReferenceDone([Ended EXCEPT !.reference = r])
     \/ \E marked \in BOOLEAN : CommandFails(marked)

PowerOn ==
  /\ Ends("POWER_ON")
  /\ \/ Answered /\ s' = Enter(Ended, "ARM_DOWN", "down")
     \/ CommandFails(TRUE)

\* The four arms; an exhausted arm continues unless the session is cancelled.
Arm ==
  /\ \E state \in {"ARM_DOWN", "ARM_UP", "RECOVERY_ARM_UP", "REARM_DOWN"} : Ends(state)
  /\ \/ /\ Answered \/ ~s.io
        /\ s' = IF s.state = "REARM_DOWN" THEN RearmDownDone(Ended)
                ELSE IF s.state = "ARM_DOWN" THEN WaitEvent(Ended)
                ELSE WorkDone(Ended)
     \/ s.io /\ s' = Fail(Ended, "cancelled")
     \/ CommandFails(TRUE)

DownManual ==
  /\ Ends("DOWN_MANUAL")
  /\ \/ Answered /\ \E touched \in BOOLEAN : s' = DownValidate(Ended, touched)
     \/ s' = WorkDone(Ended)
     \/ CommandFails(FALSE)

\* Enrollment reads two images and keeps the first.
Capture ==
  /\ Ends("CAPTURE")
  /\ \/ /\ Answered
        /\ IF s.unread > 1 THEN s' = [s EXCEPT !.unread = @ - 1]
           ELSE \E refused \in BOOLEAN :
                  s' = ArmUp([Ended EXCEPT !.unread = 0], refused)
     \/ s' = RearmDown(Ended)
     \/ CommandFails(FALSE)

\* A rejected refresh leaves the reference as it was.
Refresh ==
  /\ Ends("REFRESH")
  /\ \/ /\ Answered
        /\ \E r \in {s.reference, "ready"} :
             s' = UpHealth([Ended EXCEPT !.reference = r,
                                         !.recovering = @ /\ r # "ready"])
     \/ CommandFails(TRUE)

UpHealthPair ==
  /\ Ends("UP_HEALTH")
  /\ \/ s' = RearmDown([Ended EXCEPT !.healthy = TRUE])
     \/ CommandFails(FALSE)

RestoreConfig ==
  /\ Ends("RESTORE_CONFIG")
  /\ \/ s' = RearmDown(Ended)
     \/ CommandFails(FALSE)

\* The repair ends with a down arm, or gives up after ten attempts.
Esd ==
  /\ Ends("ESD")
  /\ \/ \E mode \in {s.waitMode, "down"} : s' = WorkDone([Ended EXCEPT !.waitMode = mode])
     \/ CommandFails(FALSE)

DeactivateDelay ==
  /\ Ends("DISPATCH_EVENT")
  /\ s' = Start(Ended, "DEACTIVATE_EC")

DeactivateEc ==
  /\ Ends("DEACTIVATE_EC")
  /\ \/ s' = WorkDone(Ended)
     \/ CommandFails(TRUE)

GtlsRestarted ==
  /\ Ends("WAIT_EVENT")
  /\ \/ Answered /\ s' = WorkDone(Ended)
     \/ \E e \in Failures :
          s' = RequestStop([Ended EXCEPT !.dispatching = FALSE, !.needsReinit = TRUE], e)

\* The end of the deactivation; an exhausted sleep command still is one.
CleanupSleep ==
  /\ Ends("CLEANUP_SLEEP")
  /\ \/ s' = Gone([s EXCEPT !.mode = "sleep"])
     \/ s' = Gone([s EXCEPT !.needsReinit = TRUE])
     \/ "cancelled" \in Failures /\ s' = Gone(s)

OpEnds ==
  \/ EnsureReference \/ PowerOn \/ Arm \/ DownManual \/ Capture \/ Refresh
  \/ UpHealthPair \/ RestoreConfig \/ Esd \/ DeactivateDelay \/ DeactivateEc
  \/ GtlsRestarted \/ CleanupSleep

-----------------------------------------------------------------------------
(* The sensor, the worker, the application and the session *)

Calm == s.work # "callback"

Notify ==
  /\ Calm /\ s.reader = "ok"
  /\ \E e \in Notice :
       LET t == [s EXCEPT !.pending = e]
       IN  s' = IF s.work = "event" THEN Dispatch(t) ELSE t

RestartNotice ==
  /\ Calm /\ s.reader = "ok" /\ ~Ends("WAIT_EVENT")
  /\ s' = IF s.work = "event" THEN RestartGtls(s) ELSE [s EXCEPT !.restart = TRUE]

ReaderFails ==
  /\ Calm /\ s.reader = "ok"
  /\ LET t == [s EXCEPT !.reader = "failed", !.needsReinit = TRUE]
     IN  s' = IF s.work = "event" THEN EventFailed(t, "error") ELSE t

\* A malformed notification: its error domain marks nothing.
EventRejected == s.work = "event" /\ s.reader = "ok" /\ s' = EventFailed(s, "error")

EventCancelled ==
  /\ s.work = "event" /\ s.cut
  /\ s' = MaybeFinish([s EXCEPT !.work = "none", !.cut = FALSE])

\* The worker's task: a cancelled one answers so, also before the driver has
\* been told of the application's cancellation.
Answer ==
  /\ s.cpu = "running"
  /\ \E d \in {"cancelled"} \cup
              IF s.token THEN {}
              ELSE IF s.kind = "enroll" THEN {"continue", "final", "fatal"}
              ELSE {"success", "retry", "fatal"} :
       s' = SetDisposition(s, d)

NextCycle(t) ==
  WaitEvent([t EXCEPT !.cycle = "idle", !.cpu = "none", !.capturing = TRUE,
                      !.unread = 2])

SettleReturns ==
  /\ s.work = "callback"
  /\ s' = IF s.cpu = "continue" THEN NextCycle(s) ELSE CleanupJoin(s)

HealthWaitExpired ==
  /\ s.kind = "wait" /\ s.stop = "no"
  /\ s' = RequestStop(s, "yes")

StartService ==
  /\ s.kind = "none" /\ ~s.io /\ ~s.needsReinit
  /\ s' = WaitEvent([s EXCEPT !.kind = "service"])

StartCoordinator ==
  /\ s.kind = "none" /\ ~s.io /\ ~s.needsReinit
  /\ \E k \in Kinds :
       LET t == [s EXCEPT !.kind = k, !.told = "none", !.token = FALSE,
                          !.mode = "capture", !.capturing = TRUE,
                          !.unread = IF k = "enroll" THEN 2 ELSE 1,
                          !.pending = IF @ = "deactivate" THEN "none" ELSE @]
       IN  s' = IF s.reference = "none" THEN Start(t, "ENSURE_REFERENCE")
                ELSE EnsureReferenceDone(t)

\* Stops reach whoever owns the sensor; its last command is never disturbed.
StopOwner(t, e) ==
  IF t.kind \in {"none", "tail"} THEN t ELSE RequestStop(t, e)

CancelToken(t) ==
  IF t.token THEN t ELSE RequestStop([t EXCEPT !.token = TRUE], "cancelled")

\* goodix_cancel
Cancel ==
  /\ Calm /\ s.kind \in Action /\ ~s.token
  /\ s' = CancelToken(s)

\* The next action waits for the service, or for the last one's deactivation.
JoinService ==
  /\ Calm /\ Idle(s) /\ s.stop = "no"
  /\ s' = StopOwner(s, "yes")

\* Suspend, also from inside the action's callback.
Quiesce ==
  /\ ~s.io
  /\ LET t == [s EXCEPT !.io = TRUE]
     IN  s' = IF s.kind \in Action
              THEN StopOwner(CancelToken(t), "cancelled")
              ELSE StopOwner(t, "yes")

Removed ==
  /\ Calm
  /\ LET t == StopOwner([s EXCEPT !.io = TRUE, !.needsReinit = TRUE], "error")
     IN  s' = IF s.cpu = "running" THEN CancelToken(t) ELSE t

\* A warm resume keeps the reference; a cold one reconstructs everything.
Reopen ==
  /\ s.kind = "none" /\ (s.io \/ s.needsReinit)
  /\ LET t == [s EXCEPT !.io = FALSE, !.restart = FALSE, !.pending = "none"]
     IN  \/ ~s.needsReinit /\ s' = t
         \/ \E r \in {"none", "recovery", "ready"} :
              s' = [t EXCEPT !.needsReinit = FALSE, !.reader = "ok",
                             !.mode = "sleep", !.healthy = TRUE,
                             !.waitMode = "none", !.reference = r]

Init ==
  s = [kind |-> "none", state |-> "WAIT_EVENT", work |-> "none", cut |-> FALSE,
       dispatching |-> FALSE, stop |-> "no", ssmError |-> "none",
       tailError |-> "none", cpu |-> "none", cycle |-> "idle", deferred |-> FALSE,
       recovering |-> FALSE, capturing |-> FALSE, unread |-> 0,
       event |-> "none", pending |-> "none", restart |-> FALSE,
       waitMode |-> "none", mode |-> "sleep", reference |-> "none",
       healthy |-> TRUE, reader |-> "ok", token |-> FALSE, io |-> FALSE,
       needsReinit |-> FALSE, told |-> "none"]

Next ==
  \/ OpEnds
  \/ Notify \/ RestartNotice \/ ReaderFails \/ EventRejected \/ EventCancelled
  \/ Answer \/ SettleReturns \/ HealthWaitExpired
  \/ StartService \/ StartCoordinator
  \/ Cancel \/ JoinService \/ Quiesce \/ Removed \/ Reopen

\* Operations end (every command has a deadline, every delay a timer), the
\* worker answers, the main loop delivers what is due.
Fairness ==
  /\ WF_vars(OpEnds) /\ WF_vars(EventCancelled) /\ WF_vars(Answer)
  /\ WF_vars(SettleReturns) /\ WF_vars(HealthWaitExpired)

Spec == Init /\ [][Next]_vars /\ Fairness

Frames == INSTANCE FrameCycle WITH
  frame <- IF s.cpu = "running" THEN "out" ELSE s.cpu,
  lifted <- s.cpu # "none" /\ s.cycle = "released",
  told <- s.told,
  Final <- Verdict \ AfterUp

-----------------------------------------------------------------------------
(* Properties *)

\* Every field of the coordinator stays in its range.
TypeOK == ScanState(s)

\* Between two callbacks every coordinator has something that will wake it: an
\* operation, its event wait, or the worker it waits for.  Every path through
\* the handlers, stops included, ends so (WAIT_CPU and CLEANUP_JOIN do nothing
\* by themselves).
StepOwned ==
  /\ s.kind # "none" /\ s.work = "none" =>
       s.state \in {"WAIT_CPU", "CLEANUP_JOIN"} /\ s.cpu = "running"
  /\ s.work = "event" => s.reader = "ok" /\ (Stopping(s) => s.cut)

\* No reference is replaced while the worker still reads the one its frame was
\* captured with (prepare_refresh defers it).
ReplacementSerialized ==
  s.cpu = "running" => s.state \notin {"ENSURE_REFERENCE", "REFRESH"}

\* A capture starts with images left to read, for an action that has no frame
\* in hand (the assertion of start_capture_subsm).
CaptureHasBudget ==
  s.state = "CAPTURE" => s.unread > 0 /\ s.capturing /\ s.cpu = "none"

\* The three together: the coordinator never stalls, and never does the next
\* thing to the sensor before the last one allows it.
CycleOrdered == StepOwned /\ ReplacementSerialized /\ CaptureHasBudget

\* The coordinator implements the abstract contract of FrameCycle.
ImplementsFrameCycle == Frames!Spec

\* The sensor and the server stop sending of their own accord.
Quiet == <>[][~(Notify \/ RestartNotice)]_vars

\* Once the sensor is quiet, an action that must stop is told its outcome.
ActionEnds ==
  Quiet => (s.kind \in Action /\ Stopping(s) ~> s.told # "none")

\* A service that must stop, and a detached deactivation, give the sensor back
\* even to a sensor that never stops sending: WAIT_EVENT leaves newer
\* notifications to the next owner.
HandoffEnds ==
  \/ s.kind = "service" /\ Stopping(s)
  \/ s.kind \in {"wait", "tail"}
  ~> s.kind = "none"

\* A hardware failure marks the session for reconstruction in the end, also
\* when the action itself was told of a cancellation (cleanup cancels the token
\* to join the worker, and that stop takes the place of the failure).
FailureMarksSession == s.ssmError = "error" ~> s.needsReinit

\* The action hears of the end, the next owner of the hand-over, and the session
\* of the failure.
EndsAndTells == ActionEnds /\ HandoffEnds /\ FailureMarksSession

(* What a comment says and the code does not do *)

\* A released finger whose verdict is in is settled, not left waiting for
\* another event ("An event already received during rearm precedes CPU
\* settlement").
SettlementNotStranded ==
  s.work = "event" /\ s.cycle = "released" /\ CpuDone(s) => Stopping(s)

=============================================================================
