---------------------------- MODULE ScanProofs ----------------------------
(***************************************************************************)
(* The safety of Scan, for every sensor (Notice) and application (Kinds):  *)
(* its type, the order of its cycle, and that it implements FrameCycle.    *)
(*                                                                         *)
(* The handlers call each other, and the last calls of a chain may end the *)
(* coordinator, so each has a lemma of its own, about any state its callers*)
(* reach it in: the state it leaves satisfies Inv, and what the action can *)
(* see of the step (Stays, Lifts, Tells) is a step of the contract.  Most  *)
(* handlers are called in the middle of a callback, where no operation is  *)
(* selected yet: Ready is what holds there, Owned what the handlers have to*)
(* establish before the callback returns.                                  *)
(***************************************************************************)
EXTENDS Scan, TLAPS

Acting(t) == t.kind \in Action

\* What belongs to whom: frames and images to an action, which has no outcome
\* yet; it has images left to read as long as it has no frame.
Cycle(t) ==
  /\ ~Acting(t) => /\ t.cycle = "idle" /\ ~t.deferred /\ ~t.capturing
                   /\ t.unread = 0 /\ t.cpu # "running"
  /\ t.kind \in {"none", "service"} => t.cpu = "none"
  /\ t.kind \in {"wait", "tail"} => t.told # "none"
  /\ Acting(t) => /\ t.told = "none"
                  /\ t.cycle = "idle" <=> t.unread > 0
                  /\ t.capturing <=> t.unread > 0
                  /\ t.cycle = "idle" => t.cpu = "none"

\* An action stops without an error only for a match; one that does not stop
\* has its frame with the worker, or a verdict that waits for the lift.
Stops(t) ==
  Acting(t) => /\ t.stop = "yes" => t.cpu = "success"
               /\ t.stop = "no" /\ t.cycle # "idle" => t.cpu \in AfterUp \cup {"running"}

\* The states before the first event of an action.
Early == {"ENSURE_REFERENCE", "POWER_ON", "ARM_DOWN"}

Waiting == {"WAIT_CPU", "CLEANUP_JOIN"}

\* Between two callbacks the owner has an operation, its event wait, a callback
\* of the action, or the worker's answer to come.
Owned(t) ==
  /\ t.kind = "none" => /\ t.state = "WAIT_EVENT" /\ t.work = "none"
                        /\ t.ssmError = "none" /\ t.stop = "no" /\ ~t.dispatching
  /\ t.kind = "tail" <=> t.state = "CLEANUP_SLEEP"
  /\ t.state = "CLEANUP_SLEEP" => t.work = "op"
  /\ t.kind # "none" /\ t.work = "none" => t.state \in Waiting /\ t.cpu = "running"
  /\ t.state \in Waiting => t.work = "none"
  /\ t.state = "WAIT_CPU" =>
       ~t.dispatching /\ (Stopping(t) \/ t.deferred \/ t.cycle = "released")
  /\ t.state = "CLEANUP_JOIN" => Acting(t) /\ t.ssmError # "none"
  /\ t.work = "event" => /\ t.reader = "ok" /\ (t.cut <=> Stopping(t))
                         /\ ~t.dispatching /\ t.state = "WAIT_EVENT"
  /\ t.work = "callback" => /\ ~t.dispatching /\ Acting(t) /\ t.cpu \in AfterUp
                            /\ t.cycle = "released" /\ t.stop = "no"
                            /\ t.state = "CYCLE_SETTLED"
  /\ t.state = "CYCLE_SETTLED" => t.work = "callback"
  /\ t.work = "op" /\ t.state \notin Early \cup Cleanup => t.dispatching
  /\ t.state \in Early =>
       Acting(t) /\ t.cycle = "idle" /\ ~t.dispatching /\ t.work = "op"
  /\ t.state = "CAPTURE" => Acting(t) /\ t.cycle = "idle" /\ t.work = "op"
  /\ t.cpu = "running" => t.state \notin {"ENSURE_REFERENCE", "REFRESH"}

\* The inductive invariant, of a coordinator's state and of the current one.
Inv(t) == ScanState(t) /\ Cycle(t) /\ Stops(t) /\ Owned(t)

IInv == Inv(s)

\* In the middle of a callback of an owner that may still be stopped.
Mid(t) == ScanState(t) /\ Cycle(t) /\ t.kind \notin {"none", "tail"}

Ready(t) == Mid(t) /\ Stops(t)

\* A stop leaves the owner alone: what it does next looks at the stop.
Resting(t) ==
  \/ t.dispatching \/ t.work \in {"op", "event"}
  \/ t.cpu = "running" /\ t.state \in Cleanup

\* What the action can see of a step: nothing, the lift, the outcome.
Stays(t, r) == r.cpu = t.cpu /\ r.cycle = t.cycle /\ r.told = t.told

Lifts(t, r) ==
  r.cpu = t.cpu /\ r.told = t.told /\ t.cycle = "active" /\ r.cycle = "released"

Detached(t, r) ==
  /\ t.told = "none" /\ t.cpu # "running"
  /\ r.told # "none" /\ r.cpu = t.cpu /\ r.cycle = "idle"

Tells(t, r) == Detached(t, r) /\ (r.told = "ok" => t.cpu = "success")

Finishes(t, r) == Stays(t, r) \/ Tells(t, r)

Moves(t, r) == Finishes(t, r) \/ Lifts(t, r)

-----------------------------------------------------------------------------
(* The end of a coordinator *)

\* The owner of a service or of a tail is released: nobody owns the sensor.
LEMMA GoneInv ==
  ASSUME NEW t, ScanState(t), Cycle(t), t.kind \in {"service", "tail"}
  PROVE  /\ Inv(Gone(t))
         /\ Gone(t).cpu = "none" /\ Gone(t).cycle = t.cycle /\ Gone(t).told = t.told
  <1> DEFINE v == [t EXCEPT !.kind = "none", !.state = "WAIT_EVENT", !.work = "none",
                            !.cut = FALSE, !.dispatching = FALSE, !.stop = "no"]
             n == v.needsReinit \/ t.ssmError = "error"
             u == [v EXCEPT !.needsReinit = n, !.ssmError = "none", !.event = "none",
                            !.recovering = FALSE, !.cpu = "none"]
  <1>1. Gone(t) = u BY DEF Gone
  <1>2. ScanState(v) /\ n \in BOOLEAN BY DEF ScanState, State
  <1>3. /\ v.kind = "none" /\ v.state = "WAIT_EVENT" /\ v.work = "none"
        /\ v.stop = "no" /\ ~v.dispatching /\ v.cycle = t.cycle /\ v.deferred = t.deferred
        /\ v.capturing = t.capturing /\ v.unread = t.unread /\ v.told = t.told
    BY DEF ScanState
  <1> HIDE DEF v, n
  <1>4. ScanState(u) BY <1>2 DEF ScanState, Failure
  <1>5. Cycle(u) BY <1>2, <1>3 DEF ScanState, Cycle, Acting, Action
  <1>6. Stops(u) BY <1>2, <1>3 DEF ScanState, Stops, Acting, Action
  <1>7. Owned(u)
    BY <1>2, <1>3 DEF ScanState, Owned, Acting, Action, Early, Waiting, Cleanup
  <1>8. u.cpu = "none" /\ u.cycle = t.cycle /\ u.told = t.told
    BY <1>2, <1>3 DEF ScanState
  <1> QED BY <1>1, <1>4, <1>5, <1>6, <1>7, <1>8 DEF Inv

\* The last command of a deactivation, of an action that has its outcome.
LEMMA SleepInv ==
  ASSUME NEW t, ScanState(t), t.told # "none", t.cpu # "running", t.cycle = "idle",
         ~t.deferred, ~t.capturing, t.unread = 0
  PROVE  Inv(Sleep(t)) /\ Stays(t, Sleep(t))
  <1> DEFINE v == [t EXCEPT !.kind = "tail", !.state = "CLEANUP_SLEEP", !.work = "op",
                            !.cut = FALSE, !.dispatching = FALSE]
             u == [v EXCEPT !.stop = "no", !.event = "none", !.recovering = FALSE,
                            !.healthy = TRUE]
  <1>1. Sleep(t) = u BY DEF Sleep
  <1>2. ScanState(v) BY DEF ScanState, State, Cleanup
  <1>3. /\ v.kind = "tail" /\ v.state = "CLEANUP_SLEEP" /\ v.work = "op"
        /\ v.cycle = t.cycle /\ v.deferred = t.deferred /\ v.cpu = t.cpu
        /\ v.capturing = t.capturing /\ v.unread = t.unread /\ v.told = t.told
    BY DEF ScanState
  <1> HIDE DEF v
  <1>4. ScanState(u) BY <1>2 DEF ScanState
  <1>5. Cycle(u) BY <1>2, <1>3 DEF ScanState, Cycle, Acting, Action
  <1>6. Stops(u) BY <1>2, <1>3 DEF ScanState, Stops, Acting, Action
  <1>7. Owned(u)
    BY <1>2, <1>3 DEF ScanState, Owned, Acting, Action, Early, Waiting, Cleanup
  <1>8. Stays(t, u) BY <1>2, <1>3 DEF ScanState, Stays
  <1> QED BY <1>1, <1>4, <1>5, <1>6, <1>7, <1>8 DEF Inv

\* The first of two errors is an error if there is one.
LEMMA OrFacts ==
  ASSUME NEW a \in Failure, NEW b \in Failure
  PROVE  Or(a, b) \in Failure /\ (b # "none" => Or(a, b) # "none")
  BY DEF Or, Failure

\* The maintenance child has returned the ownership it was lent.
LEMMA ChildDoneInv ==
  ASSUME NEW t, ScanState(t), t.told # "none", t.cpu # "running", t.cycle = "idle",
         ~t.deferred, ~t.capturing, t.unread = 0
  PROVE  Inv(ChildDone(t)) /\ Stays(t, ChildDone(t))
  <1> DEFINE e == Or(t.tailError, t.ssmError)
             v == [t EXCEPT !.ssmError = e, !.tailError = "none"]
  <1>1. e \in Failure BY OrFacts DEF ScanState
  <1>2. ChildDone(t) = Sleep(v) BY DEF ChildDone
  <1> HIDE DEF e
  <1>3. ScanState(v) BY <1>1 DEF ScanState, Failure
  <1>4. /\ v.told = t.told /\ v.cpu = t.cpu /\ v.cycle = t.cycle
        /\ v.deferred = t.deferred /\ v.capturing = t.capturing /\ v.unread = t.unread
    BY DEF ScanState
  <1> HIDE DEF v
  <1> QED BY <1>2, <1>3, <1>4, SleepInv DEF Stays

\* The child a detached action lends its ownership to.
LEMMA StartHealthWaitInv ==
  ASSUME NEW t, ScanState(t), t.told # "none", t.cpu # "running", t.cycle = "idle",
         ~t.deferred, ~t.capturing, t.unread = 0
  PROVE  Inv(StartHealthWait(t)) /\ Stays(t, StartHealthWait(t))
  <1> DEFINE v == [t EXCEPT !.kind = "wait", !.state = "WAIT_EVENT", !.work = "op",
                            !.cut = FALSE, !.dispatching = TRUE, !.stop = "no"]
             c == [v EXCEPT !.tailError = t.ssmError, !.ssmError = "none",
                            !.recovering = FALSE]
             x == [c EXCEPT !.needsReinit = TRUE, !.ssmError = "error"]
             y == [c EXCEPT !.restart = FALSE]
             z == [c EXCEPT !.state = "DISPATCH_EVENT", !.event = t.pending,
                            !.pending = "none"]
             Child(u) == /\ u.kind = "wait" /\ u.work = "op" /\ u.dispatching
                         /\ u.told = t.told /\ u.cpu = t.cpu /\ u.cycle = t.cycle
                         /\ u.deferred = t.deferred /\ u.capturing = t.capturing
                         /\ u.unread = t.unread
  <1>1. StartHealthWait(t) = IF t.reader = "failed" THEN ChildDone(x)
                             ELSE IF t.restart THEN y ELSE z
    BY DEF StartHealthWait
  <1>2. ScanState(v) BY DEF ScanState, State
  <1>3. Child(v) /\ v.state = "WAIT_EVENT" BY DEF ScanState
  <1> HIDE DEF v
  <1>4. ScanState(c) BY <1>2 DEF ScanState, Failure
  <1>5. Child(c) /\ c.state = "WAIT_EVENT" BY <1>2, <1>3 DEF ScanState
  <1> HIDE DEF c
  <1>6. ScanState(x) BY <1>4 DEF ScanState, Failure
  <1>7. ScanState(y) BY <1>4 DEF ScanState
  <1>8. ScanState(z) BY <1>4 DEF ScanState, State
  <1>9. /\ Child(x) /\ Child(y) /\ y.state = "WAIT_EVENT"
        /\ Child(z) /\ z.state = "DISPATCH_EVENT"
    BY <1>4, <1>5 DEF ScanState
  <1> HIDE DEF x, y, z
  <1>10. Inv(ChildDone(x)) /\ Stays(x, ChildDone(x)) BY <1>3, <1>6, <1>9, ChildDoneInv
  <1>11. ASSUME NEW u, ScanState(u), Child(u), u.state \in {"WAIT_EVENT", "DISPATCH_EVENT"}
         PROVE  Inv(u) /\ Stays(t, u)
    <2>1. Cycle(u) BY <1>11 DEF Cycle, Acting, Action
    <2>2. Stops(u) BY <1>11 DEF Stops, Acting, Action
    <2>3. Owned(u) BY <1>11 DEF Owned, Acting, Action, Early, Waiting, Cleanup
    <2> QED BY <1>11, <2>1, <2>2, <2>3 DEF Inv, Stays
  <1>12. Inv(y) /\ Stays(t, y) /\ Inv(z) /\ Stays(t, z) BY <1>7, <1>8, <1>9, <1>11
  <1> HIDE DEF Child
  <1>13. Stays(t, ChildDone(x)) BY <1>9, <1>10 DEF Stays, Child
  <1> QED BY <1>1, <1>10, <1>12, <1>13

\* The action is told its outcome, and the deactivation begins.
LEMMA DetachActionInv ==
  ASSUME NEW t, Mid(t), Acting(t), t.cpu # "running"
  PROVE  /\ Inv(DetachAction(t)) /\ Detached(t, DetachAction(t))
         /\ DetachAction(t).told = "ok" =>
              t.cpu = "success" \/ (t.stop \notin Failure /\ t.ssmError = "none")
  <1> DEFINE o == IF t.stop \in Failure THEN t.stop ELSE t.ssmError
             told == IF o = "none" \/ (o = "error" /\ t.cpu = "success") THEN "ok" ELSE o
             n == t.needsReinit \/ o = "error"
             v == [t EXCEPT !.told = told, !.needsReinit = n, !.cycle = "idle",
                            !.deferred = FALSE, !.waitMode = "none",
                            !.pending = "deactivate", !.capturing = FALSE, !.unread = 0]
  <1>1. DetachAction(t) = IF t.healthy THEN Sleep(v) ELSE StartHealthWait(v)
    BY DEF DetachAction
  <1>2. ScanState(t) BY DEF Mid
  <1>3. n \in BOOLEAN /\ told \in {"ok", "cancelled", "error"} BY <1>2 DEF ScanState, Failure
  <1>4. told = "ok" => t.cpu = "success" \/ (t.stop \notin Failure /\ t.ssmError = "none")
    BY <1>2 DEF ScanState, Failure
  <1> HIDE DEF n, told
  <1>5. ScanState(v) BY <1>2, <1>3 DEF ScanState, Event
  <1>6. /\ v.told = told /\ v.cpu = t.cpu /\ v.cycle = "idle" /\ ~v.deferred
        /\ ~v.capturing /\ v.unread = 0
    BY <1>2 DEF ScanState
  <1> HIDE DEF v
  <1>7. Inv(DetachAction(t)) /\ Stays(v, DetachAction(t))
    BY <1>1, <1>3, <1>5, <1>6, SleepInv, StartHealthWaitInv
  <1>8. t.told = "none" BY DEF Mid, Cycle
  <1> QED BY <1>3, <1>4, <1>6, <1>7, <1>8 DEF Stays, Detached

\* fpi_ssm_mark_failed and the first cleanup state; an action whose frame is
\* with the worker waits for its answer.
LEMMA CleanupJoinInv ==
  ASSUME NEW t, Mid(t), t.cpu = "running" => t.ssmError # "none" /\ t.stop # "yes"
  PROVE  /\ Inv(CleanupJoin(t))
         /\ \/ Stays(t, CleanupJoin(t))
            \/ /\ Acting(t) /\ Detached(t, CleanupJoin(t))
               /\ CleanupJoin(t).told = "ok" =>
                    t.cpu = "success" \/ (t.stop \notin Failure /\ t.ssmError = "none")
  <1> DEFINE r == CleanupJoin(t)
             stop == IF ~t.token /\ t.stop \in {"no", "yes"} THEN "cancelled" ELSE t.stop
             w == [t EXCEPT !.state = "CLEANUP_JOIN", !.work = "none", !.token = TRUE,
                            !.stop = stop]
             v == [t EXCEPT !.state = "CLEANUP_JOIN"]
  <1>0. ScanState(t) /\ Cycle(t) /\ t.kind \notin {"none", "tail"} BY DEF Mid
  <1>1. CASE t.kind = "service"
    <2>1. r = Gone(t) BY <1>1 DEF CleanupJoin
    <2>2. Inv(r) /\ Stays(t, r) BY <1>0, <1>1, <2>1, GoneInv DEF Stays, Cycle
    <2> QED BY <2>2
  <1>2. CASE t.kind = "wait"
    <2>1. r = ChildDone(t) BY <1>2 DEF CleanupJoin
    <2>2. /\ t.told # "none" /\ t.cpu # "running" /\ t.cycle = "idle"
          /\ ~t.deferred /\ ~t.capturing /\ t.unread = 0
      BY <1>0, <1>2 DEF Cycle, Acting, Action
    <2> QED BY <1>0, <2>1, <2>2, ChildDoneInv
  <1>3. CASE Acting(t) /\ t.cpu = "running"
    <2>1. r = w BY <1>3 DEF CleanupJoin, Acting, Action
    <2>2. stop \in {"no", "cancelled", "error"} BY <1>0, <1>3 DEF ScanState
    <2> HIDE DEF stop
    <2>3. ScanState(w) BY <1>0, <2>2 DEF ScanState, State, Cleanup
    <2>4. /\ w.kind = t.kind /\ w.state = "CLEANUP_JOIN" /\ w.work = "none"
          /\ w.stop = stop /\ w.ssmError = t.ssmError
          /\ w.cpu = t.cpu /\ w.cycle = t.cycle /\ w.told = t.told
          /\ w.deferred = t.deferred /\ w.capturing = t.capturing /\ w.unread = t.unread
      BY <1>0 DEF ScanState
    <2> HIDE DEF w
    <2>5. Cycle(w) BY <1>0, <2>4 DEF Cycle, Acting
    <2>6. Stops(w) BY <1>3, <2>2, <2>4 DEF Stops
    <2>7. Owned(w) BY <1>3, <2>4 DEF Owned, Early, Waiting, Acting, Action, Cleanup
    <2>8. Stays(t, w) BY <2>4 DEF Stays
    <2> QED BY <2>1, <2>3, <2>5, <2>6, <2>7, <2>8 DEF Inv
  <1>4. CASE Acting(t) /\ t.cpu # "running"
    <2>1. r = DetachAction(v) BY <1>4 DEF CleanupJoin, Acting, Action
    <2>2. ScanState(v) BY <1>0 DEF ScanState, State, Cleanup
    <2>3. /\ v.kind = t.kind /\ v.stop = t.stop /\ v.ssmError = t.ssmError
          /\ v.cpu = t.cpu /\ v.cycle = t.cycle /\ v.told = t.told
          /\ v.deferred = t.deferred /\ v.capturing = t.capturing /\ v.unread = t.unread
      BY <1>0 DEF ScanState
    <2> HIDE DEF v
    <2>4. Mid(v) /\ Acting(v) /\ v.cpu # "running"
      BY <1>0, <1>4, <2>2, <2>3 DEF Mid, Cycle, Acting
    <2>5. /\ Inv(r) /\ Detached(v, r)
          /\ r.told = "ok" =>
               v.cpu = "success" \/ (v.stop \notin Failure /\ v.ssmError = "none")
      BY <2>1, <2>4, DetachActionInv
    <2> QED BY <1>4, <2>3, <2>5 DEF Detached
  <1> QED BY <1>0, <1>1, <1>2, <1>3, <1>4 DEF ScanState, Acting

\* What Ready depends on, apart from the stop.
Agree(t, v) ==
  /\ v.kind = t.kind /\ v.cpu = t.cpu /\ v.cycle = t.cycle /\ v.told = t.told
  /\ v.deferred = t.deferred /\ v.capturing = t.capturing /\ v.unread = t.unread

\* What is ready stays so, and shows the same, when only other fields change.
LEMMA AgreeReady ==
  ASSUME NEW t, NEW v, ScanState(v), Agree(t, v)
  PROVE  /\ Cycle(t) <=> Cycle(v)
         /\ Mid(t) => Mid(v)
         /\ Ready(t) /\ v.stop = t.stop => Ready(v)
         /\ Stays(t, v)
         /\ \A r : /\ Stays(v, r) <=> Stays(t, r)
                   /\ Tells(v, r) <=> Tells(t, r)
                   /\ Moves(v, r) <=> Moves(t, r)
  <1>1. Cycle(t) <=> Cycle(v) BY DEF Agree, Cycle, Acting
  <1>2. v.stop = t.stop => (Stops(t) <=> Stops(v)) BY DEF Agree, Stops, Acting
  <1> QED BY <1>1, <1>2 DEF Agree, Mid, Ready, Stays, Tells, Detached, Lifts, Finishes, Moves

\* fpi_ssm_mark_failed.
LEMMA FailInv ==
  ASSUME NEW t, Mid(t), NEW e \in {"cancelled", "error"},
         t.cpu = "running" => t.stop # "yes"
  PROVE  Inv(Fail(t, e)) /\ Finishes(t, Fail(t, e))
  <1> DEFINE o == Or(t.ssmError, e)
             v == [t EXCEPT !.ssmError = o]
             r == CleanupJoin(v)
  <1>0. ScanState(t) BY DEF Mid
  <1>1. Fail(t, e) = r BY DEF Fail
  <1>2. o \in Failure /\ o # "none" BY <1>0, OrFacts DEF ScanState, Failure
  <1> HIDE DEF o
  <1>3. ScanState(v) BY <1>0, <1>2 DEF ScanState
  <1>4. Agree(t, v) /\ v.stop = t.stop /\ v.ssmError = o BY <1>0 DEF ScanState, Agree
  <1> HIDE DEF v
  <1>5. Mid(v) BY <1>3, <1>4, AgreeReady
  <1>6. v.cpu = "running" => v.ssmError # "none" /\ v.stop # "yes"
    BY <1>2, <1>4 DEF Agree
  <1>7. Inv(r) /\ (Stays(v, r) \/ (Detached(v, r) /\ (r.told = "ok" => v.cpu = "success")))
    BY <1>2, <1>4, <1>5, <1>6, CleanupJoinInv
  <1> HIDE DEF r
  <1> QED BY <1>1, <1>3, <1>4, <1>7, AgreeReady DEF Finishes, Tells

\* The requested stop becomes the machine's error, if it has one.
LEMMA FinishRequestedInv ==
  ASSUME NEW t, Ready(t), Stopping(t), t.cpu # "running"
  PROVE  Inv(FinishRequested(t)) /\ Finishes(t, FinishRequested(t))
  <1> DEFINE v == [t EXCEPT !.stop = "yes"]
             r == CleanupJoin(t)
  <1>0. ScanState(t) /\ Mid(t) BY DEF Ready, Mid
  <1>1. CASE t.stop \in Failure
    <2>1. t.stop \in {"cancelled", "error"} BY <1>0, <1>1 DEF Stopping, Failure, ScanState
    <2>2. ScanState(v) BY <1>0 DEF ScanState
    <2>3. Agree(t, v) BY <1>0 DEF ScanState, Agree
    <2>4. FinishRequested(t) = Fail(v, t.stop) BY <1>1 DEF FinishRequested
    <2> HIDE DEF v
    <2>5. Mid(v) /\ v.cpu # "running" BY <1>0, <2>2, <2>3, AgreeReady DEF Agree
    <2>6. Inv(Fail(v, t.stop)) /\ Finishes(v, Fail(v, t.stop)) BY <2>1, <2>5, FailInv
    <2> QED BY <2>2, <2>3, <2>4, <2>6, AgreeReady DEF Finishes
  <1>2. CASE t.stop \notin Failure
    <2>1. t.stop = "yes" BY <1>0, <1>2 DEF Stopping, ScanState, Failure
    <2>2. FinishRequested(t) = r BY <1>2 DEF FinishRequested
    <2>3. Acting(t) => t.cpu = "success" BY <2>1 DEF Ready, Stops
    <2>4. Inv(r) /\ (Stays(t, r) \/ (Acting(t) /\ Detached(t, r))) BY <1>0, CleanupJoinInv
    <2> QED BY <2>2, <2>3, <2>4 DEF Finishes, Tells
  <1> QED BY <1>1, <1>2

\* A stop ends the owner, unless something is still to come back.
LEMMA MaybeFinishInv ==
  ASSUME NEW t, Ready(t), Stopping(t), Resting(t) => Owned(t)
  PROVE  Inv(MaybeFinish(t)) /\ Finishes(t, MaybeFinish(t))
  <1> DEFINE v == [t EXCEPT !.state = "WAIT_CPU", !.work = "none"]
             w == [t EXCEPT !.deferred = FALSE, !.dispatching = TRUE,
                            !.state = "REFRESH", !.work = "op"]
  <1>0. ScanState(t) /\ Cycle(t) /\ Stops(t) /\ t.kind \notin {"none", "tail"}
    BY DEF Ready, Mid
  <1>1. CASE Resting(t)
    <2>1. MaybeFinish(t) = t BY <1>1 DEF Resting, MaybeFinish
    <2> QED BY <1>0, <1>1, <2>1 DEF Inv, Finishes, Stays
  <1>2. CASE ~Resting(t) /\ t.cpu = "running"
    <2>1. MaybeFinish(t) = v BY <1>2 DEF Resting, MaybeFinish
    <2>2. ScanState(v) BY <1>0 DEF ScanState, State
    <2>3. /\ Agree(t, v) /\ v.stop = t.stop /\ v.dispatching = t.dispatching
          /\ v.state = "WAIT_CPU" /\ v.work = "none"
      BY <1>0 DEF ScanState, Agree
    <2> HIDE DEF v
    <2>4. Ready(v) /\ Stays(t, v) BY <2>2, <2>3, AgreeReady
    <2>5. Owned(v)
      BY <1>0, <1>2, <2>3 DEF Owned, Agree, Resting, Waiting, Early, Cleanup, Stopping, ScanState
    <2> QED BY <2>1, <2>2, <2>4, <2>5 DEF Inv, Ready, Mid, Finishes
  <1>3. CASE ~Resting(t) /\ t.cpu # "running" /\ t.deferred
    <2>1. MaybeFinish(t) = w BY <1>3 DEF Resting, MaybeFinish
    <2>2. ScanState(w) BY <1>0 DEF ScanState, State
    <2>3. /\ w.kind = t.kind /\ w.cpu = t.cpu /\ w.cycle = t.cycle /\ w.told = t.told
          /\ w.capturing = t.capturing /\ w.unread = t.unread /\ w.stop = t.stop
          /\ ~w.deferred /\ w.dispatching /\ w.state = "REFRESH" /\ w.work = "op"
      BY <1>0 DEF ScanState
    <2> HIDE DEF w
    <2>4. Cycle(w) /\ Stops(w) BY <1>0, <2>3 DEF Cycle, Stops, Acting
    <2>5. Owned(w) BY <1>0, <1>3, <2>3 DEF Owned, Waiting, Early, Cleanup
    <2> QED BY <2>1, <2>2, <2>3, <2>4, <2>5 DEF Inv, Finishes, Stays
  <1>4. CASE ~Resting(t) /\ t.cpu # "running" /\ ~t.deferred
    <2>1. MaybeFinish(t) = FinishRequested(t) BY <1>4 DEF Resting, MaybeFinish
    <2> QED BY <1>4, <2>1, FinishRequestedInv
  <1> QED BY <1>1, <1>2, <1>3, <1>4

\* A stop is requested: the first error among the requests is kept, and an
\* event wait is cancelled first.
LEMMA RequestStopInv ==
  ASSUME NEW t, Mid(t), NEW e \in {"yes", "cancelled", "error"},
         Acting(t) => (t.stop = "yes" \/ e = "yes" => t.cpu = "success"),
         Resting(t) => Owned(t)
  PROVE  Inv(RequestStop(t, e)) /\ Finishes(t, RequestStop(t, e))
  <1> DEFINE stop == IF t.stop = "no" \/ (t.stop = "yes" /\ e # "yes") THEN e ELSE t.stop
             u == [t EXCEPT !.stop = stop]
             v == [u EXCEPT !.cut = TRUE]
  <1>0. ScanState(t) /\ Cycle(t) /\ t.kind \notin {"none", "tail"} BY DEF Mid
  <1>1. RequestStop(t, e) =
          IF ~Stopping(t) /\ t.work = "event" THEN v ELSE MaybeFinish(u)
    BY DEF RequestStop
  <1>2. stop \in {"yes", "cancelled", "error"} /\ (Acting(t) /\ stop = "yes" => t.cpu = "success")
    BY <1>0 DEF ScanState
  <1> HIDE DEF stop
  <1>3. ScanState(u) BY <1>0, <1>2 DEF ScanState
  <1>4. /\ Agree(t, u) /\ u.stop = stop /\ u.dispatching = t.dispatching
        /\ u.state = t.state /\ u.work = t.work /\ u.cut = t.cut
        /\ u.reader = t.reader /\ u.ssmError = t.ssmError
    BY <1>0 DEF ScanState, Agree
  <1> HIDE DEF u
  <1>5. ScanState(v) BY <1>3 DEF ScanState
  <1>6. /\ Agree(t, v) /\ v.stop = stop /\ v.dispatching = t.dispatching
        /\ v.state = t.state /\ v.work = t.work /\ v.cut
        /\ v.reader = t.reader /\ v.ssmError = t.ssmError
    BY <1>3, <1>4 DEF ScanState, Agree
  <1> HIDE DEF v
  <1>7. ASSUME NEW x, ScanState(x), Agree(t, x), x.stop = stop PROVE Ready(x) /\ Stopping(x)
    <2>1. Stops(x) BY <1>2, <1>7 DEF Stops, Acting, Agree
    <2> QED BY <1>2, <1>7, <2>1, AgreeReady DEF Ready, Stopping
  <1>8. CASE ~Stopping(t) /\ t.work = "event"
    <2>1. Owned(v)
      BY <1>0, <1>2, <1>6, <1>8 DEF Resting, Owned, Agree, Stopping, Acting, Waiting, Early, Cleanup
    <2>2. Ready(v) /\ Stays(t, v) BY <1>5, <1>6, <1>7, AgreeReady
    <2> QED BY <1>1, <1>5, <1>8, <2>1, <2>2 DEF Inv, Ready, Mid, Finishes
  <1>9. CASE Stopping(t) \/ t.work # "event"
    <2>1. Resting(u) => Owned(u)
      <3>1. Resting(u) <=> Resting(t) BY <1>4 DEF Resting, Agree
      <3>2. ASSUME Owned(t), Resting(t) PROVE Owned(u)
        BY <1>0, <1>2, <1>4, <1>9, <3>2
           DEF Resting, Owned, Agree, Stopping, Acting, Waiting, Early, Cleanup
      <3> QED BY <3>1, <3>2
    <2>2. Ready(u) /\ Stopping(u) BY <1>3, <1>4, <1>7
    <2>3. Inv(MaybeFinish(u)) /\ Finishes(u, MaybeFinish(u)) BY <2>1, <2>2, MaybeFinishInv
    <2> QED BY <1>1, <1>3, <1>4, <1>9, <2>3, AgreeReady DEF Finishes
  <1> QED BY <1>8, <1>9

-----------------------------------------------------------------------------
(* Entering the states *)

Mode == {"none", "down", "up"}

\* The states of a dispatched event.
Later == State \ (Early \cup Cleanup \cup {"WAIT_EVENT", "WAIT_CPU", "CYCLE_SETTLED"})

\* A selected operation keeps every field in its range.
LEMMA SelectType ==
  ASSUME NEW t, ScanState(t), NEW state \in State, NEW mode \in {"none", "down", "up"}
  PROVE  ScanState([t EXCEPT !.state = state, !.work = "op", !.waitMode = mode])
  BY DEF ScanState

\* The work an event has selected starts even if a stop is requested.
LEMMA EnterLaterInv ==
  ASSUME NEW t, Ready(t), t.dispatching, NEW state \in Later, NEW mode \in Mode,
         state = "CAPTURE" => Acting(t) /\ t.cycle = "idle",
         t.cpu = "running" => state # "REFRESH"
  PROVE  Inv(Enter(t, state, mode)) /\ Stays(t, Enter(t, state, mode))
  <1> DEFINE u == [t EXCEPT !.state = state, !.work = "op", !.waitMode = mode]
  <1>0. ScanState(t) /\ t.kind \notin {"none", "tail"} BY DEF Ready, Mid
  <1>1. Enter(t, state, mode) = u BY DEF Enter
  <1>a. state \in State /\ mode \in {"none", "down", "up"} BY SMTT(30) DEF Later, Mode
  <1>2. ScanState(u) BY <1>0, <1>a, SelectType
  <1>3. /\ Agree(t, u) /\ u.stop = t.stop /\ u.dispatching
        /\ u.state = state /\ u.work = "op"
    BY <1>0 DEF ScanState, Agree
  <1> HIDE DEF u
  <1>4. Ready(u) /\ Stays(t, u) BY <1>2, <1>3, AgreeReady
  <1>5. Owned(u) BY <1>0, <1>3 DEF Owned, Agree, Acting, Later, Waiting, Early, Cleanup
  <1> QED BY <1>1, <1>2, <1>4, <1>5 DEF Inv, Ready, Mid

\* Before the first event a stop keeps the next operation from starting.
LEMMA EnterEarlyInv ==
  ASSUME NEW t, Ready(t), Acting(t), t.cycle = "idle", ~t.dispatching,
         NEW state \in Early, NEW mode \in Mode
  PROVE  /\ Inv(Enter(t, state, mode)) /\ Finishes(t, Enter(t, state, mode))
         /\ ~Stopping(t) => Stays(t, Enter(t, state, mode))
  <1> DEFINE v == [t EXCEPT !.state = state, !.work = "none"]
             u == [t EXCEPT !.state = state, !.work = "op", !.waitMode = mode]
  <1>0. ScanState(t) /\ Cycle(t) /\ t.kind \notin {"none", "tail"} BY DEF Ready, Mid
  <1>1. Enter(t, state, mode) = IF Stopping(t) THEN MaybeFinish(v) ELSE u BY DEF Enter
  <1>2. ScanState(v) /\ ScanState(u) BY <1>0 DEF ScanState, State, Early, Mode
  <1>3. /\ Agree(t, v) /\ v.stop = t.stop /\ v.dispatching = t.dispatching
        /\ v.state = state /\ v.work = "none"
    BY <1>0 DEF ScanState, Agree
  <1>4. /\ Agree(t, u) /\ u.stop = t.stop /\ u.dispatching = t.dispatching
        /\ u.state = state /\ u.work = "op"
    BY <1>0 DEF ScanState, Agree
  <1> HIDE DEF u, v
  <1>5. Ready(v) /\ Ready(u) /\ Stays(t, u) BY <1>2, <1>3, <1>4, AgreeReady
  <1>6. CASE Stopping(t)
    <2>1. ~Resting(v) /\ Stopping(v) BY <1>3, <1>6 DEF Resting, Stopping, Early, Cleanup
    <2>2. Inv(MaybeFinish(v)) /\ Finishes(v, MaybeFinish(v)) BY <1>5, <2>1, MaybeFinishInv
    <2> QED BY <1>1, <1>2, <1>3, <1>6, <2>2, AgreeReady DEF Finishes
  <1>7. CASE ~Stopping(t)
    <2>1. Owned(u) BY <1>0, <1>4 DEF Owned, Agree, Acting, Cycle, Waiting, Early, Cleanup
    <2> QED BY <1>1, <1>2, <1>5, <1>7, <2>1 DEF Inv, Ready, Mid, Finishes
  <1> QED BY <1>6, <1>7

\* Re-arming is work of a dispatched event.
LEMMA RearmInv ==
  ASSUME NEW t, Ready(t), t.dispatching
  PROVE  /\ Inv(RearmDown(t)) /\ Stays(t, RearmDown(t))
         /\ Inv(UpHealth(t)) /\ Stays(t, UpHealth(t))
  <1>1. t.waitMode \in Mode BY DEF Ready, Mid, ScanState, Mode
  <1>2. {"REARM_DOWN", "UP_HEALTH"} \subseteq Later BY DEF Later, State, Early, Cleanup
  <1>3. Inv(RearmDown(t)) /\ Stays(t, RearmDown(t))
    BY <1>2, EnterLaterInv DEF RearmDown, Mode
  <1>4. Inv(Start(t, "UP_HEALTH")) /\ Stays(t, Start(t, "UP_HEALTH"))
    BY <1>1, <1>2, EnterLaterInv DEF Start
  <1> QED BY <1>3, <1>4 DEF UpHealth

\* So is the arm that waits for a lift again; it may follow a wake.
LEMMA RecoveryArmUpInv ==
  ASSUME NEW t, Ready(t)
  PROVE  Inv(RecoveryArmUp(t)) /\ Stays(t, RecoveryArmUp(t))
  <1> DEFINE v == [t EXCEPT !.dispatching = TRUE]
  <1>0. ScanState(t) BY DEF Ready, Mid
  <1>1. RecoveryArmUp(t) = Enter(v, "RECOVERY_ARM_UP", "up") BY DEF RecoveryArmUp
  <1>2. ScanState(v) BY <1>0 DEF ScanState
  <1>3. Agree(t, v) /\ v.stop = t.stop /\ v.dispatching BY <1>0 DEF ScanState, Agree
  <1> HIDE DEF v
  <1>4. Ready(v) BY <1>2, <1>3, AgreeReady
  <1>5. Inv(Enter(v, "RECOVERY_ARM_UP", "up")) /\ Stays(v, Enter(v, "RECOVERY_ARM_UP", "up"))
    BY <1>3, <1>4, EnterLaterInv DEF Later, State, Early, Cleanup, Mode
  <1> QED BY <1>1, <1>2, <1>3, <1>5, AgreeReady

\* A new reference, or its deferral to the worker's answer.
LEMMA PrepareRefreshInv ==
  ASSUME NEW t, Ready(t), t.dispatching
  PROVE  Inv(PrepareRefresh(t)) /\ Stays(t, PrepareRefresh(t))
  <1> DEFINE w == [t EXCEPT !.deferred = TRUE, !.dispatching = FALSE,
                            !.state = "WAIT_CPU", !.work = "none"]
  <1>0. ScanState(t) /\ Cycle(t) /\ Stops(t) /\ t.kind \notin {"none", "tail"}
    BY DEF Ready, Mid
  <1>1. CASE t.cpu = "running"
    <2>1. PrepareRefresh(t) = w BY <1>1 DEF PrepareRefresh
    <2>2. ScanState(w) BY <1>0 DEF ScanState, State
    <2>3. /\ w.kind = t.kind /\ w.cpu = t.cpu /\ w.cycle = t.cycle /\ w.told = t.told
          /\ w.capturing = t.capturing /\ w.unread = t.unread /\ w.stop = t.stop
          /\ w.deferred /\ ~w.dispatching /\ w.state = "WAIT_CPU" /\ w.work = "none"
      BY <1>0 DEF ScanState
    <2> HIDE DEF w
    <2>4. Cycle(w) /\ Stops(w) BY <1>0, <1>1, <2>3 DEF Cycle, Stops, Acting
    <2>5. Owned(w) BY <1>0, <1>1, <2>3 DEF Owned, Waiting, Early, Cleanup
    <2> QED BY <2>1, <2>2, <2>3, <2>4, <2>5 DEF Inv, Stays
  <1>2. CASE t.cpu # "running"
    <2>1. PrepareRefresh(t) = Enter(t, "REFRESH", t.waitMode)
      BY <1>2 DEF PrepareRefresh, Start
    <2>2. t.waitMode \in Mode BY <1>0 DEF ScanState, Mode
    <2> QED BY <1>2, <2>1, <2>2, EnterLaterInv DEF Later, State, Early, Cleanup
  <1> QED BY <1>1, <1>2

\* WAIT_EVENT with nothing pending.
LEMMA PostInv ==
  ASSUME NEW t, Ready(t), ~t.dispatching, t.state = "WAIT_EVENT", t.work = "none",
         t.reader = "ok" \/ (Idle(t) /\ (Stopping(t) \/ (t.kind = "wait" /\ t.healthy)))
  PROVE  Inv(Post(t)) /\ Finishes(t, Post(t))
  <1> DEFINE stop == IF t.kind = "wait" /\ t.healthy /\ t.stop = "no" THEN "yes" ELSE t.stop
             u == [t EXCEPT !.stop = stop]
             v == [u EXCEPT !.dispatching = FALSE]
             w == [u EXCEPT !.work = "event", !.cut = Stopping(u), !.event = "none"]
  <1>0. ScanState(t) /\ Stops(t) /\ t.kind \notin {"none", "tail"} BY DEF Ready, Mid
  <1>1. Post(t) = IF Idle(u) /\ Stopping(u) THEN MaybeFinish(v) ELSE w BY DEF Post
  <1>2. /\ stop \in {"no", "yes", "cancelled", "error"}
        /\ stop = t.stop \/ t.kind = "wait"
        /\ t.kind = "wait" /\ t.healthy => stop # "no"
        /\ t.stop # "no" => stop # "no"
    BY <1>0 DEF ScanState
  <1> HIDE DEF stop
  <1>3. ScanState(u) BY <1>0, <1>2 DEF ScanState
  <1>4. /\ Agree(t, u) /\ u.stop = stop /\ ~u.dispatching
        /\ u.state = "WAIT_EVENT" /\ u.work = "none" /\ u.reader = t.reader
    BY <1>0 DEF ScanState, Agree
  <1>5. Ready(u)
    <2>1. Stops(u) BY <1>0, <1>2, <1>4 DEF Stops, Acting, Action, Agree
    <2> QED BY <1>3, <1>4, <2>1, AgreeReady DEF Ready
  <1> HIDE DEF u
  <1>6. Stopping(u) \in BOOLEAN BY DEF Stopping
  <1>7. ScanState(v) BY <1>3 DEF ScanState
  <1>8. /\ Agree(u, v) /\ v.stop = u.stop /\ ~v.dispatching
        /\ v.state = "WAIT_EVENT" /\ v.work = "none"
    BY <1>3, <1>4 DEF ScanState, Agree
  <1>9. ScanState(w) BY <1>3, <1>6 DEF ScanState
  <1>10. /\ Agree(u, w) /\ w.stop = u.stop /\ ~w.dispatching /\ w.reader = u.reader
         /\ w.state = "WAIT_EVENT" /\ w.work = "event" /\ w.cut = Stopping(u)
    BY <1>3, <1>4, <1>6 DEF ScanState, Agree
  <1> HIDE DEF v, w
  <1>11. CASE Idle(u) /\ Stopping(u)
    <2>1. Ready(v) BY <1>5, <1>7, <1>8, AgreeReady
    <2>2. ~Resting(v) /\ Stopping(v)
      BY <1>8, <1>11 DEF Resting, Stopping, Cleanup
    <2>3. Inv(MaybeFinish(v)) /\ Finishes(v, MaybeFinish(v)) BY <2>1, <2>2, MaybeFinishInv
    <2>4. Finishes(u, MaybeFinish(v)) BY <1>7, <1>8, <2>3, AgreeReady DEF Finishes
    <2> QED BY <1>1, <1>3, <1>4, <1>11, <2>3, <2>4, AgreeReady DEF Finishes
  <1>12. CASE ~(Idle(u) /\ Stopping(u))
    <2>1. t.reader = "ok" BY <1>2, <1>4, <1>12 DEF Idle, Stopping, Agree
    <2>2. Ready(w) /\ Stays(u, w) BY <1>5, <1>9, <1>10, AgreeReady
    <2>3. w.kind \notin {"none", "tail"} BY <1>0, <1>4, <1>10 DEF Agree
    <2>4. Owned(w)
      BY <1>4, <1>10, <2>1, <2>3 DEF Owned, Stopping, Waiting, Early, Cleanup
    <2>5. Stays(t, w) BY <1>4, <2>2 DEF Stays, Agree
    <2> QED BY <1>1, <1>12, <2>2, <2>4, <2>5 DEF Inv, Ready, Mid, Finishes
  <1> QED BY <1>11, <1>12

\* A notification is taken from the slot and starts its work.
LEMMA DispatchInv ==
  ASSUME NEW t, Ready(t), t.state = "WAIT_EVENT", t.reader = "ok", t.pending \in Event
  PROVE  Inv(Dispatch(t)) /\ Moves(t, Dispatch(t))
  <1> DEFINE u == [t EXCEPT !.pending = "none", !.event = t.pending, !.dispatching = TRUE,
                            !.work = "none", !.cut = FALSE]
             p == [u EXCEPT !.dispatching = FALSE]
             h == [u EXCEPT !.healthy = FALSE]
             cycle == IF u.cycle = "active" THEN "released" ELSE u.cycle
             up == [u EXCEPT !.cycle = cycle]
             r == Dispatch(t)
  <1>0. ScanState(t) /\ Cycle(t) /\ Stops(t) /\ t.kind \notin {"none", "tail"}
    BY DEF Ready, Mid
  <1>1. r = IF t.pending = "esd" THEN Start(u, "ESD")
            ELSE IF t.pending = "wake"
            THEN IF t.waitMode = "up" THEN RecoveryArmUp(u) ELSE RearmDown(u)
            ELSE IF t.pending = "deactivate" THEN Start(u, "DISPATCH_EVENT")
            ELSE IF t.pending = "config"
            THEN IF t.mode = "sleep" THEN Post(p) ELSE Start(u, "RESTORE_CONFIG")
            ELSE IF t.pending = "down" THEN Start(h, "DOWN_MANUAL")
            ELSE IF t.pending \in {"upDrift", "reverseDrift"} \/ t.recovering
            THEN PrepareRefresh(up) ELSE UpHealth(up)
    BY DEF Dispatch
  <1>2. ScanState(u) BY <1>0 DEF ScanState
  <1>3. /\ Agree(t, u) /\ u.stop = t.stop /\ u.dispatching
        /\ u.work = "none" /\ u.state = t.state /\ u.reader = t.reader
    BY <1>0 DEF ScanState, Agree
  <1> HIDE DEF u
  <1>4. Ready(u) /\ Stays(t, u) BY <1>2, <1>3, AgreeReady
  <1>5. ScanState(p) /\ ScanState(h) BY <1>2 DEF ScanState
  <1>6. /\ Agree(u, p) /\ p.stop = u.stop /\ ~p.dispatching
        /\ p.work = "none" /\ p.state = u.state /\ p.reader = u.reader
    BY <1>2, <1>3 DEF ScanState, Agree
  <1>7. Agree(u, h) /\ h.stop = u.stop /\ h.dispatching BY <1>2, <1>3 DEF ScanState, Agree
  <1>8. cycle \in {"idle", "active", "released"} /\ (cycle = u.cycle \/ (u.cycle = "active" /\ cycle = "released"))
    BY <1>2 DEF ScanState
  <1> HIDE DEF cycle, p, h
  <1>9. ScanState(up) BY <1>2, <1>8 DEF ScanState
  <1>10. /\ up.kind = u.kind /\ up.cpu = u.cpu /\ up.cycle = cycle /\ up.told = u.told
         /\ up.deferred = u.deferred /\ up.capturing = u.capturing /\ up.unread = u.unread
         /\ up.stop = u.stop /\ up.dispatching
    BY <1>2, <1>3 DEF ScanState
  <1> HIDE DEF up
  <1>11. Ready(p) /\ Stays(u, p) /\ Ready(h) /\ Stays(u, h)
    BY <1>4, <1>5, <1>6, <1>7, AgreeReady
  <1>12. Cycle(up) /\ Stops(up)
    BY <1>4, <1>8, <1>10 DEF Ready, Mid, Cycle, Stops, Acting
  <1>13. Ready(up) /\ (Stays(t, up) \/ Lifts(t, up))
    BY <1>0, <1>3, <1>8, <1>9, <1>10, <1>12 DEF Ready, Mid, Agree, Stays, Lifts
  <1> HIDE DEF r
  <1>14. ASSUME NEW state \in {"ESD", "DISPATCH_EVENT", "RESTORE_CONFIG", "DOWN_MANUAL"},
                NEW v, Ready(v), v.dispatching
         PROVE  Inv(Start(v, state)) /\ Stays(v, Start(v, state))
    <2>1. state \in Later BY DEF Later, State, Early, Cleanup
    <2>2. v.waitMode \in Mode BY <1>14 DEF Ready, Mid, ScanState, Mode
    <2> QED BY <1>14, <2>1, <2>2, EnterLaterInv DEF Start
  <1>15. CASE t.pending \in {"esd", "deactivate"} \/ (t.pending = "config" /\ t.mode # "sleep")
    <2>1. r \in {Start(u, "ESD"), Start(u, "DISPATCH_EVENT"), Start(u, "RESTORE_CONFIG")}
      BY <1>1, <1>15
    <2>2. Inv(r) /\ Stays(u, r) BY <1>3, <1>4, <1>14, <2>1
    <2> QED BY <1>4, <2>2 DEF Stays, Moves, Finishes, r
  <1>16. CASE t.pending = "wake"
    <2>1. r \in {RecoveryArmUp(u), RearmDown(u)} BY <1>1, <1>16
    <2>2. Inv(r) /\ Stays(u, r) BY <1>3, <1>4, <2>1, RecoveryArmUpInv, RearmInv
    <2> QED BY <1>4, <2>2 DEF Stays, Moves, Finishes, r
  <1>17. CASE t.pending = "config" /\ t.mode = "sleep"
    <2>1. r = Post(p) BY <1>1, <1>17
    <2>2. Inv(r) /\ Finishes(p, r) BY <1>3, <1>6, <1>11, <2>1, PostInv
    <2>3. Agree(t, p) BY <1>3, <1>6 DEF Agree
    <2> QED BY <1>5, <2>2, <2>3, AgreeReady DEF Moves, Finishes, r
  <1>18. CASE t.pending = "down"
    <2>1. r = Start(h, "DOWN_MANUAL") BY <1>1, <1>18
    <2>2. Inv(r) /\ Stays(h, r) BY <1>7, <1>11, <1>14, <2>1
    <2> QED BY <1>4, <1>11, <2>2 DEF Stays, Moves, Finishes, r
  <1>19. CASE t.pending \in Release
    <2>1. r \in {PrepareRefresh(up), UpHealth(up)} BY <1>1, <1>19 DEF Release
    <2>2. Inv(r) /\ Stays(up, r) BY <1>10, <1>13, <2>1, PrepareRefreshInv, RearmInv
    <2> QED BY <1>13, <2>2 DEF Stays, Lifts, Moves, Finishes, r
  <1> QED BY <1>15, <1>16, <1>17, <1>18, <1>19 DEF Event

\* A restart of the GTLS session, announced before or during the wait.
LEMMA RestartGtlsInv ==
  ASSUME NEW t, Ready(t), t.state = "WAIT_EVENT"
  PROVE  Inv(RestartGtls(t)) /\ Stays(t, RestartGtls(t))
  <1> DEFINE u == [t EXCEPT !.restart = FALSE, !.dispatching = TRUE, !.work = "op",
                            !.cut = FALSE]
  <1>0. ScanState(t) /\ t.kind \notin {"none", "tail"} BY DEF Ready, Mid
  <1>1. RestartGtls(t) = u BY DEF RestartGtls
  <1>2. ScanState(u) BY <1>0 DEF ScanState
  <1>3. /\ Agree(t, u) /\ u.stop = t.stop /\ u.dispatching
        /\ u.state = "WAIT_EVENT" /\ u.work = "op"
    BY <1>0 DEF ScanState, Agree
  <1> HIDE DEF u
  <1>4. Ready(u) /\ Stays(t, u) BY <1>2, <1>3, AgreeReady
  <1>5. Owned(u) BY <1>0, <1>3 DEF Owned, Agree, Waiting, Early, Cleanup
  <1> QED BY <1>1, <1>2, <1>4, <1>5 DEF Inv, Ready, Mid

\* A wait that fails.
LEMMA EventFailedInv ==
  ASSUME NEW t, Ready(t), NEW e \in {"cancelled", "error"}
  PROVE  Inv(EventFailed(t, e)) /\ Finishes(t, EventFailed(t, e))
  <1> DEFINE u == [t EXCEPT !.work = "none", !.cut = FALSE]
             r == Fail(u, e)
  <1>0. ScanState(t) /\ Cycle(t) /\ Stops(t) BY DEF Ready, Mid
  <1>1. EventFailed(t, e) = r BY DEF EventFailed
  <1>2. ScanState(u) BY <1>0 DEF ScanState
  <1>3. Agree(t, u) /\ u.stop = t.stop BY <1>0 DEF ScanState, Agree
  <1> HIDE DEF u
  <1>4. Ready(u) BY <1>2, <1>3, AgreeReady
  <1>5. u.cpu = "running" => u.stop # "yes"
    BY <1>0, <1>3 DEF Agree, Cycle, Stops
  <1>6. Inv(r) /\ Finishes(u, r) BY <1>4, <1>5, FailInv DEF Ready
  <1> QED BY <1>1, <1>2, <1>3, <1>6, AgreeReady DEF Finishes

\* WAIT_EVENT is entered: what is due comes before a new wait.
LEMMA WaitEventInv ==
  ASSUME NEW t, Ready(t), ~t.dispatching
  PROVE  Inv(WaitEvent(t)) /\ Moves(t, WaitEvent(t))
  <1> DEFINE u == [t EXCEPT !.state = "WAIT_EVENT", !.work = "none"]
             f == [u EXCEPT !.needsReinit = TRUE]
             r == WaitEvent(t)
             Over == Idle(u) /\ (Stopping(u) \/ (u.kind = "wait" /\ u.healthy))
  <1>0. ScanState(t) BY DEF Ready, Mid
  <1>1. r = IF Over THEN Post(u)
            ELSE IF u.reader = "failed" THEN EventFailed(f, "error")
            ELSE IF u.restart THEN RestartGtls(u)
            ELSE IF u.pending # "none" THEN Dispatch(u)
            ELSE Post(u)
    BY DEF WaitEvent
  <1>2. ScanState(u) BY <1>0 DEF ScanState, State
  <1>3. /\ Agree(t, u) /\ u.stop = t.stop /\ ~u.dispatching
        /\ u.state = "WAIT_EVENT" /\ u.work = "none"
    BY <1>0 DEF ScanState, Agree
  <1> HIDE DEF u
  <1>4. Ready(u) BY <1>2, <1>3, AgreeReady
  <1>5. ScanState(f) BY <1>2 DEF ScanState
  <1>6. Agree(u, f) /\ f.stop = u.stop BY <1>2 DEF ScanState, Agree
  <1> HIDE DEF f, r
  <1>7. Ready(f) BY <1>4, <1>5, <1>6, AgreeReady
  <1>8. u.reader \in {"ok", "failed"} /\ u.pending \in Event \cup {"none"}
    BY <1>2 DEF ScanState
  <1>9. Inv(r) /\ (Moves(u, r) \/ Finishes(f, r))
    <2>1. CASE Over
      <3>1. Inv(Post(u)) /\ Finishes(u, Post(u)) BY <1>3, <1>4, <2>1, PostInv
      <3> QED BY <1>1, <2>1, <3>1 DEF Moves
    <2>2. CASE ~Over /\ u.reader = "failed"
      <3>1. r = EventFailed(f, "error") BY <1>1, <2>2
      <3> QED BY <1>7, <3>1, EventFailedInv
    <2>3. CASE ~Over /\ u.reader = "ok"
      <3>1. r \in {RestartGtls(u), Post(u)} \/ (u.pending # "none" /\ r = Dispatch(u))
        BY <1>1, <2>3
      <3>2. Inv(RestartGtls(u)) /\ Stays(u, RestartGtls(u)) BY <1>3, <1>4, RestartGtlsInv
      <3>3. Inv(Post(u)) /\ Finishes(u, Post(u)) BY <1>3, <1>4, <2>3, PostInv
      <3>4. u.pending # "none" => Inv(Dispatch(u)) /\ Moves(u, Dispatch(u))
        BY <1>3, <1>4, <1>8, <2>3, DispatchInv
      <3> QED BY <3>1, <3>2, <3>3, <3>4 DEF Moves, Finishes
    <2> QED BY <1>8, <2>1, <2>2, <2>3
  <1>10. Finishes(f, r) => Finishes(u, r) BY <1>5, <1>6, AgreeReady DEF Finishes
  <1>11. Moves(u, r) => Moves(t, r)
    BY <1>3, AgreeReady DEF Moves, Finishes, Stays, Lifts, Tells, Detached, Agree
  <1> QED BY <1>9, <1>10, <1>11 DEF Moves, r

\* The selected work is over.
LEMMA WorkDoneInv ==
  ASSUME NEW t, Ready(t)
  PROVE  Inv(WorkDone(t)) /\ Moves(t, WorkDone(t))
  <1> DEFINE u == [t EXCEPT !.dispatching = FALSE]
             r == WaitEvent(u)
  <1>0. ScanState(t) BY DEF Ready, Mid
  <1>1. WorkDone(t) = r BY DEF WorkDone
  <1>2. ScanState(u) BY <1>0 DEF ScanState
  <1>3. Agree(t, u) /\ u.stop = t.stop /\ ~u.dispatching BY <1>0 DEF ScanState, Agree
  <1> HIDE DEF u
  <1>4. Ready(u) BY <1>2, <1>3, AgreeReady
  <1>5. Inv(r) /\ Moves(u, r) BY <1>3, <1>4, WaitEventInv
  <1> QED
    BY <1>1, <1>3, <1>5 DEF Moves, Finishes, Stays, Lifts, Tells, Detached, Agree

\* The down arm is done: a lift whose verdict is in is settled.
LEMMA RearmDownDoneInv ==
  ASSUME NEW t, Ready(t)
  PROVE  Inv(RearmDownDone(t)) /\ Moves(t, RearmDownDone(t))
  <1> DEFINE u == [t EXCEPT !.dispatching = FALSE]
             c == [u EXCEPT !.state = "CYCLE_SETTLED", !.work = "callback"]
             w == [u EXCEPT !.state = "WAIT_CPU", !.work = "none"]
             r == RearmDownDone(t)
             Settling == u.pending = "none" /\ ~Stopping(u) /\ u.cycle = "released"
  <1>0. ScanState(t) BY DEF Ready, Mid
  <1>1. r = IF Settling THEN IF CpuDone(u) THEN c ELSE w ELSE WaitEvent(u)
    BY DEF RearmDownDone, CycleSettled
  <1>2. ScanState(u) BY <1>0 DEF ScanState
  <1>3. Agree(t, u) /\ u.stop = t.stop /\ ~u.dispatching BY <1>0 DEF ScanState, Agree
  <1> HIDE DEF u
  <1>4. Ready(u) BY <1>2, <1>3, AgreeReady
  <1>5. ScanState(c) /\ ScanState(w) BY <1>2 DEF ScanState, State
  <1>6. /\ Agree(u, c) /\ c.stop = u.stop /\ ~c.dispatching
        /\ c.state = "CYCLE_SETTLED" /\ c.work = "callback"
    BY <1>2, <1>3 DEF ScanState, Agree
  <1>7. /\ Agree(u, w) /\ w.stop = u.stop /\ ~w.dispatching
        /\ w.state = "WAIT_CPU" /\ w.work = "none"
    BY <1>2, <1>3 DEF ScanState, Agree
  <1> HIDE DEF c, w, r
  <1>8. Ready(c) /\ Stays(u, c) /\ Ready(w) /\ Stays(u, w)
    BY <1>4, <1>5, <1>6, <1>7, AgreeReady
  <1>9. CASE Settling
    <2>1. Acting(u) /\ u.stop = "no" /\ u.kind \notin {"none", "tail"}
      BY <1>4, <1>9 DEF Ready, Mid, Cycle, Stopping
    <2>2. u.cpu \in AfterUp \cup {"running"} BY <1>4, <1>9, <2>1 DEF Ready, Stops
    <2>3. CpuDone(u) => Owned(c)
      BY <1>6, <1>9, <2>1, <2>2
         DEF CpuDone, Verdict, AfterUp, Owned, Agree, Acting, Action, Waiting, Early, Cleanup
    <2>4. ~CpuDone(u) => Owned(w)
      BY <1>7, <1>9, <2>1, <2>2
         DEF CpuDone, Verdict, Owned, Agree, Acting, Action, Waiting, Early, Cleanup
    <2>5. Inv(r) /\ Stays(u, r) BY <1>1, <1>8, <1>9, <2>3, <2>4 DEF Inv, Ready, Mid
    <2> QED BY <1>3, <2>5 DEF Moves, Finishes, Stays, Agree, r
  <1>10. CASE ~Settling
    <2>1. Inv(r) /\ Moves(u, r) BY <1>1, <1>3, <1>4, <1>10, WaitEventInv
    <2> QED BY <1>3, <2>1 DEF Moves, Finishes, Stays, Lifts, Tells, Detached, Agree, r
  <1> QED BY <1>9, <1>10

\* The reference is there: the sensor is powered, unless a stop comes first.
LEMMA EnsureReferenceDoneInv ==
  ASSUME NEW t, Ready(t), Acting(t), t.cycle = "idle", ~t.dispatching
  PROVE  /\ Inv(EnsureReferenceDone(t)) /\ Finishes(t, EnsureReferenceDone(t))
         /\ ~Stopping(t) => Stays(t, EnsureReferenceDone(t))
  <1> DEFINE b == t.reference = "recovery"
             u == [t EXCEPT !.recovering = b]
             r == Enter(u, "POWER_ON", u.waitMode)
  <1>0. ScanState(t) BY DEF Ready, Mid
  <1>1. EnsureReferenceDone(t) = r BY DEF EnsureReferenceDone, Start
  <1>2. b \in BOOLEAN OBVIOUS
  <1> HIDE DEF b
  <1>3. ScanState(u) BY <1>0, <1>2 DEF ScanState
  <1>4. /\ Agree(t, u) /\ u.stop = t.stop /\ u.dispatching = t.dispatching
        /\ u.waitMode \in Mode
    BY <1>0 DEF ScanState, Agree, Mode
  <1> HIDE DEF u
  <1>5. Ready(u) BY <1>3, <1>4, AgreeReady
  <1>6. /\ Inv(r) /\ Finishes(u, r)
        /\ ~Stopping(t) => Stays(u, r)
    BY <1>4, <1>5, EnterEarlyInv DEF Early, Agree, Acting, Stopping
  <1> QED BY <1>1, <1>3, <1>4, <1>6, AgreeReady DEF Finishes

\* A finger confirmed or not by the manual read; a capture is an action's.
LEMMA DownValidateInv ==
  ASSUME NEW t, Ready(t), t.dispatching, NEW touched \in BOOLEAN
  PROVE  Inv(DownValidate(t, touched)) /\ Stays(t, DownValidate(t, touched))
  <1> DEFINE v == [t EXCEPT !.recovering = TRUE]
             r == DownValidate(t, touched)
  <1>0. ScanState(t) /\ Cycle(t) BY DEF Ready, Mid
  <1>1. r \in {PrepareRefresh(t), RecoveryArmUp(t), RecoveryArmUp(v)}
        \/ (t.capturing /\ t.cycle = "idle" /\ r = Enter(t, "CAPTURE", t.waitMode))
    BY DEF DownValidate, Start
  <1>2. ScanState(v) BY <1>0 DEF ScanState
  <1>3. Agree(t, v) /\ v.stop = t.stop BY <1>0 DEF ScanState, Agree
  <1> HIDE DEF v, r
  <1>4. Ready(v) /\ Stays(t, v) BY <1>2, <1>3, AgreeReady
  <1>5. CASE t.capturing /\ t.cycle = "idle" /\ r = Enter(t, "CAPTURE", t.waitMode)
    <2>1. Acting(t) BY <1>0, <1>5 DEF Cycle
    <2>2. t.waitMode \in Mode BY <1>0 DEF ScanState, Mode
    <2>3. Inv(r) /\ Stays(t, r)
      BY <1>5, <2>1, <2>2, EnterLaterInv DEF Later, State, Early, Cleanup
    <2> QED BY <2>3 DEF r
  <1>6. CASE r \in {PrepareRefresh(t), RecoveryArmUp(t), RecoveryArmUp(v)}
    <2>1. Inv(r) /\ (Stays(t, r) \/ Stays(v, r))
      BY <1>4, <1>6, PrepareRefreshInv, RecoveryArmUpInv
    <2> QED BY <1>4, <2>1 DEF Stays, r
  <1> QED BY <1>1, <1>5, <1>6

\* The last image is read: the frame goes to the worker before the up arm, to
\* nobody if a stop came first, and is answered at once if nobody can take it.
LEMMA ArmUpInv ==
  ASSUME NEW t, ScanState(t), Acting(t), t.told = "none", t.cycle = "idle",
         t.cpu = "none", t.unread = 0, t.dispatching, t.stop # "yes",
         NEW refused \in BOOLEAN
  PROVE  LET r == ArmUp(t, refused)
         IN  /\ Inv(r) /\ r.cycle = "active" /\ r.told = "none"
             /\ r.cpu \in {"none", "running", "fatal"}
  <1> DEFINE u == [t EXCEPT !.capturing = FALSE, !.cycle = "active", !.cpu = "none"]
             f == [u EXCEPT !.cpu = "fatal", !.stop = "error"]
             g == [u EXCEPT !.cpu = "running"]
             r == ArmUp(t, refused)
             Armed(x) == [x EXCEPT !.state = "ARM_UP", !.work = "op", !.waitMode = "up"]
             Given(x) == /\ Acting(x) /\ x.cycle = "active" /\ x.told = "none" /\ x.unread = 0
                         /\ ~x.capturing /\ x.dispatching /\ x.stop # "yes"
                         /\ x.cpu \in {"none", "running", "fatal"}
                         /\ x.stop = "no" => x.cpu = "running"
  <1>1. r = Enter(IF Stopping(t) THEN u ELSE IF refused THEN f ELSE g, "ARM_UP", "up")
    BY DEF ArmUp
  <1>2. ScanState(u) BY ZenonT(40) DEF ScanState
  <1>3. /\ u.kind = t.kind /\ u.cycle = "active" /\ u.told = "none" /\ u.unread = 0
        /\ ~u.capturing /\ u.dispatching /\ u.stop = t.stop /\ u.cpu = "none"
    BY DEF ScanState
  <1> HIDE DEF u
  <1>4. ScanState(f) /\ ScanState(g) BY <1>2 DEF ScanState, Verdict
  <1>5. (Stopping(t) => Given(u)) /\ Given(f) /\ (~Stopping(t) => Given(g))
    <2>1. Stopping(t) => Given(u) BY <1>3 DEF Acting, Stopping
    <2>2. Given(f) BY <1>2, <1>3 DEF Acting, ScanState
    <2>3. ~Stopping(t) => Given(g) BY <1>2, <1>3 DEF Acting, Stopping, ScanState
    <2> QED BY <2>1, <2>2, <2>3
  <1> HIDE DEF f, g, r
  <1>6. ASSUME NEW x, ScanState(x), Given(x)
        PROVE  Inv(Armed(x)) /\ Given(Armed(x)) /\ Enter(x, "ARM_UP", "up") = Armed(x)
    <2> DEFINE y == [x EXCEPT !.state = "ARM_UP", !.work = "op", !.waitMode = "up"]
    <2>0. ScanState(x) BY <1>6
    <2>1. Enter(x, "ARM_UP", "up") = y BY <1>6 DEF Enter
    <2>2. ScanState(y) BY <2>0, SelectType DEF State
    <2>3. /\ y.kind = x.kind /\ y.cycle = x.cycle /\ y.told = x.told /\ y.unread = x.unread
          /\ y.capturing = x.capturing /\ y.dispatching = x.dispatching /\ y.stop = x.stop
          /\ y.cpu = x.cpu /\ y.state = "ARM_UP" /\ y.work = "op"
      BY <2>0 DEF ScanState
    <2> HIDE DEF y
    <2>4. Given(y) BY <1>6, <2>3 DEF Acting
    <2>5. Cycle(y) BY <2>4 DEF Cycle, Acting, Action
    <2>6. Stops(y) BY <2>4 DEF Stops
    <2>7. Owned(y) BY <2>3, <2>4 DEF Owned, Acting, Action, Waiting, Early, Cleanup
    <2> QED BY <2>1, <2>2, <2>4, <2>5, <2>6, <2>7 DEF Inv, y
  <1> HIDE DEF Armed
  <1>7. Inv(r) /\ Given(r)
    <2>1. CASE Stopping(t) BY <1>1, <1>2, <1>5, <1>6, <2>1
    <2>2. CASE ~Stopping(t) /\ refused BY <1>1, <1>4, <1>5, <1>6, <2>2
    <2>3. CASE ~Stopping(t) /\ ~refused BY <1>1, <1>4, <1>5, <1>6, <2>3
    <2> QED BY <2>1, <2>2, <2>3
  <1> QED BY <1>7 DEF r

\* The worker's verdict: what waits for it goes on, or the action ends.
LEMMA SetDispositionInv ==
  ASSUME NEW t, Inv(t), t.cpu = "running", NEW d \in Verdict
  PROVE  LET r == SetDisposition(t, d)
         IN  /\ Inv(r) /\ r.cpu = d
             /\ \/ r.cycle = t.cycle /\ r.told = t.told
                \/ /\ t.told = "none" /\ r.told # "none" /\ r.cycle = "idle"
                   /\ r.told = "ok" => d = "success"
  <1> DEFINE u == [t EXCEPT !.cpu = d]
             w == [u EXCEPT !.deferred = FALSE, !.dispatching = TRUE,
                            !.state = "REFRESH", !.work = "op"]
             c == [u EXCEPT !.state = "CYCLE_SETTLED", !.work = "callback"]
             r == SetDisposition(t, d)
             Request == IF d = "fatal" THEN "error"
                        ELSE IF d = "cancelled" THEN "cancelled" ELSE "yes"
             Settling == t.cycle = "released" /\ ~t.dispatching /\ t.work = "none"
  <1>0. /\ ScanState(t) /\ Cycle(t) /\ Stops(t) /\ Owned(t) /\ Acting(t)
        /\ t.kind \notin {"none", "tail"}
    BY DEF Inv, Cycle, Acting, Action
  <1>1. r = IF t.state \in Cleanup THEN DetachAction(u)
            ELSE IF Stopping(t) THEN MaybeFinish(u)
            ELSE IF d \in Verdict \ AfterUp THEN RequestStop(u, Request)
            ELSE IF t.deferred THEN w
            ELSE IF Settling THEN c ELSE u
    BY DEF SetDisposition, CycleSettled, Verdict, AfterUp
  <1>2. d # "running" /\ (d \notin AfterUp <=> d \in {"success", "fatal", "cancelled"})
    BY DEF Verdict, AfterUp
  <1>3. ScanState(u) BY <1>0 DEF ScanState
  <1>4. /\ u.kind = t.kind /\ u.cpu = d /\ u.cycle = t.cycle /\ u.told = t.told
        /\ u.deferred = t.deferred /\ u.capturing = t.capturing /\ u.unread = t.unread
        /\ u.stop = t.stop /\ u.state = t.state /\ u.work = t.work /\ u.cut = t.cut
        /\ u.dispatching = t.dispatching /\ u.ssmError = t.ssmError /\ u.reader = t.reader
    BY <1>0 DEF ScanState
  <1> HIDE DEF u
  <1>5. Mid(u) /\ Acting(u)
    <2>1. t.cycle # "idle" BY <1>0 DEF Cycle
    <2> QED BY <1>0, <1>3, <1>4, <2>1 DEF Mid, Cycle, Acting
  <1>6. t.stop # "yes" BY <1>0 DEF Stops
  <1>7. Stopping(t) \/ d \in AfterUp => Stops(u)
    BY <1>0, <1>4, <1>6 DEF Stops, Stopping, Acting
  <1>8. t.state \notin Cleanup /\ (t.work # "none" \/ t.dispatching) => Owned(u)
    BY <1>0, <1>2, <1>4 DEF Owned, Stopping, Acting, Waiting, Cleanup, AfterUp
  <1>9. ScanState(w) /\ ScanState(c) BY <1>3 DEF ScanState, State
  <1>10. /\ w.kind = u.kind /\ w.cpu = d /\ w.cycle = u.cycle /\ w.told = u.told
         /\ ~w.deferred /\ w.capturing = u.capturing /\ w.unread = u.unread
         /\ w.stop = u.stop /\ w.state = "REFRESH" /\ w.work = "op" /\ w.dispatching
    BY <1>3, <1>4 DEF ScanState
  <1>11. /\ Agree(u, c) /\ c.stop = u.stop /\ c.state = "CYCLE_SETTLED"
         /\ c.work = "callback" /\ c.dispatching = u.dispatching
    BY <1>3, <1>4 DEF ScanState, Agree
  <1> HIDE DEF w, c, r, Settling, Request
  <1>12. Inv(r) /\ Finishes(u, r)
    <2>1. CASE t.state \in Cleanup
      <3>1. r = DetachAction(u) BY <1>1, <2>1
      <3>2. u.ssmError # "none" BY <1>0, <1>4, <2>1 DEF Owned, Cleanup
      <3> QED BY <1>2, <1>4, <1>5, <3>1, <3>2, DetachActionInv DEF Finishes, Tells
    <2>2. CASE t.state \notin Cleanup /\ Stopping(t)
      <3>1. r = MaybeFinish(u) BY <1>1, <2>2
      <3>2. Ready(u) /\ Stopping(u) BY <1>4, <1>5, <1>7, <2>2 DEF Ready, Stopping
      <3>3. Resting(u) => Owned(u)
        BY <1>2, <1>4, <1>8, <2>2 DEF Resting
      <3> QED BY <3>1, <3>2, <3>3, MaybeFinishInv
    <2>3. CASE t.state \notin Cleanup /\ ~Stopping(t) /\ d \notin AfterUp
      <3>1. r = RequestStop(u, Request) BY <1>1, <2>3
      <3>2. Request \in {"yes", "cancelled", "error"} /\ (Request = "yes" => d = "success")
        BY <1>2, <2>3 DEF Request
      <3>3. Resting(u) => Owned(u) BY <1>2, <1>4, <1>8, <2>3 DEF Resting
      <3> QED BY <1>4, <1>5, <1>6, <3>1, <3>2, <3>3, RequestStopInv
    <2>4. CASE t.state \notin Cleanup /\ ~Stopping(t) /\ d \in AfterUp
      <3>1. Stops(u) /\ Cycle(u) BY <1>5, <1>7, <2>4 DEF Mid
      <3>2. CASE t.deferred
        <4>1. r = w BY <1>1, <2>4, <3>2
        <4>2. Cycle(w) /\ Stops(w) BY <1>4, <1>10, <3>1 DEF Cycle, Stops, Acting
        <4>3. Owned(w) BY <1>0, <1>2, <1>4, <1>10 DEF Owned, Waiting, Early, Cleanup
        <4> QED BY <1>4, <1>9, <1>10, <4>1, <4>2, <4>3 DEF Inv, Finishes, Stays
      <3>3. CASE ~t.deferred /\ Settling
        <4>1. r = c BY <1>1, <2>4, <3>3
        <4>2. Ready(u) BY <1>5, <3>1 DEF Ready
        <4>3. Ready(c) /\ Stays(u, c) BY <1>9, <1>11, <4>2, AgreeReady
        <4>4. Owned(c)
          BY <1>0, <1>2, <1>4, <1>11, <2>4, <3>3
             DEF Owned, Agree, Settling, Stopping, Acting, Waiting, Early, Cleanup
        <4> QED BY <4>1, <4>3, <4>4 DEF Inv, Ready, Mid, Finishes
      <3>4. CASE ~t.deferred /\ ~Settling
        <4>1. r = u BY <1>1, <2>4, <3>4
        <4>2. t.work # "none"
          BY <1>0, <2>4, <3>4 DEF Owned, Settling, Waiting, Cleanup, Stopping
        <4> QED BY <1>3, <1>8, <2>4, <3>1, <4>1, <4>2 DEF Inv, Finishes, Stays
      <3> QED BY <3>2, <3>3, <3>4
    <2> QED BY <2>1, <2>2, <2>3, <2>4
  <1> QED BY <1>4, <1>12 DEF Finishes, Stays, Tells, Detached, r

-----------------------------------------------------------------------------
(* Operations that end *)

\* What an action of Next shows: a move of the cycle, or one of the steps the
\* action itself takes part in.
Begins(t, r) ==
  /\ t.cpu = "none" /\ t.cycle = "idle"
  /\ r.cpu = "none" /\ r.cycle = "idle" /\ r.told = "none"

Delivers(t, r) ==
  /\ t.told = "none" /\ t.cpu = "none"
  /\ r.told = "none" /\ r.cpu \in {"none", "running", "fatal"} /\ r.cycle = "active"

Answers(t, r) ==
  /\ t.cpu = "running" /\ r.cpu \in Verdict
  /\ \/ r.cycle = t.cycle /\ r.told = t.told
     \/ /\ t.told = "none" /\ r.told # "none" /\ r.cycle = "idle"
        /\ r.told = "ok" => r.cpu = "success"

Settles(t, r) ==
  /\ t.cycle = "released"
  /\ \/ /\ t.cpu = "continue" /\ r.cpu = "none" /\ r.cycle = "idle"
        /\ \/ r.told = t.told
           \/ t.told = "none" /\ r.told \in {"cancelled", "error"}
     \/ t.cpu \in {"retry", "final"} /\ Detached(t, r)

Leaves(t, r) ==
  /\ t.told # "none" /\ t.cycle = "idle"
  /\ r.cpu = "none" /\ r.cycle = t.cycle /\ r.told = t.told

Visible(t, r) ==
  \/ Moves(t, r) \/ Begins(t, r) \/ Delivers(t, r)
  \/ Answers(t, r) \/ Settles(t, r) \/ Leaves(t, r)

Step == Inv(s') /\ Visible(s, s')

\* An operation has ended, and nothing has been selected after it.
After(u) == ScanState(u) /\ Agree(s, u) /\ u.stop = s.stop /\ u.dispatching = s.dispatching

\* A state after an operation is ready for the next handler, and what is visible
\* of the handler is visible of the action.
LEMMA AfterReady ==
  ASSUME IInv, s.work = "op", s.state # "CLEANUP_SLEEP", NEW u, After(u)
  PROVE  /\ Ready(u) /\ Stays(s, u)
         /\ s.state \notin Early \cup Cleanup => u.dispatching
         /\ s.state \in Early => Acting(u) /\ u.cycle = "idle" /\ ~u.dispatching
         /\ \A r : /\ Stays(u, r) => Visible(s, r)
                   /\ Finishes(u, r) => Visible(s, r)
                   /\ Moves(u, r) => Visible(s, r)
  <1>1. ScanState(s) /\ Cycle(s) /\ Stops(s) /\ Owned(s) BY DEF IInv, Inv
  <1>2. s.kind \notin {"none", "tail"} BY <1>1 DEF Owned
  <1>3. Ready(s) BY <1>1, <1>2 DEF Ready, Mid
  <1>4. Ready(u) /\ Stays(s, u) BY <1>3, AgreeReady DEF After
  <1>5. \A r : (Stays(u, r) => Moves(u, r)) /\ (Finishes(u, r) => Moves(u, r))
    BY DEF Moves, Finishes
  <1>6. \A r : Moves(u, r) => Visible(s, r) BY AgreeReady DEF After, Visible
  <1> QED BY <1>1, <1>4, <1>5, <1>6 DEF After, Agree, Owned, Acting

\* The end of an operation, and the small updates the handlers make with it.
LEMMA EndedAfter ==
  ASSUME IInv
  PROVE  /\ After(Ended)
         /\ \A n \in BOOLEAN : After([Ended EXCEPT !.needsReinit = n])
         /\ \A r \in {"none", "recovery", "ready"}, b \in BOOLEAN :
              After([Ended EXCEPT !.reference = r, !.recovering = b])
         /\ \A r \in {"none", "recovery", "ready"} : After([Ended EXCEPT !.reference = r])
         /\ After([Ended EXCEPT !.healthy = TRUE])
         /\ \A m \in {"none", "down", "up"} : After([Ended EXCEPT !.waitMode = m])
  <1>0. ScanState(s) BY DEF IInv, Inv
  <1>1. ScanState(Ended) BY <1>0 DEF ScanState, Ended
  <1>2. Agree(s, Ended) /\ Ended.stop = s.stop /\ Ended.dispatching = s.dispatching
    BY <1>0 DEF ScanState, Agree, Ended
  <1> DEFINE u == Ended
  <1>3. After(u) BY <1>1, <1>2 DEF After
  <1>4. ScanState(u) /\ Agree(s, u) /\ u.stop = s.stop /\ u.dispatching = s.dispatching
    BY <1>3 DEF After
  <1> HIDE DEF u
  <1>5. \A n \in BOOLEAN : After([u EXCEPT !.needsReinit = n])
    BY <1>4 DEF After, ScanState, Agree
  <1>6. \A r \in {"none", "recovery", "ready"}, b \in BOOLEAN :
          After([u EXCEPT !.reference = r, !.recovering = b])
    BY <1>4 DEF After, ScanState, Agree
  <1>7. \A r \in {"none", "recovery", "ready"} : After([u EXCEPT !.reference = r])
    BY <1>4 DEF After, ScanState, Agree
  <1>8. After([u EXCEPT !.healthy = TRUE]) BY <1>4 DEF After, ScanState, Agree
  <1>9. \A m \in {"none", "down", "up"} : After([u EXCEPT !.waitMode = m])
    BY <1>4 DEF After, ScanState, Agree
  <1> QED BY <1>3, <1>5, <1>6, <1>7, <1>8, <1>9 DEF u

\* A command that fails ends the owner with its error.
LEMMA CommandFailsStep ==
  ASSUME IInv, s.work = "op", s.state # "CLEANUP_SLEEP", NEW marked \in BOOLEAN,
         CommandFails(marked)
  PROVE  Step
  <1>1. PICK e \in Failures, m \in BOOLEAN :
          s' = Fail([Ended EXCEPT !.needsReinit = @ \/ m], e)
    BY DEF CommandFails
  <1>2. e \in {"cancelled", "error"} BY DEF Failures
  <1> DEFINE n == Ended.needsReinit \/ m
             u == [Ended EXCEPT !.needsReinit = n]
  <1>3. n \in BOOLEAN OBVIOUS
  <1>4. s' = Fail(u, e) BY <1>1
  <1> HIDE DEF n
  <1>5. After(u) BY <1>3, EndedAfter
  <1> HIDE DEF u
  <1>6. Ready(u) /\ (\A r : Finishes(u, r) => Visible(s, r)) BY <1>5, AfterReady
  <1>7. u.cpu = "running" => u.stop # "yes" BY <1>6 DEF Ready, Mid, Cycle, Stops
  <1>8. Inv(Fail(u, e)) /\ Finishes(u, Fail(u, e)) BY <1>2, <1>6, <1>7, FailInv DEF Ready
  <1> QED BY <1>4, <1>6, <1>8 DEF Step

\* The reference is there or not; a failure marks the session or not.
LEMMA EnsureReferenceStep ==
  ASSUME IInv, EnsureReference
  PROVE  Step
  <1>1. s.work = "op" /\ s.state = "ENSURE_REFERENCE" BY DEF EnsureReference, Ends
  <1>2. CASE \E marked \in BOOLEAN : CommandFails(marked) BY <1>1, <1>2, CommandFailsStep
  <1>3. ASSUME NEW r \in {"recovery", "ready"},
               s' = EnsureReferenceDone([Ended EXCEPT !.reference = r])
        PROVE  Step
    <2> DEFINE u == [Ended EXCEPT !.reference = r]
    <2>1. After(u) BY EndedAfter
    <2>2. s' = EnsureReferenceDone(u) BY <1>3
    <2> HIDE DEF u
    <2>3. /\ Ready(u) /\ Acting(u) /\ u.cycle = "idle" /\ ~u.dispatching
          /\ \A x : Finishes(u, x) => Visible(s, x)
      BY <1>1, <2>1, AfterReady DEF Early
    <2> QED BY <2>2, <2>3, EnsureReferenceDoneInv DEF Step
  <1> QED BY <1>2, <1>3 DEF EnsureReference

\* The sensor is powered: the first down arm, unless a stop is requested.
LEMMA PowerOnStep ==
  ASSUME IInv, PowerOn
  PROVE  Step
  <1>1. s.work = "op" /\ s.state = "POWER_ON" BY DEF PowerOn, Ends
  <1>2. CASE CommandFails(TRUE) BY <1>1, <1>2, CommandFailsStep
  <1>3. CASE s' = Enter(Ended, "ARM_DOWN", "down")
    <2>1. /\ Ready(Ended) /\ Acting(Ended) /\ Ended.cycle = "idle" /\ ~Ended.dispatching
          /\ \A x : Finishes(Ended, x) => Visible(s, x)
      BY <1>1, EndedAfter, AfterReady DEF Early
    <2>2. Inv(s') /\ Finishes(Ended, s')
      BY <1>3, <2>1, EnterEarlyInv DEF Early, Mode
    <2> QED BY <2>1, <2>2 DEF Step
  <1> QED BY <1>2, <1>3 DEF PowerOn

\* An arm is done or given up: the coordinator waits, or settles the lift.
LEMMA ArmStep ==
  ASSUME IInv, Arm
  PROVE  Step
  <1>1. /\ s.work = "op"
        /\ s.state \in {"ARM_DOWN", "ARM_UP", "RECOVERY_ARM_UP", "REARM_DOWN"}
    BY DEF Arm, Ends
  <1>2. CASE CommandFails(TRUE) BY <1>1, <1>2, CommandFailsStep
  <1>3. /\ Ready(Ended) /\ (s.state = "ARM_DOWN" => ~Ended.dispatching)
        /\ \A x : Finishes(Ended, x) => Visible(s, x)
        /\ \A x : Moves(Ended, x) => Visible(s, x)
    BY <1>1, EndedAfter, AfterReady DEF Early
  <1>4. CASE s' = Fail(Ended, "cancelled")
    <2>1. Ended.cpu = "running" => Ended.stop # "yes" BY <1>3 DEF Ready, Mid, Cycle, Stops
    <2>2. Inv(s') /\ Finishes(Ended, s') BY <1>3, <1>4, <2>1, FailInv DEF Ready
    <2> QED BY <1>3, <2>2 DEF Step
  <1>5. CASE s' = IF s.state = "REARM_DOWN" THEN RearmDownDone(Ended)
                  ELSE IF s.state = "ARM_DOWN" THEN WaitEvent(Ended) ELSE WorkDone(Ended)
    <2>1. Inv(s') /\ Moves(Ended, s')
      BY <1>3, <1>5, RearmDownDoneInv, WaitEventInv, WorkDoneInv
    <2> QED BY <1>3, <2>1 DEF Step
  <1> QED BY <1>2, <1>4, <1>5 DEF Arm

\* The manual read confirms the finger, denies it or fails.
LEMMA DownManualStep ==
  ASSUME IInv, DownManual
  PROVE  Step
  <1>1. s.work = "op" /\ s.state = "DOWN_MANUAL" BY DEF DownManual, Ends
  <1>2. CASE CommandFails(FALSE) BY <1>1, <1>2, CommandFailsStep
  <1>3. /\ Ready(Ended) /\ Ended.dispatching
        /\ \A x : Stays(Ended, x) => Visible(s, x)
        /\ \A x : Moves(Ended, x) => Visible(s, x)
    BY <1>1, EndedAfter, AfterReady DEF Early, Cleanup
  <1>4. CASE \E touched \in BOOLEAN : s' = DownValidate(Ended, touched)
    <2>1. Inv(s') /\ Stays(Ended, s') BY <1>3, <1>4, DownValidateInv
    <2> QED BY <1>3, <2>1 DEF Step
  <1>5. CASE s' = WorkDone(Ended)
    <2>1. Inv(s') /\ Moves(Ended, s') BY <1>3, <1>5, WorkDoneInv
    <2> QED BY <1>3, <2>1 DEF Step
  <1> QED BY <1>2, <1>4, <1>5 DEF DownManual

\* An image is read, or the last one, whose frame is delivered; or none.
LEMMA CaptureStep ==
  ASSUME IInv, Capture
  PROVE  Step
  <1>0. ScanState(s) /\ Cycle(s) /\ Stops(s) /\ Owned(s) BY DEF IInv, Inv
  <1>1. s.work = "op" /\ s.state = "CAPTURE" BY DEF Capture, Ends
  <1>2. CASE CommandFails(FALSE) BY <1>1, <1>2, CommandFailsStep
  <1>3. /\ Ready(Ended) /\ Ended.dispatching
        /\ \A x : Stays(Ended, x) => Visible(s, x)
    BY <1>1, EndedAfter, AfterReady DEF Early, Cleanup
  <1>4. CASE s' = RearmDown(Ended)
    <2>1. Inv(s') /\ Stays(Ended, s') BY <1>3, <1>4, RearmInv
    <2> QED BY <1>3, <2>1 DEF Step
  <1>5. CASE s.unread > 1 /\ s' = [s EXCEPT !.unread = @ - 1]
    <2> DEFINE n == s.unread - 1
    <2>1. n \in 0..2 /\ n > 0 BY <1>0, <1>5 DEF ScanState
    <2>2. s' = [s EXCEPT !.unread = n] BY <1>5
    <2> HIDE DEF n
    <2>3. ScanState(s') BY <1>0, <2>1, <2>2 DEF ScanState
    <2>4. /\ s'.kind = s.kind /\ s'.cpu = s.cpu /\ s'.cycle = s.cycle /\ s'.told = s.told
          /\ s'.deferred = s.deferred /\ s'.capturing = s.capturing /\ s'.unread = n
          /\ s'.stop = s.stop /\ s'.state = s.state /\ s'.work = s.work /\ s'.cut = s.cut
          /\ s'.dispatching = s.dispatching /\ s'.ssmError = s.ssmError
          /\ s'.reader = s.reader
      BY <1>0, <2>2 DEF ScanState
    <2>5. Acting(s) /\ s.cycle = "idle" BY <1>0, <1>1 DEF Owned
    <2>6. s.unread > 0 BY <1>0, <2>5 DEF Cycle
    <2>7. Cycle(s') BY <1>0, <2>1, <2>4, <2>5, <2>6 DEF Cycle, Acting, Action
    <2>8. Stops(s') BY <1>0, <2>4 DEF Stops, Acting
    <2>9. Owned(s') BY <1>0, <2>4 DEF Owned, Acting, Stopping
    <2>10. Stays(s, s') BY <2>4 DEF Stays
    <2> QED BY <2>3, <2>7, <2>8, <2>9, <2>10 DEF Step, Inv, Visible, Moves, Finishes
  <1>6. ASSUME NEW refused \in BOOLEAN, s' = ArmUp([Ended EXCEPT !.unread = 0], refused)
        PROVE  Step
    <2> DEFINE u == [s EXCEPT !.work = "none", !.unread = 0]
    <2>1. s' = ArmUp(u, refused) BY <1>6 DEF Ended
    <2>2. ScanState(u) BY <1>0 DEF ScanState
    <2>3. /\ u.kind = s.kind /\ u.cpu = s.cpu /\ u.cycle = s.cycle /\ u.told = s.told
          /\ u.unread = 0 /\ u.stop = s.stop /\ u.dispatching = s.dispatching
      BY <1>0 DEF ScanState
    <2> HIDE DEF u
    <2>4. Acting(s) /\ s.cycle = "idle" /\ s.cpu = "none" /\ s.told = "none"
      BY <1>0, <1>1 DEF Owned, Cycle
    <2>5. s.stop # "yes" /\ s.dispatching BY <1>0, <1>1, <2>4 DEF Stops, Owned, Early, Cleanup
    <2>6. Inv(s') /\ Delivers(s, s')
      BY <2>1, <2>2, <2>3, <2>4, <2>5, ArmUpInv DEF Acting, Delivers
    <2> QED BY <2>6 DEF Step, Visible
  <1> QED BY <1>2, <1>4, <1>5, <1>6 DEF Capture

\* The reference is replaced or kept.
LEMMA RefreshStep ==
  ASSUME IInv, Refresh
  PROVE  Step
  <1>0. ScanState(s) BY DEF IInv, Inv
  <1>1. s.work = "op" /\ s.state = "REFRESH" BY DEF Refresh, Ends
  <1>2. CASE CommandFails(TRUE) BY <1>1, <1>2, CommandFailsStep
  <1>3. ASSUME NEW r \in {s.reference, "ready"},
               s' = UpHealth([Ended EXCEPT !.reference = r, !.recovering = @ /\ r # "ready"])
        PROVE  Step
    <2> DEFINE b == Ended.recovering /\ r # "ready"
               u == [Ended EXCEPT !.reference = r, !.recovering = b]
    <2>1. b \in BOOLEAN /\ r \in {"none", "recovery", "ready"} BY <1>0 DEF ScanState
    <2>2. s' = UpHealth(u) BY <1>3
    <2> HIDE DEF b
    <2>3. After(u) BY <2>1, EndedAfter
    <2> HIDE DEF u
    <2>4. Ready(u) /\ u.dispatching /\ (\A x : Stays(u, x) => Visible(s, x))
      BY <1>1, <2>3, AfterReady DEF Early, Cleanup
    <2> QED BY <2>2, <2>4, RearmInv DEF Step
  <1> QED BY <1>2, <1>3 DEF Refresh

\* A health observation or a restored configuration is followed by the down arm.
LEMMA RearmStep ==
  ASSUME IInv, UpHealthPair \/ RestoreConfig
  PROVE  Step
  <1>1. s.work = "op" /\ s.state \in {"UP_HEALTH", "RESTORE_CONFIG"}
    BY DEF UpHealthPair, RestoreConfig, Ends
  <1>2. CASE CommandFails(FALSE) BY <1>1, <1>2, CommandFailsStep
  <1> DEFINE h == [Ended EXCEPT !.healthy = TRUE]
  <1>3. \A u \in {Ended, h} :
          Ready(u) /\ u.dispatching /\ (\A x : Stays(u, x) => Visible(s, x))
    <2>1. After(Ended) /\ After(h) BY EndedAfter
    <2> QED BY <1>1, <2>1, AfterReady DEF Early, Cleanup
  <1>4. CASE s' = RearmDown(h) \/ s' = RearmDown(Ended)
    <2> HIDE DEF h
    <2> QED BY <1>3, <1>4, RearmInv DEF Step
  <1> QED BY <1>2, <1>4 DEF UpHealthPair, RestoreConfig

\* A repair or the EC command is over: the coordinator waits again.
LEMMA WorkDoneStep ==
  ASSUME IInv, Esd \/ DeactivateEc
  PROVE  Step
  <1>0. ScanState(s) BY DEF IInv, Inv
  <1>1. s.work = "op" /\ s.state \in {"ESD", "DEACTIVATE_EC"} BY DEF Esd, DeactivateEc, Ends
  <1>2. CASE CommandFails(FALSE) \/ CommandFails(TRUE) BY <1>1, <1>2, CommandFailsStep
  <1>3. ASSUME NEW u, After(u), s' = WorkDone(u)
        PROVE  Step
    <2>1. Ready(u) /\ (\A x : Moves(u, x) => Visible(s, x))
      BY <1>1, <1>3, AfterReady
    <2> QED BY <1>3, <2>1, WorkDoneInv DEF Step
  <1>4. CASE s' = WorkDone(Ended) BY <1>3, <1>4, EndedAfter
  <1>5. ASSUME NEW mode \in {s.waitMode, "down"},
               s' = WorkDone([Ended EXCEPT !.waitMode = mode])
        PROVE  Step
    <2>1. mode \in {"none", "down", "up"} BY <1>0 DEF ScanState
    <2> QED BY <1>3, <1>5, <2>1, EndedAfter
  <1> QED BY <1>2, <1>4, <1>5 DEF Esd, DeactivateEc

\* The deactivation's delay is over.
LEMMA DeactivateDelayStep ==
  ASSUME IInv, DeactivateDelay
  PROVE  Step
  <1>1. s.work = "op" /\ s.state = "DISPATCH_EVENT" BY DEF DeactivateDelay, Ends
  <1>2. /\ Ready(Ended) /\ Ended.dispatching
        /\ \A x : Stays(Ended, x) => Visible(s, x)
    BY <1>1, EndedAfter, AfterReady DEF Early, Cleanup
  <1>3. Ended.waitMode \in Mode BY <1>2 DEF Ready, Mid, ScanState, Mode
  <1>4. Inv(s') /\ Stays(Ended, s')
    BY <1>2, <1>3, EnterLaterInv
       DEF DeactivateDelay, Start, Later, State, Early, Cleanup
  <1> QED BY <1>2, <1>4 DEF Step

\* The GTLS session is back, or the owner stops with the restart's error.
LEMMA GtlsRestartedStep ==
  ASSUME IInv, GtlsRestarted
  PROVE  Step
  <1>1. s.work = "op" /\ s.state = "WAIT_EVENT" BY DEF GtlsRestarted, Ends
  <1>2. CASE s' = WorkDone(Ended)
    <2>1. Ready(Ended) /\ (\A x : Moves(Ended, x) => Visible(s, x))
      BY <1>1, EndedAfter, AfterReady
    <2> QED BY <1>2, <2>1, WorkDoneInv DEF Step
  <1>3. ASSUME NEW e \in Failures,
               s' = RequestStop([Ended EXCEPT !.dispatching = FALSE, !.needsReinit = TRUE], e)
        PROVE  Step
    <2> DEFINE u == [s EXCEPT !.work = "none", !.dispatching = FALSE, !.needsReinit = TRUE]
    <2>0. ScanState(s) BY DEF IInv, Inv
    <2>1. s' = RequestStop(u, e) BY <1>3 DEF Ended
    <2>2. ScanState(u) BY <2>0 DEF ScanState
    <2>3. /\ Agree(s, u) /\ u.stop = s.stop /\ ~u.dispatching /\ u.work = "none"
          /\ u.state = s.state
      BY <2>0 DEF ScanState, Agree
    <2> HIDE DEF u
    <2>4. Ready(Ended) BY <1>1, EndedAfter, AfterReady
    <2>5. Agree(s, Ended) /\ Ended.stop = s.stop BY EndedAfter DEF After
    <2>6. Agree(Ended, u) /\ u.stop = Ended.stop BY <2>3, <2>5 DEF Agree
    <2>7. Ready(u) BY <2>2, <2>4, <2>6, AgreeReady
    <2>8. ~Resting(u) BY <1>1, <2>3 DEF Resting, Cleanup
    <2>9. e \in {"cancelled", "error"} BY DEF Failures
    <2>10. Inv(s') /\ Finishes(u, s')
      BY <2>1, <2>7, <2>8, <2>9, RequestStopInv DEF Ready, Stops
    <2>11. Moves(s, s') BY <2>2, <2>3, <2>10, AgreeReady DEF Moves, Finishes
    <2> QED BY <2>10, <2>11 DEF Step, Visible
  <1> QED BY <1>2, <1>3 DEF GtlsRestarted

\* The deactivation ends: nobody owns the sensor, and the frame is gone.
LEMMA CleanupSleepStep ==
  ASSUME IInv, CleanupSleep
  PROVE  Step
  <1>0. ScanState(s) /\ Cycle(s) /\ Owned(s) BY DEF IInv, Inv
  <1>1. s.kind = "tail" BY <1>0 DEF CleanupSleep, Ends, Owned
  <1>2. s.cycle = "idle" /\ s.told # "none" BY <1>0, <1>1 DEF Cycle, Acting, Action
  <1>3. ASSUME NEW u, ScanState(u), Agree(s, u), s' = Gone(u)
        PROVE  Step
    <2>1. Cycle(u) /\ u.kind = "tail" /\ u.cycle = s.cycle /\ u.told = s.told
      BY <1>0, <1>1, <1>3, AgreeReady DEF Agree
    <2>2. /\ Inv(s') /\ s'.cpu = "none" /\ s'.cycle = s.cycle /\ s'.told = s.told
      BY <1>3, <2>1, GoneInv
    <2> QED BY <1>2, <2>2 DEF Step, Visible, Leaves
  <1>4. Agree(s, s) BY DEF Agree
  <1> DEFINE m == [s EXCEPT !.mode = "sleep"]
             n == [s EXCEPT !.needsReinit = TRUE]
  <1>5. ScanState(m) /\ ScanState(n) BY <1>0 DEF ScanState
  <1>6. Agree(s, m) /\ Agree(s, n) BY <1>0 DEF ScanState, Agree
  <1>7. s' = Gone(m) \/ s' = Gone(n) \/ s' = Gone(s) BY DEF CleanupSleep
  <1> HIDE DEF m, n
  <1> QED BY <1>0, <1>3, <1>4, <1>5, <1>6, <1>7

\* Every operation that ends takes a step of the contract.
LEMMA OpEndsStep ==
  ASSUME IInv, OpEnds
  PROVE  Step
  BY EnsureReferenceStep, PowerOnStep, ArmStep, DownManualStep, CaptureStep, RefreshStep,
     RearmStep, WorkDoneStep, DeactivateDelayStep, GtlsRestartedStep, CleanupSleepStep
     DEF OpEnds

-----------------------------------------------------------------------------
(* The sensor, the worker, the application and the session *)

\* What Inv depends on; the other fields may change under it.
Alike(t, u) ==
  /\ Agree(t, u) /\ u.stop = t.stop /\ u.state = t.state /\ u.work = t.work
  /\ u.cut = t.cut /\ u.dispatching = t.dispatching /\ u.ssmError = t.ssmError

\* The fields Inv does not depend on may change under it.
LEMMA AlikeInv ==
  ASSUME NEW t, Inv(t), NEW u, ScanState(u), Alike(t, u), u.work = "event" => u.reader = "ok"
  PROVE  Inv(u) /\ Stays(t, u) /\ (\A r : Moves(u, r) => Moves(t, r))
  <1>1. Cycle(t) /\ Stops(t) /\ Owned(t) BY DEF Inv
  <1>2. Cycle(u) /\ Stays(t, u) /\ (\A r : Moves(u, r) => Moves(t, r))
    BY <1>1, AgreeReady DEF Alike
  <1>3. Stops(u) BY <1>1 DEF Alike, Agree, Stops, Acting
  <1>4. Owned(u) BY <1>1 DEF Alike, Agree, Owned, Acting, Stopping
  <1> QED BY <1>2, <1>3, <1>4 DEF Inv

\* A state that Inv holds of may be left by a callback.
LEMMA InvReady ==
  ASSUME NEW t, Inv(t), t.kind \notin {"none", "tail"}
  PROVE  Ready(t)
  BY DEF Inv, Ready, Mid

\* An owner in its event wait may dispatch, fail or stop.
LEMMA EventWait ==
  ASSUME NEW t, Inv(t), t.work = "event"
  PROVE  /\ Ready(t) /\ t.state = "WAIT_EVENT" /\ ~t.dispatching
         /\ t.cut <=> Stopping(t)
  BY InvReady DEF Inv, Owned

\* The sensor notifies, announces a restart, or is gone.
LEMMA NotifyStep ==
  ASSUME IInv, Notify
  PROVE  Step
  <1>0. ScanState(s) BY DEF IInv, Inv
  <1>1. PICK e \in Notice :
          s' = LET t == [s EXCEPT !.pending = e]
               IN  IF s.work = "event" THEN Dispatch(t) ELSE t
    BY DEF Notify
  <1> DEFINE t == [s EXCEPT !.pending = e]
  <1>2. e \in Event /\ s.reader = "ok" BY ScanAssumption DEF Notify
  <1>3. ScanState(t) BY <1>0, <1>2 DEF ScanState
  <1>4. Alike(s, t) /\ t.reader = "ok" /\ t.pending = e
    BY <1>0, <1>2 DEF ScanState, Alike, Agree
  <1>5. s' = IF s.work = "event" THEN Dispatch(t) ELSE t BY <1>1
  <1> HIDE DEF t
  <1>6. Inv(t) /\ Stays(s, t) /\ (\A r : Moves(t, r) => Moves(s, r))
    BY <1>3, <1>4, AlikeInv DEF IInv
  <1>7. CASE s.work = "event"
    <2>1. Ready(t) /\ t.state = "WAIT_EVENT" BY <1>4, <1>6, <1>7, EventWait DEF Alike
    <2>2. Inv(s') /\ Moves(t, s') BY <1>2, <1>4, <1>5, <1>7, <2>1, DispatchInv
    <2> QED BY <1>6, <2>2 DEF Step, Visible
  <1>8. CASE s.work # "event" BY <1>5, <1>6, <1>8 DEF Step, Visible, Moves, Finishes
  <1> QED BY <1>7, <1>8

\* A restart notice is answered, or remembered.
LEMMA RestartNoticeStep ==
  ASSUME IInv, RestartNotice
  PROVE  Step
  <1>0. ScanState(s) BY DEF IInv, Inv
  <1> DEFINE t == [s EXCEPT !.restart = TRUE]
  <1>1. s' = IF s.work = "event" THEN RestartGtls(s) ELSE t BY DEF RestartNotice
  <1>2. ScanState(t) BY <1>0 DEF ScanState
  <1>3. Alike(s, t) /\ t.reader = s.reader BY <1>0 DEF ScanState, Alike, Agree
  <1> HIDE DEF t
  <1>4. CASE s.work = "event"
    <2>1. Inv(s') /\ Stays(s, s') BY <1>1, <1>4, EventWait, RestartGtlsInv DEF IInv
    <2> QED BY <2>1 DEF Step, Visible, Moves, Finishes
  <1>5. CASE s.work # "event"
    <2>1. Inv(t) /\ Stays(s, t) BY <1>2, <1>3, <1>5, AlikeInv DEF IInv, Alike
    <2> QED BY <1>1, <1>5, <2>1 DEF Step, Visible, Moves, Finishes
  <1> QED BY <1>4, <1>5

\* The reader fails: the session is marked, and a wait with it.
LEMMA ReaderFailsStep ==
  ASSUME IInv, ReaderFails
  PROVE  Step
  <1>0. ScanState(s) BY DEF IInv, Inv
  <1> DEFINE t == [s EXCEPT !.reader = "failed", !.needsReinit = TRUE]
  <1>1. s' = IF s.work = "event" THEN EventFailed(t, "error") ELSE t BY DEF ReaderFails
  <1>2. ScanState(t) BY <1>0 DEF ScanState
  <1>3. Alike(s, t) BY <1>0 DEF ScanState, Alike, Agree
  <1> HIDE DEF t
  <1>4. CASE s.work = "event"
    <2>1. Ready(s) BY <1>4, EventWait DEF IInv
    <2>2. Ready(t) BY <1>2, <1>3, <2>1, AgreeReady DEF Alike
    <2>3. Inv(s') /\ Finishes(t, s') BY <1>1, <1>4, <2>2, EventFailedInv
    <2>4. Moves(s, s') BY <1>2, <1>3, <2>3, AgreeReady DEF Moves, Alike
    <2> QED BY <2>3, <2>4 DEF Step, Visible
  <1>5. CASE s.work # "event"
    <2>1. Inv(t) /\ Stays(s, t) BY <1>2, <1>3, <1>5, AlikeInv DEF IInv, Alike
    <2> QED BY <1>1, <1>5, <2>1 DEF Step, Visible, Moves, Finishes
  <1> QED BY <1>4, <1>5

\* A malformed notification fails the wait.
LEMMA EventRejectedStep ==
  ASSUME IInv, EventRejected
  PROVE  Step
  <1>1. Ready(s) BY EventWait DEF IInv, EventRejected
  <1>2. Inv(s') /\ Finishes(s, s') BY <1>1, EventFailedInv DEF EventRejected
  <1> QED BY <1>2 DEF Step, Visible, Moves

\* A cancelled wait returns, and the owner finishes.
LEMMA EventCancelledStep ==
  ASSUME IInv, EventCancelled
  PROVE  Step
  <1>0. ScanState(s) BY DEF IInv, Inv
  <1> DEFINE u == [s EXCEPT !.work = "none", !.cut = FALSE]
  <1>1. s' = MaybeFinish(u) BY DEF EventCancelled
  <1>2. Ready(s) /\ s.state = "WAIT_EVENT" /\ ~s.dispatching /\ Stopping(s)
    BY EventWait DEF IInv, EventCancelled
  <1>3. ScanState(u) BY <1>0 DEF ScanState
  <1>4. /\ Agree(s, u) /\ u.stop = s.stop /\ u.state = s.state /\ u.work = "none"
        /\ u.dispatching = s.dispatching
    BY <1>0 DEF ScanState, Agree
  <1> HIDE DEF u
  <1>5. Ready(u) BY <1>2, <1>3, <1>4, AgreeReady
  <1>6. Stopping(u) /\ ~Resting(u) BY <1>2, <1>4 DEF Stopping, Resting, Cleanup
  <1>7. Inv(s') /\ Finishes(u, s') BY <1>1, <1>5, <1>6, MaybeFinishInv
  <1> QED BY <1>3, <1>4, <1>7, AgreeReady DEF Step, Visible, Moves

\* The worker answers.
LEMMA AnswerStep ==
  ASSUME IInv, Answer
  PROVE  Step
  <1>1. PICK d \in Verdict : s.cpu = "running" /\ s' = SetDisposition(s, d)
    BY DEF Answer, Verdict, AfterUp
  <1>2. Inv(s') /\ Answers(s, s') BY <1>1, SetDispositionInv DEF IInv, Answers
  <1> QED BY <1>2 DEF Step, Visible

\* The settled verdict: the next frame, or the end.
LEMMA SettleReturnsStep ==
  ASSUME IInv, SettleReturns
  PROVE  Step
  <1>0. ScanState(s) /\ Cycle(s) /\ Owned(s) BY DEF IInv, Inv
  <1>1. /\ Acting(s) /\ s.cpu \in AfterUp /\ s.cycle = "released" /\ s.stop = "no"
        /\ ~s.dispatching /\ s.kind \notin {"none", "tail"} /\ s.told = "none"
    BY <1>0 DEF SettleReturns, Owned, Cycle, Acting, Action
  <1>2. CASE s.cpu = "continue"
    <2> DEFINE t == [s EXCEPT !.cycle = "idle", !.cpu = "none", !.capturing = TRUE,
                              !.unread = 2]
    <2>1. s' = WaitEvent(t) BY <1>2 DEF SettleReturns, NextCycle
    <2>2. ScanState(t) BY <1>0 DEF ScanState
    <2>3. /\ t.kind = s.kind /\ t.cycle = "idle" /\ t.cpu = "none" /\ t.capturing
          /\ t.unread = 2 /\ t.told = s.told /\ t.stop = s.stop /\ ~t.dispatching
      BY <1>0, <1>1 DEF ScanState
    <2> HIDE DEF t
    <2>4. Cycle(t) /\ Stops(t) BY <1>1, <2>3 DEF Cycle, Stops, Acting, Action
    <2>5. Ready(t) BY <1>1, <2>2, <2>3, <2>4 DEF Ready, Mid
    <2>6. Inv(s') /\ Moves(t, s') BY <2>1, <2>3, <2>5, WaitEventInv
    <2>7. s'.told \in {"none", "ok", "cancelled", "error"} BY <2>6 DEF Inv, ScanState
    <2>8. Settles(s, s')
      BY <1>1, <1>2, <2>3, <2>6, <2>7
         DEF Settles, Moves, Finishes, Stays, Tells, Detached, Lifts
    <2> QED BY <2>6, <2>8 DEF Step, Visible
  <1>3. CASE s.cpu # "continue"
    <2>1. s' = CleanupJoin(s) BY <1>3 DEF SettleReturns
    <2>2. s.cpu \in {"retry", "final"} BY <1>1, <1>3 DEF AfterUp
    <2>3. Mid(s) BY <1>0, <1>1 DEF Mid
    <2>4. Inv(s') /\ (Stays(s, s') \/ Detached(s, s')) BY <2>1, <2>2, <2>3, CleanupJoinInv
    <2> QED BY <1>1, <2>2, <2>4 DEF Step, Visible, Settles, Moves, Finishes
  <1> QED BY <1>2, <1>3

\* Stops reach the owner.
LEMMA StopOwnerInv ==
  ASSUME NEW t, Inv(t), NEW e \in {"yes", "cancelled", "error"}, e = "yes" => ~Acting(t)
  PROVE  /\ Inv(StopOwner(t, e)) /\ Finishes(t, StopOwner(t, e))
         /\ t.kind \notin {"none", "tail"} =>
              Inv(RequestStop(t, e)) /\ Finishes(t, RequestStop(t, e))
  <1>1. CASE t.kind \in {"none", "tail"} BY <1>1 DEF StopOwner, Finishes, Stays
  <1>2. CASE t.kind \notin {"none", "tail"}
    <2>1. Ready(t) /\ Owned(t) BY <1>2, InvReady DEF Inv
    <2>2. Inv(RequestStop(t, e)) /\ Finishes(t, RequestStop(t, e))
      BY <2>1, RequestStopInv DEF Ready, Stops
    <2> QED BY <1>2, <2>2 DEF StopOwner
  <1> QED BY <1>1, <1>2

\* The action's token and its stop.
LEMMA CancelTokenInv ==
  ASSUME NEW t, Inv(t), Acting(t)
  PROVE  Inv(CancelToken(t)) /\ Finishes(t, CancelToken(t))
  <1> DEFINE u == [t EXCEPT !.token = TRUE]
             r == RequestStop(u, "cancelled")
  <1>0. ScanState(t) /\ Owned(t) BY DEF Inv
  <1>1. CASE t.token BY <1>1 DEF CancelToken, Finishes, Stays
  <1>2. CASE ~t.token
    <2>1. CancelToken(t) = r BY <1>2 DEF CancelToken
    <2>2. ScanState(u) BY <1>0 DEF ScanState
    <2>3. Alike(t, u) /\ u.reader = t.reader BY <1>0 DEF ScanState, Alike, Agree
    <2> HIDE DEF u
    <2>4. Inv(u) BY <1>0, <2>2, <2>3, AlikeInv DEF Owned, Alike
    <2>5. u.kind \notin {"none", "tail"} BY <2>3 DEF Alike, Agree, Acting, Action
    <2>6. Inv(r) /\ Finishes(u, r) BY <2>4, <2>5, StopOwnerInv
    <2> QED BY <2>1, <2>2, <2>3, <2>6, AgreeReady DEF Finishes, Alike
  <1> QED BY <1>1, <1>2

\* An outcome is told once: a second stop finds the owner detached.
LEMMA FinishesTwice ==
  ASSUME NEW t, NEW u, NEW r, Finishes(t, u), Finishes(u, r)
  PROVE  Finishes(t, r)
  BY DEF Finishes, Stays, Tells, Detached

\* The application cancels, the next action joins the service, the child expires.
LEMMA StopStep ==
  ASSUME IInv, Cancel \/ JoinService \/ HealthWaitExpired
  PROVE  Step
  <1>1. CASE Cancel
    <2>1. Acting(s) /\ s' = CancelToken(s) BY <1>1 DEF Cancel, Acting
    <2> QED BY <2>1, CancelTokenInv DEF IInv, Step, Visible, Moves
  <1>2. CASE JoinService
    <2>1. ~Acting(s) /\ s' = StopOwner(s, "yes")
      BY <1>2 DEF JoinService, Idle, Acting, Action
    <2> QED BY <2>1, StopOwnerInv DEF IInv, Step, Visible, Moves
  <1>3. CASE HealthWaitExpired
    <2>1. s.kind = "wait" /\ ~Acting(s) /\ s' = RequestStop(s, "yes")
      BY <1>3 DEF HealthWaitExpired, Acting, Action
    <2> QED BY <2>1, StopOwnerInv DEF IInv, Step, Visible, Moves
  <1> QED BY <1>1, <1>2, <1>3

\* The session suspends: the token and the owner are stopped, in that order.
LEMMA QuiesceStep ==
  ASSUME IInv, Quiesce
  PROVE  Step
  <1>0. ScanState(s) /\ Owned(s) BY DEF IInv, Inv
  <1> DEFINE t == [s EXCEPT !.io = TRUE]
  <1>1. s' = IF s.kind \in Action THEN StopOwner(CancelToken(t), "cancelled")
             ELSE StopOwner(t, "yes")
    BY DEF Quiesce
  <1>2. ScanState(t) BY <1>0 DEF ScanState
  <1>3. Alike(s, t) /\ t.reader = s.reader BY <1>0 DEF ScanState, Alike, Agree
  <1> HIDE DEF t
  <1>4. Inv(t) BY <1>0, <1>2, <1>3, AlikeInv DEF IInv, Owned, Alike
  <1>5. Finishes(t, s') => Visible(s, s')
    BY <1>2, <1>3, AgreeReady DEF Alike, Visible, Moves
  <1>6. CASE Acting(s)
    <2>1. Acting(t) BY <1>3, <1>6 DEF Alike, Agree, Acting
    <2>2. Inv(CancelToken(t)) /\ Finishes(t, CancelToken(t)) BY <1>4, <2>1, CancelTokenInv
    <2>3. s' = StopOwner(CancelToken(t), "cancelled") BY <1>1, <1>6 DEF Acting
    <2>4. Inv(s') /\ Finishes(CancelToken(t), s') BY <2>2, <2>3, StopOwnerInv
    <2> QED BY <1>5, <2>2, <2>4, FinishesTwice DEF Step
  <1>7. CASE ~Acting(s)
    <2>1. ~Acting(t) /\ s' = StopOwner(t, "yes")
      BY <1>1, <1>3, <1>7 DEF Alike, Agree, Acting
    <2>2. Inv(s') /\ Finishes(t, s') BY <1>4, <2>1, StopOwnerInv
    <2> QED BY <1>5, <2>2 DEF Step
  <1> QED BY <1>6, <1>7

\* The device is removed; an action that waits for its worker is cancelled too.
LEMMA RemovedStep ==
  ASSUME IInv, Removed
  PROVE  Step
  <1>0. ScanState(s) /\ Owned(s) BY DEF IInv, Inv
  <1> DEFINE t == [s EXCEPT !.io = TRUE, !.needsReinit = TRUE]
             u == StopOwner(t, "error")
  <1>1. s' = IF s.cpu = "running" THEN CancelToken(u) ELSE u BY DEF Removed
  <1>2. ScanState(t) BY <1>0 DEF ScanState
  <1>3. Alike(s, t) /\ t.reader = s.reader BY <1>0 DEF ScanState, Alike, Agree
  <1> HIDE DEF t
  <1>4. Inv(t) BY <1>0, <1>2, <1>3, AlikeInv DEF IInv, Owned, Alike
  <1>5. Inv(u) /\ Finishes(t, u) BY <1>4, StopOwnerInv
  <1> HIDE DEF u
  <1>6. Finishes(t, s') => Visible(s, s')
    BY <1>2, <1>3, AgreeReady DEF Alike, Visible, Moves
  <1>7. CASE s.cpu = "running"
    <2>1. u.cpu = "running" BY <1>3, <1>5, <1>7 DEF Finishes, Stays, Tells, Detached, Alike, Agree
    <2>2. Acting(u) BY <1>5, <2>1 DEF Inv, Cycle
    <2>3. Inv(s') /\ Finishes(u, s') BY <1>1, <1>5, <1>7, <2>2, CancelTokenInv
    <2> QED BY <1>5, <1>6, <2>3, FinishesTwice DEF Step
  <1>8. CASE s.cpu # "running" BY <1>1, <1>5, <1>6, <1>8 DEF Step
  <1> QED BY <1>7, <1>8

\* The maintenance service starts in its event wait.
LEMMA StartServiceStep ==
  ASSUME IInv, StartService
  PROVE  Step
  <1>0. ScanState(s) /\ Cycle(s) /\ Owned(s) BY DEF IInv, Inv
  <1> DEFINE t == [s EXCEPT !.kind = "service"]
  <1>1. s.kind = "none" /\ s' = WaitEvent(t) BY DEF StartService
  <1>2. ScanState(t) BY <1>0 DEF ScanState
  <1>3. /\ t.kind = "service" /\ t.cpu = s.cpu /\ t.cycle = s.cycle /\ t.told = s.told
        /\ t.deferred = s.deferred /\ t.capturing = s.capturing /\ t.unread = s.unread
        /\ t.stop = s.stop /\ t.dispatching = s.dispatching
    BY <1>0 DEF ScanState
  <1> HIDE DEF t
  <1>4. Cycle(t) /\ Stops(t)
    BY <1>0, <1>1, <1>3 DEF Cycle, Stops, Acting, Action
  <1>5. Ready(t) /\ ~t.dispatching BY <1>0, <1>1, <1>2, <1>3, <1>4 DEF Ready, Mid, Owned
  <1>6. Inv(s') /\ Moves(t, s') BY <1>1, <1>5, WaitEventInv
  <1>7. Moves(s, s')
    BY <1>3, <1>6 DEF Moves, Finishes, Stays, Tells, Detached, Lifts
  <1> QED BY <1>6, <1>7 DEF Step, Visible

\* An action starts with its images to read and no outcome.
LEMMA StartCoordinatorStep ==
  ASSUME IInv, StartCoordinator
  PROVE  Step
  <1>0. ScanState(s) /\ Cycle(s) /\ Owned(s) BY DEF IInv, Inv
  <1>1. PICK k \in Kinds :
          LET t == [s EXCEPT !.kind = k, !.told = "none", !.token = FALSE,
                             !.mode = "capture", !.capturing = TRUE,
                             !.unread = IF k = "enroll" THEN 2 ELSE 1,
                             !.pending = IF @ = "deactivate" THEN "none" ELSE @]
          IN  s' = IF s.reference = "none" THEN Start(t, "ENSURE_REFERENCE")
                   ELSE EnsureReferenceDone(t)
    BY DEF StartCoordinator
  <1> DEFINE n == IF k = "enroll" THEN 2 ELSE 1
             p == IF s.pending = "deactivate" THEN "none" ELSE s.pending
             t == [s EXCEPT !.kind = k, !.told = "none", !.token = FALSE,
                            !.mode = "capture", !.capturing = TRUE, !.unread = n,
                            !.pending = p]
  <1>2. s' = IF s.reference = "none" THEN Enter(t, "ENSURE_REFERENCE", t.waitMode)
             ELSE EnsureReferenceDone(t)
    BY <1>1 DEF Start
  <1>3. k \in Action /\ n \in 0..2 /\ n > 0 /\ p \in Event \cup {"none"}
    BY <1>0, ScanAssumption DEF ScanState
  <1>4. s.kind = "none" BY DEF StartCoordinator
  <1> HIDE DEF n, p
  <1>5. ScanState(t) BY <1>0, <1>3 DEF ScanState
  <1>6. /\ t.kind = k /\ t.cpu = s.cpu /\ t.cycle = s.cycle /\ t.told = "none"
        /\ t.deferred = s.deferred /\ t.capturing /\ t.unread = n
        /\ t.stop = s.stop /\ t.dispatching = s.dispatching /\ t.waitMode = s.waitMode
    BY <1>0 DEF ScanState
  <1> HIDE DEF t
  <1>7. /\ s.cpu = "none" /\ s.cycle = "idle" /\ s.stop = "no" /\ ~s.dispatching
    BY <1>0, <1>4 DEF Cycle, Owned, Acting, Action
  <1>8. Acting(t) /\ Cycle(t) /\ Stops(t)
    BY <1>3, <1>6, <1>7 DEF Cycle, Stops, Acting, Action
  <1>9. Ready(t) BY <1>3, <1>5, <1>6, <1>8 DEF Ready, Mid, Action
  <1>10. ~Stopping(t) /\ t.waitMode \in Mode BY <1>0, <1>6, <1>7 DEF Stopping, ScanState, Mode
  <1>11. Inv(s') /\ Stays(t, s')
    <2>1. CASE s.reference = "none"
      <3>1. s' = Enter(t, "ENSURE_REFERENCE", t.waitMode) BY <1>2, <2>1
      <3> QED BY <1>6, <1>7, <1>8, <1>9, <1>10, <3>1, EnterEarlyInv DEF Early
    <2>2. CASE s.reference # "none"
      <3>1. s' = EnsureReferenceDone(t) BY <1>2, <2>2
      <3> QED BY <1>6, <1>7, <1>8, <1>9, <1>10, <3>1, EnsureReferenceDoneInv
    <2> QED BY <2>1, <2>2
  <1>12. Begins(s, s') BY <1>6, <1>7, <1>11 DEF Begins, Stays
  <1> QED BY <1>11, <1>12 DEF Step, Visible

\* The session is reopened, warm or cold.
LEMMA ReopenStep ==
  ASSUME IInv, Reopen
  PROVE  Step
  <1>0. ScanState(s) /\ Owned(s) BY DEF IInv, Inv
  <1> DEFINE t == [s EXCEPT !.io = FALSE, !.restart = FALSE, !.pending = "none"]
             u(r) == [t EXCEPT !.needsReinit = FALSE, !.reader = "ok", !.mode = "sleep",
                               !.healthy = TRUE, !.waitMode = "none", !.reference = r]
  <1>1. s.kind = "none" /\ s.work = "none" BY <1>0 DEF Reopen, Owned
  <1>2. s' = t \/ \E r \in {"none", "recovery", "ready"} : s' = u(r) BY DEF Reopen
  <1>3. ScanState(t) BY <1>0 DEF ScanState
  <1>4. Alike(s, t) BY <1>0 DEF ScanState, Alike, Agree
  <1> HIDE DEF t
  <1>5. Inv(t) /\ Stays(s, t) BY <1>1, <1>3, <1>4, AlikeInv DEF IInv, Alike
  <1>6. ASSUME NEW r \in {"none", "recovery", "ready"} PROVE Inv(u(r)) /\ Stays(s, u(r))
    <2>1. ScanState(u(r)) BY <1>3 DEF ScanState
    <2>2. Alike(t, u(r)) BY <1>3 DEF ScanState, Alike, Agree
    <2> HIDE DEF u
    <2>3. Inv(u(r)) /\ Stays(t, u(r)) BY <1>1, <1>4, <1>5, <2>1, <2>2, AlikeInv DEF Alike
    <2> QED BY <1>5, <2>3 DEF Stays
  <1> HIDE DEF u
  <1> QED BY <1>2, <1>5, <1>6 DEF Step, Visible, Moves, Finishes

-----------------------------------------------------------------------------
(* The theorems *)

\* IInv is inductive, and every step is one the contract can show.
LEMMA InitInv ==
  ASSUME Init
  PROVE  IInv
  <1>1. ScanState(s) BY DEF Init, ScanState, State, Failure
  <1>2. /\ s.kind = "none" /\ s.state = "WAIT_EVENT" /\ s.work = "none"
        /\ s.ssmError = "none" /\ s.stop = "no" /\ ~s.dispatching /\ s.cpu = "none"
        /\ s.cycle = "idle" /\ ~s.deferred /\ ~s.capturing /\ s.unread = 0
    BY DEF Init
  <1>3. Cycle(s) BY <1>2 DEF Cycle, Acting, Action
  <1>4. Stops(s) BY <1>2 DEF Stops, Acting, Action
  <1>5. Owned(s) BY <1>2 DEF Owned, Waiting, Early, Cleanup
  <1> QED BY <1>1, <1>3, <1>4, <1>5 DEF IInv, Inv

\* Every action of Next keeps Inv and takes a step of the contract.
LEMMA NextStep ==
  ASSUME IInv, Next
  PROVE  Step
  <1>1. CASE OpEnds BY <1>1, OpEndsStep
  <1>2. CASE Notify \/ RestartNotice \/ ReaderFails \/ EventRejected \/ EventCancelled
    BY <1>2, NotifyStep, RestartNoticeStep, ReaderFailsStep, EventRejectedStep,
       EventCancelledStep
  <1>3. CASE Answer \/ SettleReturns BY <1>3, AnswerStep, SettleReturnsStep
  <1>4. CASE StartService \/ StartCoordinator \/ Reopen
    BY <1>4, StartServiceStep, StartCoordinatorStep, ReopenStep
  <1>5. CASE Cancel \/ JoinService \/ HealthWaitExpired \/ Quiesce \/ Removed
    BY <1>5, StopStep, QuiesceStep, RemovedStep
  <1> QED BY <1>1, <1>2, <1>3, <1>4, <1>5 DEF Next

\* The invariant of every reachable state.
LEMMA Invariant == Spec => []IInv
  <1>1. IInv /\ UNCHANGED vars => IInv'
    BY DEF vars, IInv
  <1>2. IInv /\ Next => IInv' BY NextStep DEF Step, IInv
  <1>3. Init => IInv BY InitInv
  <1> QED BY <1>1, <1>2, <1>3, PTL DEF Spec

\* The coordinator's fields stay in their ranges: all the handlers, the stops
\* among them, leave a state of profile9_fdt that the next one can read.
THEOREM TypeCorrect == Spec => []TypeOK
  <1>1. IInv => TypeOK BY DEF IInv, Inv, TypeOK
  <1> QED BY <1>1, Invariant, PTL

\* No coordinator stalls, no reference is replaced under the worker, and no
\* capture starts without its images or with a frame in hand.
THEOREM CycleIsOrdered == Spec => []CycleOrdered
  <1>1. IInv => StepOwned BY DEF IInv, Inv, Owned, StepOwned, Waiting
  <1>2. IInv => ReplacementSerialized BY DEF IInv, Inv, Owned, ReplacementSerialized
  <1>3. IInv => CaptureHasBudget BY DEF IInv, Inv, Owned, Cycle, CaptureHasBudget
  <1>4. IInv => CycleOrdered BY <1>1, <1>2, <1>3 DEF CycleOrdered
  <1> QED BY <1>4, Invariant, PTL

\* What a step shows, in the terms of FrameCycle.
LEMMA ContractStep ==
  ASSUME IInv, Step
  PROVE  [Frames!Next]_(Frames!vars)
  <1>1. /\ s.cpu \in Verdict \cup {"none", "running"}
        /\ s'.cpu \in Verdict \cup {"none", "running"}
        /\ s'.told \in {"none", "ok", "cancelled", "error"}
    BY DEF IInv, Step, Inv, ScanState
  <1>2. CASE Moves(s, s')
    <2>1. CASE Stays(s, s') BY <2>1 DEF Stays, Frames!vars
    <2>2. CASE Lifts(s, s')
      BY <2>2 DEF Lifts, Frames!vars, Frames!Next, Frames!Lift
    <2>3. CASE Tells(s, s')
      <3>1. /\ s.cpu # "running" /\ s'.cpu = s.cpu /\ s'.cycle = "idle" /\ s.told = "none"
            /\ s'.told \in {"ok", "cancelled", "error"}
            /\ s'.told = "ok" => s.cpu = "success"
        BY <1>1, <2>3 DEF Tells, Detached
      <3>2. s.cpu # "out" BY <1>1 DEF Verdict, AfterUp
      <3>3. Frames!End BY <3>1, <3>2 DEF Frames!End, Frames!Tell
      <3> QED BY <3>3 DEF Frames!Next
    <2> QED BY <1>2, <2>1, <2>2, <2>3 DEF Moves, Finishes
  <1>3. CASE Begins(s, s')
    BY <1>3 DEF Begins, Frames!vars, Frames!Next, Frames!Begin
  <1>4. CASE Delivers(s, s')
    BY <1>4 DEF Delivers, Frames!vars, Frames!Next, Frames!Deliver
  <1>5. CASE Answers(s, s')
    <2>1. s.cpu = "running" /\ s'.cpu \in Verdict /\ s'.cpu # "running"
      BY <1>5 DEF Answers, Verdict, AfterUp
    <2>2. s'.cpu \in Frames!Verdict BY <2>1 DEF Frames!Verdict, Verdict, AfterUp
    <2>3. CASE s'.cycle = s.cycle /\ s'.told = s.told
      <3>1. Frames!Answer BY <2>1, <2>2, <2>3 DEF Frames!Answer, Verdict, AfterUp
      <3> QED BY <3>1 DEF Frames!Next
    <2>4. CASE /\ s.told = "none" /\ s'.told # "none" /\ s'.cycle = "idle"
               /\ s'.told = "ok" => s'.cpu = "success"
      <3>1. Frames!End BY <1>1, <2>1, <2>2, <2>4 DEF Frames!End, Frames!Tell
      <3> QED BY <3>1 DEF Frames!Next
    <2> QED BY <1>5, <2>3, <2>4 DEF Answers
  <1>6. CASE Settles(s, s')
    BY <1>1, <1>6 DEF Settles, Detached, Frames!Next, Frames!Settle, Frames!End, Frames!Tell
  <1>7. CASE Leaves(s, s')
    BY <1>7 DEF Leaves, Frames!Next, Frames!Leave
  <1> QED BY <1>2, <1>3, <1>4, <1>5, <1>6, <1>7 DEF Step, Visible

\* The coordinator implements the contract of the scan, step by step: whatever
\* the sensor sends, the worker answers, the application cancels or the session
\* suspends, in any order.
THEOREM FrameCycleImplemented == Spec => ImplementsFrameCycle
  <1>1. Init => Frames!Init BY DEF Init, Frames!Init
  <1>2. IInv /\ [Next]_vars => [Frames!Next]_(Frames!vars)
    <2>1. CASE Next BY <2>1, NextStep, ContractStep
    <2>2. CASE UNCHANGED vars BY <2>2 DEF vars, Frames!vars
    <2> QED BY <2>1, <2>2
  <1> QED BY <1>1, <1>2, Invariant, PTL DEF Spec, ImplementsFrameCycle, Frames!Spec
=============================================================================
