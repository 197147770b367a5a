--------------------------- MODULE SessionProofs ---------------------------
(***************************************************************************)
(* The safety invariants of Session, for both values of Reentrant.         *)
(*                                                                         *)
(* None of them is inductive alone: that an action waits is safe only      *)
(* because a background owner is there to answer for it, that the reader   *)
(* join is exclusive only because of the phase the session is in.  Inv     *)
(* collects what they need from each other.  The calls that the actions    *)
(* share (settle, quiesce, admission, the ends of open, suspend and        *)
(* resume) have a lemma each, about any session state; then there is one   *)
(* lemma per action.                                                       *)
(***************************************************************************)
EXTENDS Session, TLAPS

\* One owner: background, foreground and session work exclude each other.
Ownership(t) ==
  /\ ~(t.serviceActive /\ t.foregroundActive)
  /\ t.serviceActive <=> t.owner \in {"service", "tail"}
  /\ t.owner = "scan" => t.foregroundActive
  /\ t.serviceActive \/ t.foregroundActive =>
       /\ t.task = "none" /\ ~t.serviceDraining /\ t.joiner \in {"none", "reinit"}
       /\ t.sessionOpen /\ ~t.sessionSuspended

\* Where the session is: open, suspended, joining the reader, running a task.
Phases(t) ==
  /\ t.sessionOpen <=> t.isOpen
  /\ t.sessionSuspended <=> t.isSuspended /\ t.isOpen
  /\ t.serviceDraining <=> t.joiner = "session"
  /\ t.joiner = "reinit" => t.task = "cold" \/ (t.foregroundActive /\ t.owner = "none")
  /\ t.task # "none" => t.joiner = "none" \/ (t.joiner = "reinit" /\ t.task = "cold")
  /\ t.task = "open" \/ t.joiner = "open" => ~t.sessionOpen
  /\ t.task = "power" \/ t.joiner = "power" => t.sessionOpen /\ ~t.sessionSuspended
  /\ t.task \in {"warm","cold"} \/ t.joiner = "resume" => t.sessionSuspended
  /\ t.serviceJoined # "none" =>
       /\ t.sessionOpen /\ t.task = "none" 
       /\ t.serviceDraining \/ t.serviceActive \/ t.foregroundActive
  /\ t.joiner = "session" => t.serviceJoined # "none"
  /\ t.action = "act" => t.isOpen

\* The current action and what holds it.
Actions(t) ==
  /\ (t.action = "act" /\ ~t.answered) <=> (t.foregroundActive \/ t.actionPending)
  /\ t.actionPending => t.serviceActive
  /\ t.answered => t.action # "none"
  /\ t.cancelDue => t.action # "none" /\ ~t.answered

\* The other requests and what holds them.
Boundaries(t) ==
  /\ (t.action = "close" /\ ~t.answered) <=> t.serviceJoined = "close"
  /\ (t.action = "open" /\ ~t.answered) <=> (t.task = "open" \/ t.joiner = "open")
  /\ (t.power = "suspending" /\ ~t.deferred) <=> t.suspendPending
  /\ t.suspendPending <=>
       (t.serviceJoined = "suspend" \/ t.task = "power" \/ t.joiner = "power")
  /\ t.power = "resuming" <=> (t.task \in {"warm", "cold"} \/ t.joiner = "resume")
  /\ t.power = "suspending" => ~t.isSuspended
  /\ t.sessionSuspended => t.action \in {"none", "act"} /\ t.serviceJoined = "none"
  /\ t.suspendPending => t.action \in {"none", "act"}
  /\ t.action = "open" => ~t.isSuspended
  /\ t.deferred => t.power = "suspending" /\ t.action \in {"open", "close"}

Requests(t) == Actions(t) /\ Boundaries(t)

\* What the transport may be doing.
Quiet(t) ==
  /\ t.asserts
  /\ t.joiner # "none" => t.reader = "pending" /\ ~t.transport
  /\ t.transport => t.owner # "none" \/ t.task # "none" \/ t.foregroundActive
  /\ t.error # "none" => t.joiner \in {"open","power","resume"}
  /\ t.reader # "none" => (t.sessionOpen /\ ~t.sessionSuspended) \/ t.task # "none" \/ t.joiner # "none"

\* The inductive invariant, of a session state and of the current state.
Inv(t) == SessionState(t) /\ Ownership(t) /\ Phases(t) /\ Requests(t) /\ Quiet(t)

IInv == Inv(s)

\* Free hardware of an open session: what holds when settle may choose.
Free(t) ==
  /\ SessionState(t)
  /\ ~t.foregroundActive /\ ~t.serviceActive
  /\ t.owner = "none" /\ t.task = "none" /\ t.joiner = "none" /\ ~t.transport
  /\ t.error = "none" /\ t.asserts = TRUE
  /\ t.sessionOpen = TRUE /\ t.isOpen = TRUE /\ t.power # "resuming"
  /\ t.action = "open" => t.answered
  /\ (t.action = "act" /\ ~t.answered) <=> t.actionPending
  /\ (t.action = "close" /\ ~t.answered) <=> t.serviceJoined = "close"
  /\ (t.power = "suspending" /\ ~t.deferred) <=> t.suspendPending
  /\ t.suspendPending <=> t.serviceJoined = "suspend"
  /\ t.suspendPending => t.action \in {"none", "act"}
  /\ t.answered => t.action # "none"
  /\ t.sessionSuspended <=> t.isSuspended
  /\ t.sessionSuspended => ~t.actionPending /\ t.power = "none" /\ t.reader = "none"
  /\ t.sessionSuspended => t.serviceJoined = "close"
  /\ t.deferred => t.power = "suspending" /\ t.action \in {"open", "close"}
  /\ t.cancelDue => t.action # "none" /\ ~t.answered

\* Whoever starts a coordinator starts it on hardware that needs no reset.
Usable(t) == t.owner # "none" => ~t.needsReinit

\* What free hardware turns into: the action's ...
Started(t) ==
  /\ Holder(t) = "action" /\ Request(t) = "running" /\ ~AtBoundary(t)
  /\ Usable(t)

\* ... the background's or nobody's ...
Released(t) ==
  /\ Holder(t) \in {"none", "background"} /\ Request(t) = "none" /\ ~AtBoundary(t)
  /\ Usable(t)

\* ... or, when a boundary waits, the session's; a close may end right there.
Reached(t) ==
  /\ Request(t) = "none" /\ t.owner = "none"
  /\ \/ Holder(t) = "session" /\ AtBoundary(t)
     \/ Holder(t) = "none" /\ ~AtBoundary(t)

HandedOn(joined, t) == IF joined THEN Reached(t) ELSE Released(t)

\* What the callers of settle need to know of its result.
SettledTo(joined, pending, t) ==
  HandedOn(joined, t) \/ (pending /\ ~joined /\ Started(t))

\* A boundary is asked for: whoever holds the hardware keeps it for now.
Asked(t, u) ==
  \/ /\ Holder(t) \in {"background", "action"} /\ Holder(u) = Holder(t)
     /\ Request(u) = Request(t) /\ AtBoundary(u) /\ u.owner = t.owner
  \/ Holder(t) = "none" /\ Request(t) = "none" /\ Reached(u)

\* Nobody sees a difference.
Same(t, u) ==
  /\ Holder(u) = Holder(t) /\ Request(u) = Request(t) /\ AtBoundary(u) = AtBoundary(t)
  /\ u.owner = t.owner

\* Under a background owner an action waits, or is refused on the spot.
Waits(t, u) ==
  \/ Same(t, u)
  \/ /\ ~AtBoundary(t) /\ ~AtBoundary(u) /\ Request(u) = "waiting"
     /\ Holder(u) = Holder(t) /\ u.owner = t.owner

\* A failed open may begin again.
Retried(t) ==
  Holder(t) = "session" /\ Request(t) = "none" /\ ~AtBoundary(t) /\ t.owner = "none"

\* A suspended session has no owner.
SuspendedNow(t) ==
  Holder(t) = "none" /\ Request(t) = "none" /\ AtBoundary(t) /\ t.owner = "none"

\* What HardwareOwner sees after a step is what it sees of the state after it.
LEMMA Primed ==
  /\ Holder(s)' = Holder(s') /\ Request(s)' = Request(s')
  /\ AtBoundary(s)' = AtBoundary(s')
  /\ AtBoundary(s) \in BOOLEAN /\ AtBoundary(s') \in BOOLEAN
  BY DEF Holder, Request, AtBoundary, SessionWork

\* A step as HardwareOwner sees it, and what it may not start.
Handover == [HO!Next]_HO!vars /\ (s.owner = "none" => Usable(s'))

\* A step that nobody sees is a stutter of HardwareOwner.
LEMMA SameStep ==
  ASSUME Same(s, s')
  PROVE  Handover
  BY Primed DEF Same, Handover, Usable, HO!vars

\* A boundary is asked for, by a call that comes with nothing else to see.
LEMMA AskStep ==
  ASSUME NEW t, Same(s, t), Same(t, s') \/ (~AtBoundary(t) /\ Asked(t, s'))
  PROVE  Handover
  <1>1. CASE Same(t, s') BY <1>1, SameStep DEF Same
  <1>2. CASE ~AtBoundary(t) /\ Asked(t, s')
    <2>1. ~AtBoundary(s) /\ (s.owner = "none" => Usable(s'))
      BY <1>2 DEF Same, Asked, Usable, Reached
    <2>2. CASE Holder(t) # "none"
      <3>1. HO!Ask BY <1>2, <2>1, <2>2, Primed DEF Same, Asked, HO!Ask
      <3> QED BY <2>1, <3>1 DEF Handover, HO!Next
    <2>3. CASE Holder(t) = "none" /\ Holder(s') = "session"
      <3>1. HO!Ask BY <1>2, <2>1, <2>3, Primed DEF Same, Asked, Reached, HO!Ask
      <3> QED BY <2>1, <3>1 DEF Handover, HO!Next
    <2>4. CASE Holder(t) = "none" /\ Holder(s') # "session"
      BY <1>2, <2>1, <2>4, Primed DEF Same, Asked, Reached, Handover, HO!vars
    <2> QED BY <2>2, <2>3, <2>4
  <1> QED BY <1>1, <1>2

\* Open and resume take free hardware for session work.
LEMMA EnterStep ==
  ASSUME Holder(s) = "none", Holder(s') = "session", s'.owner = "none",
         Request(s') = Request(s), AtBoundary(s') = AtBoundary(s)
  PROVE  Handover
  <1>1. HO!Enter BY Primed DEF HO!Enter
  <1> QED BY <1>1 DEF Handover, Usable, HO!Next

\* An action waits for the background owner or is refused.
LEMMA WaitStep ==
  ASSUME Holder(s) = "background", Request(s) = "none", Waits(s, s')
  PROVE  Handover
  <1>1. CASE Same(s, s') BY <1>1, SameStep
  <1>2. CASE ~Same(s, s')
    <2>1. HO!Wait BY <1>2, Primed DEF Waits, HO!Wait
    <2> QED BY <1>2, <2>1 DEF Waits, Handover, Usable, HO!Next
  <1> QED BY <1>1, <1>2

\* A waiting action is cancelled.
LEMMA RefuseStep ==
  ASSUME Request(s) = "waiting", Request(s') = "none", Holder(s') = Holder(s),
         AtBoundary(s') = AtBoundary(s), s'.owner = s.owner
  PROVE  Handover
  <1>1. HO!Refuse BY Primed DEF HO!Refuse
  <1> QED BY <1>1 DEF Handover, Usable, HO!Next

\* An action takes free hardware.
LEMMA AdmitStep ==
  ASSUME Holder(s) = "none", Request(s) = "none", ~AtBoundary(s), Started(s')
  PROVE  Handover
  <1>1. HO!Admit BY Primed DEF Started, HO!Admit
  <1> QED BY <1>1 DEF Started, Handover, HO!Next

\* A scan leaves its tail behind, for which the next action may wait.
LEMMA DetachStep ==
  ASSUME Holder(s) = "action", s.owner # "none", NEW c, Holder(c) = "background",
         Request(c) = "none", AtBoundary(c) = AtBoundary(s), Waits(c, s')
  PROVE  Handover
  <1>1. HO!Detach BY Primed DEF Waits, Same, HO!Detach
  <1> QED BY <1>1 DEF Handover, HO!Next

\* A suspended session is closed.
LEMMA ReachFreeStep ==
  ASSUME Holder(s) = "none", Request(s) = "none", AtBoundary(s), Reached(s')
  PROVE  Handover
  <1>0. Usable(s') BY DEF Reached, Usable
  <1>1. CASE Holder(s') = "session"
    <2>1. HO!Enter BY <1>1, Primed DEF Reached, HO!Enter
    <2> QED BY <1>0, <2>1 DEF Handover, HO!Next
  <1>2. CASE Holder(s') = "none"
    <2>1. HO!CloseSuspended BY <1>2, Primed DEF Reached, HO!CloseSuspended
    <2> QED BY <1>0, <2>1 DEF Handover, HO!Next
  <1> QED BY <1>1, <1>2 DEF Reached

\* An owner lets go and settle chooses the next one.
LEMMA SettledStep ==
  ASSUME NEW joined \in BOOLEAN, NEW pending, AtBoundary(s) = joined,
         Holder(s) \in {"background", "action"},
         pending => \/ Holder(s) = "background" /\ Request(s) = "waiting"
                    \/ Holder(s) = "action" /\ Request(s) = "running",
         SettledTo(joined, pending, s')
  PROVE  Handover
  <1>0. s.owner = "none" => Usable(s')
    BY DEF SettledTo, HandedOn, Reached, Released, Started, Usable
  <1>1. CASE joined
    <2>1. HO!Join BY <1>1, Primed DEF SettledTo, HandedOn, Reached, HO!Join
    <2> QED BY <1>0, <2>1 DEF Handover, HO!Next
  <1>2. CASE ~joined /\ Released(s')
    <2>1. HO!Release BY <1>2, Primed DEF Released, HO!Release
    <2> QED BY <1>0, <2>1 DEF Handover, HO!Next
  <1>3. CASE ~joined /\ pending /\ Started(s') /\ Holder(s) = "background"
    <2>1. HO!Admit BY <1>3, Primed DEF Started, HO!Admit
    <2> QED BY <1>0, <2>1 DEF Handover, HO!Next
  <1>4. CASE ~joined /\ pending /\ Started(s') /\ Holder(s) = "action"
    BY <1>0, <1>4, Primed DEF Started, Handover, HO!vars
  <1> QED BY <1>1, <1>2, <1>3, <1>4 DEF SettledTo, HandedOn

\* Session work ends, and background work may follow ...
LEMMA LeaveStep ==
  ASSUME Holder(s) = "session", Released(s')
  PROVE  Handover
  <1>1. HO!Leave BY Primed DEF Released, HO!Leave
  <1> QED BY <1>1 DEF Released, Handover, HO!Next

\* ... or an open begins again ...
LEMMA RetryStep ==
  ASSUME Holder(s) = "session", Request(s) = "none", ~AtBoundary(s), Retried(s')
  PROVE  Handover
  BY Primed DEF Retried, Handover, Usable, HO!vars

\* ... or the session is suspended ...
LEMMA SuspendedStep ==
  ASSUME Holder(s) = "session", AtBoundary(s), SuspendedNow(s')
  PROVE  Handover
  <1>1. HO!Leave BY Primed DEF SuspendedNow, HO!Leave
  <1> QED BY <1>1 DEF SuspendedNow, Handover, Usable, HO!Next

\* ... or it ends at a boundary, or goes on behind it.
LEMMA ReachStep ==
  ASSUME Holder(s) = "session", Request(s) = "none", AtBoundary(s), Reached(s')
  PROVE  Handover
  <1>0. Usable(s') BY DEF Reached, Usable
  <1>1. CASE Holder(s') = "session" BY <1>0, <1>1, Primed DEF Reached, Handover, HO!vars
  <1>2. CASE Holder(s') = "none"
    <2>1. HO!Leave BY <1>2, Primed DEF Reached, HO!Leave
    <2> QED BY <1>0, <2>1 DEF Handover, HO!Next
  <1> QED BY <1>1, <1>2 DEF Reached

\* Free hardware that a boundary waits for: goodix_session_hardware_joined closes
\* the session or starts the power commands, and the invariant holds again.
LEMMA HardwareJoinedInv ==
  ASSUME NEW t, Free(t), t.serviceJoined # "none", t.reader = "none", ~t.actionPending
  PROVE  Inv(HardwareJoined(t)) /\ Reached(HardwareJoined(t))
  <1> DEFINE v == [t EXCEPT !.serviceJoined = "none", !.serviceDraining = FALSE]
             u == HardwareJoined(t)
  <1>0. SessionState(t) BY DEF Free
  <1>1. SessionState(v) BY <1>0 DEF SessionState
  <1>2. CASE t.serviceJoined = "close"
    <2>1. v.action = "close" /\ ~v.answered /\ ~v.transport /\ v.asserts = TRUE /\ v.reader = "none"
      BY <1>2 DEF Free, SessionState
    <2>a. u = CloseJoined(v) BY <1>2 DEF HardwareJoined
    <2> HIDE DEF v
    <2>2. CloseJoined(v) =
               [v EXCEPT !.asserts = TRUE, !.cancel = "none", !.sessionCancel = "none",
                 !.sessionSuspended = FALSE, !.sessionOpen = FALSE, !.isOpen = FALSE,
                 !.answered = TRUE, !.cancelDue = FALSE]
      BY <1>1, <2>1, ZenonT(60) DEF SessionState, CloseJoined, Complete, Invalidate, Assert
    <2> HIDE DEF u
    <2>3. SessionState(u) BY <1>1, <2>a, <2>2 DEF SessionState
    <2>b. u = [t EXCEPT !.serviceJoined = "none", !.serviceDraining = FALSE,
                 !.asserts = TRUE, !.cancel = "none", !.sessionCancel = "none",
                 !.sessionSuspended = FALSE, !.sessionOpen = FALSE, !.isOpen = FALSE,
                 !.answered = TRUE, !.cancelDue = FALSE]
      BY <1>0, <2>a, <2>2 DEF SessionState, v
    <2>4. Ownership(u) BY <2>b DEF Free, SessionState, Ownership
    <2>5. Phases(u) BY <1>2, <2>b DEF Free, SessionState, Phases
    <2>6. Requests(u) BY <1>2, <2>b DEF Free, SessionState, Requests, Actions, Boundaries
    <2>7. Quiet(u) BY <2>b DEF Free, SessionState, Quiet
    <2>8. Reached(u) BY <1>2, <2>b DEF Free, Reached, SessionState, Holder, Request, AtBoundary, SessionWork
    <2> QED BY <2>3, <2>4, <2>5, <2>6, <2>7, <2>8 DEF Inv, u
  <1>3. CASE t.serviceJoined = "suspend"
    <2>2. u = [v EXCEPT !.reader = "pending", !.sessionCancel = "live", !.task = "power", !.transport = TRUE]
      BY <1>0, <1>3, ZenonT(60)
        DEF SessionState, HardwareJoined, SuspendServiceJoined, Command, StartReader
    <2> HIDE DEF u
    <2>3. SessionState(u) BY <1>1, <2>2 DEF SessionState
    <2>4. Ownership(u) BY <2>2 DEF Free, SessionState, Ownership
    <2>5. Phases(u) BY <1>3, <2>2 DEF Free, SessionState, Phases
    <2>6. Requests(u) BY <1>3, <2>2 DEF Free, SessionState, Requests, Actions, Boundaries
    <2>7. Quiet(u) BY <2>2 DEF Free, SessionState, Quiet
    <2>8. Reached(u) BY <1>3, <2>2 DEF Free, Reached, SessionState, Holder, Request, AtBoundary, SessionWork
    <2> QED BY <2>3, <2>4, <2>5, <2>6, <2>7, <2>8 DEF Inv, u
  <1> QED BY <1>0, <1>2, <1>3 DEF SessionState

\* goodix_session_settle with no action waiting: the boundary is joined, the
\* background service starts, or the hardware stays free.
LEMMA SettleIdleInv ==
  ASSUME NEW t, Free(t), ~t.actionPending, ~t.serviceDraining
  PROVE  Inv(SettleIdle(t)) /\ HandedOn(t.serviceJoined # "none", SettleIdle(t))
  <1> DEFINE u == SettleIdle(t)
  <1>0. SessionState(t) BY DEF Free
  <1>1. CASE t.serviceJoined # "none" /\ t.reader = "pending"
    <2>1. u = [t EXCEPT !.serviceDraining = TRUE, !.asserts = TRUE, !.joiner = "session"]
      BY <1>0, <1>1 DEF Free, SessionState, SettleIdle, TransportQuiesce, Assert
    <2> HIDE DEF u
    <2>2. SessionState(u) BY <1>0, <2>1 DEF SessionState
    <2>3. Ownership(u) BY <1>1, <2>1 DEF Free, SessionState, Ownership
    <2>4. Phases(u) BY <1>1, <2>1 DEF Free, SessionState, Phases
    <2>5. Requests(u) BY <1>1, <2>1 DEF Free, SessionState, Requests, Actions, Boundaries
    <2>6. Quiet(u) BY <1>1, <2>1 DEF Free, SessionState, Quiet
    <2>8. HandedOn(t.serviceJoined # "none", u)
      BY <1>1, <2>1 DEF Free, HandedOn, Reached, Released, Usable, MayService,
         SessionState, Holder, Request, AtBoundary, SessionWork
    <2> QED BY <2>2, <2>3, <2>4, <2>5, <2>6, <2>8 DEF Inv, u
  <1>2. CASE t.serviceJoined # "none" /\ t.reader # "pending"
    <2> DEFINE v == [t EXCEPT !.serviceDraining = TRUE, !.asserts = TRUE, !.reader = "none"]
    <2>1. u = HardwareJoined(v)
      BY <1>0, <1>2 DEF Free, SessionState, SettleIdle, TransportQuiesce, Assert
    <2>2. SessionState(v) BY <1>0 DEF SessionState
    <2>3. Free(v) BY <1>0, <1>2, <2>2 DEF Free, SessionState
    <2>4. v.serviceJoined # "none" /\ v.reader = "none" /\ ~v.actionPending
      BY <1>0, <1>2 DEF SessionState
    <2> HIDE DEF u, v
    <2> QED BY <1>2, <2>1, <2>3, <2>4, HardwareJoinedInv DEF u, HandedOn
  <1>4. CASE t.serviceJoined = "none" /\ ~MayService(t)
    <2>1. u = t BY <1>4 DEF SettleIdle
    <2> HIDE DEF u
    <2>3. Ownership(u) BY <1>4, <2>1 DEF Free, SessionState, Ownership
    <2>4. Phases(u) BY <1>4, <2>1 DEF Free, SessionState, Phases
    <2>5. Requests(u) BY <1>4, <2>1 DEF Free, SessionState, Requests, Actions, Boundaries
    <2>6. Quiet(u) BY <1>4, <2>1 DEF Free, SessionState, Quiet
    <2>8. HandedOn(t.serviceJoined # "none", u)
      BY <1>4, <2>1 DEF Free, HandedOn, Reached, Released, Usable, MayService,
         SessionState, Holder, Request, AtBoundary, SessionWork
    <2> QED BY <1>0, <2>1, <2>3, <2>4, <2>5, <2>6, <2>8 DEF Inv, u
  <1>5. CASE t.serviceJoined = "none" /\ MayService(t) /\ t.reader = "failed"
    <2>1. u = [t EXCEPT !.asserts = TRUE, !.needsReinit = TRUE]
      BY <1>0, <1>5 DEF Free, SessionState, SettleIdle, StartService, Assert
    <2> HIDE DEF u
    <2>2. SessionState(u) BY <1>0, <2>1 DEF SessionState
    <2>3. Ownership(u) BY <1>5, <2>1 DEF Free, SessionState, Ownership
    <2>4. Phases(u) BY <1>5, <2>1 DEF Free, SessionState, Phases
    <2>5. Requests(u) BY <1>5, <2>1 DEF Free, SessionState, Requests, Actions, Boundaries
    <2>6. Quiet(u) BY <1>5, <2>1 DEF Free, SessionState, Quiet
    <2>8. HandedOn(t.serviceJoined # "none", u)
      BY <1>5, <2>1 DEF Free, HandedOn, Reached, Released, Usable, MayService,
         SessionState, Holder, Request, AtBoundary, SessionWork
    <2> QED BY <2>2, <2>3, <2>4, <2>5, <2>6, <2>8 DEF Inv, u
  <1>6. CASE t.serviceJoined = "none" /\ MayService(t) /\ t.reader # "failed"
    <2>1. u = [t EXCEPT !.asserts = TRUE, !.reader = "pending", !.serviceActive = TRUE,
                 !.owner = "service", !.stopRequested = FALSE, !.transport = TRUE]
      BY <1>0, <1>6, ZenonT(60)
        DEF Free, SessionState, SettleIdle, StartService, Assert, Command, StartReader
    <2> HIDE DEF u
    <2>2. SessionState(u) BY <1>0, <2>1 DEF SessionState
    <2>3. Ownership(u) BY <1>6, <2>1 DEF Free, SessionState, Ownership, MayService
    <2>4. Phases(u) BY <1>6, <2>1 DEF Free, SessionState, Phases
    <2>5. Requests(u) BY <1>6, <2>1 DEF Free, SessionState, Requests, Actions, Boundaries
    <2>6. Quiet(u) BY <1>6, <2>1 DEF Free, SessionState, Quiet, MayService
    <2>8. HandedOn(t.serviceJoined # "none", u)
      BY <1>6, <2>1 DEF Free, HandedOn, Reached, Released, Usable, MayService,
         SessionState, Holder, Request, AtBoundary, SessionWork
    <2> QED BY <2>2, <2>3, <2>4, <2>5, <2>6, <2>8 DEF Inv, u
  <1> HIDE DEF u
  <1>7. t.serviceJoined \in {"none", "close", "suspend"} /\ t.reader \in {"none", "pending", "failed"}
    BY <1>0 DEF SessionState
  <1> QED BY <1>1, <1>2, <1>4, <1>5, <1>6, <1>7 DEF u

\* An admitted action takes free hardware, directly or behind a reader join.
LEMMA StartForegroundInv ==
  ASSUME NEW t, Free(t), t.actionPending, ~t.serviceDraining, t.serviceJoined = "none",
         ~t.sessionSuspended
  PROVE  LET u == StartForeground([t EXCEPT !.actionPending = FALSE])
         IN  Inv(u) /\ u.foregroundActive /\ Started(u)
  <1> DEFINE u == StartForeground([t EXCEPT !.actionPending = FALSE])
  <1>0. SessionState(t) BY DEF Free
  <1>1. CASE t.needsReinit /\ t.reader = "pending"
    <2>1. u = [t EXCEPT !.actionPending = FALSE, !.foregroundActive = TRUE, !.cancel = "live",
                 !.asserts = TRUE, !.joiner = "reinit"]
      BY <1>0, <1>1 DEF Free, SessionState, StartForeground, TransportQuiesce, Assert
    <2> HIDE DEF u
    <2>2. SessionState(u) BY <1>0, <2>1 DEF SessionState
    <2>3. Ownership(u) BY <2>1 DEF Free, SessionState, Ownership
    <2>4. Phases(u) BY <2>1 DEF Free, SessionState, Phases
    <2>5. Requests(u) BY <2>1 DEF Free, SessionState, Requests, Actions, Boundaries
    <2>6. Quiet(u) BY <1>1, <2>1 DEF Free, SessionState, Quiet
    <2>7. u.foregroundActive BY <1>0, <2>1 DEF SessionState
    <2>8. Started(u)
      BY <1>1, <2>1 DEF Free, Started, Usable,
         SessionState, Holder, Request, AtBoundary, SessionWork
    <2> QED BY <2>2, <2>3, <2>4, <2>5, <2>6, <2>7, <2>8 DEF Inv, u
  <1>2. CASE t.needsReinit /\ t.reader # "pending"
    <2>1. u = [t EXCEPT !.actionPending = FALSE, !.foregroundActive = TRUE, !.cancel = "live",
                 !.asserts = TRUE, !.reader = "none", !.recovered = FALSE]
      BY <1>0, <1>2, ZenonT(60)
        DEF Free, SessionState, StartForeground, TransportQuiesce, Assert, ReinitIdleJoined, Invalidate
    <2> HIDE DEF u
    <2>2. SessionState(u) BY <1>0, <2>1 DEF SessionState
    <2>3. Ownership(u) BY <2>1 DEF Free, SessionState, Ownership
    <2>4. Phases(u) BY <2>1 DEF Free, SessionState, Phases
    <2>5. Requests(u) BY <2>1 DEF Free, SessionState, Requests, Actions, Boundaries
    <2>6. Quiet(u) BY <2>1 DEF Free, SessionState, Quiet
    <2>7. u.foregroundActive BY <1>0, <2>1 DEF SessionState
    <2>8. Started(u)
      BY <1>2, <2>1 DEF Free, Started, Usable,
         SessionState, Holder, Request, AtBoundary, SessionWork
    <2> QED BY <2>2, <2>3, <2>4, <2>5, <2>6, <2>7, <2>8 DEF Inv, u
  <1>3. CASE ~t.needsReinit
    <2>1. u = [t EXCEPT !.actionPending = FALSE, !.foregroundActive = TRUE, !.cancel = "live",
                 !.asserts = TRUE, !.owner = "scan", !.stopRequested = FALSE,
                 !.reader = IF @ = "none" THEN "pending" ELSE @, !.transport = TRUE]
      BY <1>0, <1>3 DEF Free, SessionState, StartForeground, BeginScan, Command, StartReader, Assert
    <2> HIDE DEF u
    <2>2. SessionState(u) BY <1>0, <2>1 DEF SessionState
    <2>3. Ownership(u) BY <2>1 DEF Free, SessionState, Ownership
    <2>4. Phases(u) BY <2>1 DEF Free, SessionState, Phases
    <2>5. Requests(u) BY <2>1 DEF Free, SessionState, Requests, Actions, Boundaries
    <2>6. Quiet(u) BY <2>1 DEF Free, SessionState, Quiet
    <2>7. u.foregroundActive BY <1>0, <2>1 DEF SessionState
    <2>8. Started(u)
      BY <1>3, <2>1 DEF Free, Started, Usable,
         SessionState, Holder, Request, AtBoundary, SessionWork
    <2> QED BY <2>2, <2>3, <2>4, <2>5, <2>6, <2>7, <2>8 DEF Inv, u
  <1> QED BY <1>1, <1>2, <1>3

\* settle changes nothing while an owner is active or a join is under way.
LEMMA SettleBusy ==
  ASSUME NEW t, t.foregroundActive \/ t.serviceActive \/ t.serviceDraining
  PROVE  Settle(t) = t
  BY DEF Settle

\* goodix_session_settle restores the invariant from free hardware.
LEMMA SettleInv ==
  ASSUME NEW t, Free(t), ~t.serviceDraining
  PROVE  /\ Inv(Settle(t))
         /\ SettledTo(t.serviceJoined # "none", t.actionPending, Settle(t))
  <1> DEFINE v == [t EXCEPT !.actionPending = FALSE]
  <1>0. SessionState(t) BY DEF Free
  <1>a. ~(t.foregroundActive \/ t.serviceActive \/ t.serviceDraining) BY DEF Free
  <1>1. CASE ~t.actionPending
    BY <1>1, SettleIdleInv DEF Settle, Free, SettledTo
  <1>2. CASE t.actionPending /\ ~RefusePending(t)
    <2>1. Settle(t) = StartForeground(v) BY <1>2, <1>a DEF Settle
    <2>2. t.serviceJoined = "none" /\ ~t.sessionSuspended
      BY <1>0, <1>2 DEF RefusePending, SessionState
    <2> QED BY <1>2, <2>1, <2>2, StartForegroundInv DEF SettledTo
  <1>3. CASE t.actionPending /\ RefusePending(t)
    <2> DEFINE w == Complete(v)
    <2>1. Settle(t) = SettleIdle(w) BY <1>3, <1>a DEF Settle
    <2>2. w = [t EXCEPT !.actionPending = FALSE, !.asserts = TRUE, !.answered = TRUE,
                        !.cancelDue = FALSE]
      BY <1>0, <1>3, ZenonT(60) DEF Complete, Assert, Free, SessionState
    <2> HIDE DEF v, w
    <2>3. SessionState(w) BY <1>0, <2>2 DEF SessionState
    <2>4. Free(w) BY <1>3, <2>2, <2>3 DEF Free, SessionState
    <2>5. ~w.actionPending /\ ~w.serviceDraining /\ w.serviceJoined = t.serviceJoined
      BY <1>0, <2>2 DEF SessionState
    <2> QED BY <2>1, <2>4, <2>5, SettleIdleInv DEF SettledTo
  <1> QED BY <1>1, <1>2, <1>3

\* Revoking a cancellable yields a cancellable.
LEMMA RevokeType ==
  ASSUME NEW c \in {"none", "live", "cancelled"}
  PROVE  Revoke(c) \in {"none", "live", "cancelled"}
  BY DEF Revoke

\* goodix_session_quiesce: whoever holds the hardware, asking for a boundary
\* keeps the invariant.
LEMMA QuiesceInv ==
  ASSUME NEW t, NEW who \in {"close", "suspend"},
         SessionState(t), Ownership(t), Phases(t), Quiet(t), Actions(t),
         Boundaries([t EXCEPT !.serviceJoined = who]), t.serviceJoined = "none",
         t.sessionOpen, t.task = "none", t.joiner \in {"none", "reinit"}
  PROVE  Inv(Quiesce(t, who)) /\ Asked(t, Quiesce(t, who))
  <1> DEFINE u == Quiesce(t, who)
             b == [t EXCEPT !.serviceJoined = who]
  <1>0. t.asserts = TRUE /\ ~t.serviceDraining BY DEF Quiet, Phases, SessionState
  <1>1. CASE t.serviceActive
    <2>0. t.owner # "none" /\ ~t.foregroundActive BY <1>1 DEF Ownership
    <2>1. u = [t EXCEPT !.asserts = TRUE, !.serviceJoined = who,
                        !.sessionCancel = Revoke(@), !.stopRequested = TRUE]
      BY <1>0, <1>1, <2>0, ZenonT(60) DEF Quiesce, JoinService, RequestStop, Assert, SessionState
    <2> HIDE DEF u
    <2>a. /\ Revoke(t.sessionCancel) \in {"none", "live", "cancelled"}
          /\ Revoke(t.cancel) \in {"none", "live", "cancelled"}
      BY RevokeType DEF SessionState
    <2>2. SessionState(u) BY <2>1, <2>a, ZenonT(60) DEF SessionState
    <2>3. Ownership(u) BY <2>1 DEF SessionState, Ownership
    <2>4. Phases(u) BY <1>1, <2>1 DEF SessionState, Phases
    <2>5. Actions(u) BY <2>1 DEF SessionState, Actions
    <2>6. Boundaries(u) BY <2>1 DEF SessionState, Boundaries
    <2>7. Quiet(u) BY <2>1 DEF SessionState, Quiet
    <2>8. Asked(t, u)
      BY <1>0, <1>1, <2>1 DEF Ownership, Asked, SessionState, Holder, Request, AtBoundary, SessionWork
    <2> QED BY <2>2, <2>3, <2>4, <2>5, <2>6, <2>7, <2>8 DEF Inv, Requests, u
  <1>2. CASE t.foregroundActive
    <2>0. ~t.serviceActive /\ t.action # "none" /\ ~t.answered BY <1>2 DEF Ownership, Actions
    <2> DEFINE due == t.cancelDue \/ ~t.cancelled
               stop == t.stopRequested \/ t.owner # "none"
    <2>1. u = [t EXCEPT !.asserts = TRUE, !.serviceJoined = who,
                        !.sessionCancel = Revoke(@), !.cancelled = TRUE, !.cancel = Revoke(@),
                        !.cancelDue = due, !.stopRequested = stop]
      BY <1>0, <1>2, <2>0, ZenonT(60) DEF Quiesce, RequestStop, Assert, SessionState
    <2>b. due \in BOOLEAN /\ stop \in BOOLEAN OBVIOUS
    <2> DEFINE w == [t EXCEPT !.asserts = TRUE, !.serviceJoined = who,
                              !.sessionCancel = Revoke(@), !.cancel = Revoke(@)]
    <2>c. u = [w EXCEPT !.cancelled = TRUE, !.cancelDue = due, !.stopRequested = stop]
      BY <2>1, ZenonT(60) DEF SessionState
    <2> HIDE DEF u, due, stop
    <2>a. /\ Revoke(t.sessionCancel) \in {"none", "live", "cancelled"}
          /\ Revoke(t.cancel) \in {"none", "live", "cancelled"}
      BY RevokeType DEF SessionState
    <2>d. SessionState(w) BY <2>a, ZenonT(60) DEF SessionState
    <2> HIDE DEF w
    <2>2. SessionState(u) BY <2>b, <2>c, <2>d DEF SessionState
    <2>3. Ownership(u) BY <2>1 DEF SessionState, Ownership
    <2>4. Phases(u) BY <1>2, <2>1 DEF SessionState, Phases
    <2>5. Actions(u) BY <2>0, <2>1, <2>b DEF SessionState, Actions
    <2>6. Boundaries(u) BY <2>1 DEF SessionState, Boundaries
    <2>7. Quiet(u) BY <2>1 DEF SessionState, Quiet
    <2>8. Asked(t, u)
      BY <1>0, <1>2, <2>1 DEF Ownership, Asked, SessionState, Holder, Request, AtBoundary, SessionWork
    <2> QED BY <2>2, <2>3, <2>4, <2>5, <2>6, <2>7, <2>8 DEF Inv, Requests, u
  <1>3. CASE ~t.serviceActive /\ ~t.foregroundActive
    <2> DEFINE a == [t EXCEPT !.asserts = TRUE, !.serviceJoined = who, !.sessionCancel = Revoke(@)]
    <2>1. u = Settle(a)
      BY <1>0, <1>3 DEF Quiesce, Assert, SessionState
    <2>2. SessionState(a) BY ZenonT(60) DEF SessionState, Revoke
    <2>3. t.joiner = "none" /\ t.owner = "none" BY <1>3 DEF Phases, Ownership, SessionState
    <2>4. Free(a) BY <1>3, <2>2, <2>3 DEF Free, SessionState, Boundaries, Actions, Phases, Quiet
    <2>5. ~a.serviceDraining /\ a.serviceJoined # "none" BY <1>0 DEF SessionState
    <2>6. Holder(t) = "none" /\ Request(t) = "none"
      BY <1>0, <1>3, <2>3 DEF Actions, SessionState, Holder, Request, AtBoundary, SessionWork
    <2> HIDE DEF u, a
    <2> QED BY <2>1, <2>4, <2>5, <2>6, SettleInv DEF u, SettledTo, HandedOn, Asked
  <1> QED BY <1>1, <1>2, <1>3

\* An action that arrives at a boundary is answered at once.
LEMMA AdmitRefused ==
  ASSUME NEW t, Inv(t), t.action \in {"none", "act"}, t.action = "act" => t.answered,
         t.suspendPending \/ t.sessionSuspended \/ t.serviceJoined # "none"
  PROVE  /\ AdmitAction(t) = [t EXCEPT !.asserts = TRUE, !.action = "act", !.answered = TRUE,
                                       !.cancelled = FALSE, !.cancelDue = FALSE]
         /\ Inv(AdmitAction(t)) /\ Same(t, AdmitAction(t))
  <1> DEFINE u == AdmitAction(t)
  <1>0. SessionState(t) /\ t.asserts = TRUE BY DEF Inv, Quiet, SessionState
  <1>1. u = [t EXCEPT !.asserts = TRUE, !.action = "act", !.answered = TRUE,
                      !.cancelled = FALSE, !.cancelDue = FALSE]
    BY <1>0, ZenonT(60) DEF AdmitAction, StartAction, Complete, Assert, SessionState
  <1> HIDE DEF u
  <1>2. SessionState(u) BY <1>0, <1>1 DEF SessionState
  <1>3. Ownership(u) BY <1>0, <1>1 DEF SessionState, Ownership, Inv
  <1>4. Phases(u) BY <1>0, <1>1 DEF SessionState, Phases, Boundaries, Inv, Requests
  <1>5. Actions(u) BY <1>0, <1>1 DEF SessionState, Actions, Inv, Requests
  <1>6. Boundaries(u) BY <1>0, <1>1 DEF SessionState, Boundaries, Inv, Requests
  <1>7. Quiet(u) BY <1>0, <1>1 DEF SessionState, Quiet, Inv
  <1>8. Same(t, u) BY <1>0, <1>1 DEF Same, SessionState, Holder, Request, AtBoundary, SessionWork
  <1> QED BY <1>1, <1>2, <1>3, <1>4, <1>5, <1>6, <1>7, <1>8 DEF Inv, Requests, u

\* An admitted request is well typed.
LEMMA AdmitType ==
  ASSUME NEW t, SessionState(t), NEW u,
         u = [t EXCEPT !.action = "act", !.answered = FALSE, !.cancelled = FALSE]
  PROVE  SessionState(u)
  BY DEF SessionState

\* An action that arrives under a background owner waits for it.
LEMMA AdmitBusy ==
  ASSUME NEW t, Inv(t), t.action \in {"none", "act"}, t.action = "act" => t.answered,
         t.serviceActive
  PROVE  Inv(AdmitAction(t)) /\ AdmitAction(t).serviceActive /\ Waits(t, AdmitAction(t))
  <1> DEFINE u == AdmitAction(t)
  <1>0. t.asserts = TRUE BY DEF Inv, Quiet, SessionState
  <1>a. SessionState(t) BY DEF Inv
  <1>1. CASE t.suspendPending \/ t.sessionSuspended \/ t.serviceJoined # "none"
    <2>1. Inv(u) /\ Waits(t, u) BY <1>1, AdmitRefused DEF Waits
    <2>2. u = [t EXCEPT !.asserts = TRUE, !.action = "act", !.answered = TRUE,
                        !.cancelled = FALSE, !.cancelDue = FALSE]
      BY <1>1, AdmitRefused
    <2> HIDE DEF u
    <2>3. u.serviceActive BY <1>a, <1>0, <2>2 DEF SessionState
    <2> QED BY <2>1, <2>3 DEF u
  <1>2. CASE ~(t.suspendPending \/ t.sessionSuspended \/ t.serviceJoined # "none")
    <2>0. t.owner # "none" BY DEF Inv, Ownership
    <2> DEFINE w == [t EXCEPT !.action = "act", !.answered = FALSE, !.cancelled = FALSE,
                              !.actionPending = TRUE]
               x == [t EXCEPT !.action = "act", !.answered = FALSE, !.cancelled = FALSE]
    <2>d. ~(x.suspendPending \/ x.sessionSuspended \/ x.serviceJoined # "none")
      BY <1>a, <1>0, <1>2 DEF SessionState
    <2>e. w = [x EXCEPT !.actionPending = TRUE] BY <1>a, <1>0 DEF SessionState
    <2>k. w.serviceActive BY <1>a DEF SessionState
    <2>f. StartAction(x) = JoinService(w) BY <2>d, <2>e, <2>k DEF StartAction
    <2>a. u = JoinService(w) BY <2>f DEF AdmitAction
    <2>b. w.asserts = TRUE /\ w.serviceActive /\ w.owner # "none"
      BY <1>a, <1>0, <2>0 DEF SessionState
    <2>h. w = [t EXCEPT !.action = "act", !.answered = FALSE, !.cancelled = FALSE,
                        !.actionPending = TRUE]
      OBVIOUS
    <2>i. x = [t EXCEPT !.action = "act", !.answered = FALSE, !.cancelled = FALSE] OBVIOUS
    <2> HIDE DEF u, w, x
    <2>j. SessionState(x) BY <1>a, <2>i, AdmitType
    <2>g. SessionState(w) BY <2>e, <2>j DEF SessionState
    <2>c. u = [w EXCEPT !.asserts = TRUE, !.stopRequested = TRUE]
      <3>1. Assert(w, w.serviceActive /\ w.owner # "none") = [w EXCEPT !.asserts = TRUE]
        BY <2>b DEF Assert
      <3>2. [w EXCEPT !.asserts = TRUE].owner = w.owner BY <2>b, <2>g DEF SessionState
      <3>3. RequestStop([w EXCEPT !.asserts = TRUE]) = [w EXCEPT !.asserts = TRUE, !.stopRequested = TRUE]
        BY <2>b, <2>g, <3>2 DEF RequestStop, SessionState
      <3> QED BY <2>a, <3>1, <3>3 DEF JoinService
    <2>2. SessionState(u) BY <2>g, <2>c DEF SessionState
    <2>1. u = [t EXCEPT !.asserts = TRUE, !.action = "act", !.answered = FALSE,
                        !.cancelled = FALSE, !.actionPending = TRUE, !.stopRequested = TRUE]
      BY <1>a, <1>0, <2>c, <2>h, ZenonT(60) DEF SessionState
    <2>3. Ownership(u) BY <1>a, <1>0, <2>1 DEF SessionState, Ownership, Inv
    <2>4. Phases(u) BY <1>a, <1>0, <2>1 DEF SessionState, Phases, Ownership, Inv
    <2>5. Actions(u) BY <1>a, <1>0, <2>1 DEF SessionState, Actions, Inv, Requests
    <2>6. Boundaries(u) BY <1>a, <1>0, <1>2, <2>1 DEF SessionState, Boundaries, Inv, Requests
    <2>7. Quiet(u) BY <1>a, <1>0, <2>1 DEF SessionState, Quiet, Inv
    <2>8. u.serviceActive BY <1>a, <1>0, <2>1 DEF SessionState
    <2>9. Waits(t, u)
      BY <1>a, <1>0, <1>2, <2>1 DEF Waits, Ownership, Inv,
         SessionState, Holder, Request, AtBoundary, SessionWork
    <2> QED BY <2>2, <2>3, <2>4, <2>5, <2>6, <2>7, <2>8, <2>9 DEF Inv, Requests, u
  <1> QED BY <1>1, <1>2

\* An action that arrives at free hardware is settled at once, or refused.
LEMMA AdmitFree ==
  ASSUME NEW t, Free(t), ~t.serviceDraining, t.action \in {"none", "act"},
         t.action = "act" => t.answered
  PROVE  /\ Inv(Settle(AdmitAction(t)))
         /\ SettledTo(t.serviceJoined # "none", TRUE, Settle(AdmitAction(t)))
         /\ \/ t.suspendPending \/ t.sessionSuspended \/ t.serviceJoined # "none"
            \/ Inv(AdmitAction(t)) /\ Started(AdmitAction(t))
  <1> DEFINE u == AdmitAction(t)
  <1>0. SessionState(t) BY DEF Free
  <1>1. CASE t.suspendPending \/ t.sessionSuspended \/ t.serviceJoined # "none"
    <2>1. u = [t EXCEPT !.asserts = TRUE, !.action = "act", !.answered = TRUE,
                        !.cancelled = FALSE, !.cancelDue = FALSE]
      BY <1>0, <1>1, ZenonT(60) DEF Free, AdmitAction, StartAction, Complete, Assert, SessionState
    <2> HIDE DEF u
    <2>2. SessionState(u) BY <1>0, <2>1 DEF SessionState
    <2>3. Free(u) BY <2>1, <2>2 DEF Free, SessionState
    <2>4. ~u.serviceDraining /\ u.serviceJoined = t.serviceJoined
      BY <1>0, <2>1 DEF SessionState
    <2> QED BY <1>1, <2>3, <2>4, SettleInv DEF u, SettledTo
  <1>2. CASE ~(t.suspendPending \/ t.sessionSuspended \/ t.serviceJoined # "none")
    <2> DEFINE v == [t EXCEPT !.action = "act", !.answered = FALSE,
                              !.cancelled = FALSE, !.actionPending = TRUE]
    <2>1. u = Settle(v)
      BY <1>0, <1>2 DEF Free, AdmitAction, StartAction, SessionState
    <2>2. SessionState(v) BY <1>0 DEF SessionState
    <2>3. Free(v) BY <1>2, <2>2 DEF Free, SessionState
    <2>4. /\ v.actionPending /\ ~v.serviceDraining /\ v.serviceJoined = "none"
          /\ ~v.sessionSuspended /\ ~RefusePending(v)
          /\ ~(v.foregroundActive \/ v.serviceActive)
      BY <1>0, <1>2 DEF Free, SessionState, RefusePending
    <2> HIDE DEF v
    <2>5. u = StartForeground([v EXCEPT !.actionPending = FALSE]) BY <2>1, <2>4 DEF Settle
    <2>6. Inv(u) /\ u.foregroundActive /\ Started(u) BY <2>3, <2>4, <2>5, StartForegroundInv
    <2> QED BY <1>2, <2>6, SettleBusy DEF SettledTo
  <1> QED BY <1>1, <1>2

\* open starts the open state machine of a closed device.
LEMMA OpenInv ==
  ASSUME IInv, Open
  PROVE  IInv' /\ Handover
  <1>0. SessionState(s) BY DEF IInv, Inv
  <1>o. Ownership(s) BY DEF IInv, Inv
  <1>p. Phases(s) BY DEF IInv, Inv
  <1>a. Actions(s) BY DEF IInv, Inv, Requests
  <1>b. Boundaries(s) BY DEF IInv, Inv, Requests
  <1>q. Quiet(s) BY DEF IInv, Inv
  <1>g. /\ s.action = "none" /\ ~s.isOpen /\ ~s.isSuspended /\ s.power = "none"
    BY DEF Open
  <1>1. s' = [s EXCEPT !.action = "open", !.recovered = FALSE,
                        !.sessionCancel = "live", !.sessionSuspended = FALSE,
                        !.suspendPending = FALSE, !.cancel = "live", !.task = "open"]
    BY <1>0 DEF SessionState, Open, StartOpenSsm
  <1>2. SessionState(s') BY <1>0, <1>1 DEF SessionState
  <1>3. Ownership(s') BY <1>0, <1>1, <1>o, <1>p, <1>g DEF SessionState, Ownership, Phases
  <1>4. Phases(s') BY <1>0, <1>1, <1>p, <1>b, <1>a, <1>g DEF SessionState, Phases, Boundaries, Actions
  <1>5. Actions(s') BY <1>0, <1>1, <1>a, <1>g DEF SessionState, Actions
  <1>6. Boundaries(s') BY <1>0, <1>1, <1>b, <1>p, <1>a, <1>g DEF SessionState, Boundaries, Phases, Actions
  <1>7. Quiet(s') BY <1>0, <1>1, <1>q, <1>p, <1>b, <1>g DEF SessionState, Quiet, Phases, Boundaries
  <1>8. /\ Holder(s) = "none" /\ Holder(s') = "session" /\ s'.owner = "none"
        /\ Request(s') = Request(s) /\ AtBoundary(s') = AtBoundary(s)
    BY <1>0, <1>1, <1>o, <1>p, <1>b, <1>a, <1>g
    DEF Ownership, Phases, Boundaries, Actions, SessionState, Holder, Request, AtBoundary, SessionWork
  <1> QED BY <1>2, <1>3, <1>4, <1>5, <1>6, <1>7, <1>8, EnterStep DEF IInv, Inv, Requests

\* The core queues the cancel method of an unanswered action.
LEMMA UserCancelInv ==
  ASSUME IInv, UserCancel
  PROVE  IInv' /\ Handover
  <1>0. SessionState(s) BY DEF IInv, Inv
  <1>o. Ownership(s) BY DEF IInv, Inv
  <1>p. Phases(s) BY DEF IInv, Inv
  <1>a. Actions(s) BY DEF IInv, Inv, Requests
  <1>b. Boundaries(s) BY DEF IInv, Inv, Requests
  <1>q. Quiet(s) BY DEF IInv, Inv
  <1>g. s.action # "none" /\ ~s.answered
    BY DEF UserCancel
  <1>1. s' = [s EXCEPT !.cancelled = TRUE, !.cancelDue = TRUE]
    BY <1>0 DEF SessionState, UserCancel
  <1>2. SessionState(s') BY <1>0, <1>1 DEF SessionState
  <1>3. Ownership(s') BY <1>0, <1>1, <1>o, <1>g DEF SessionState, Ownership
  <1>4. Phases(s') BY <1>0, <1>1, <1>p, <1>g DEF SessionState, Phases
  <1>5. Actions(s') BY <1>0, <1>1, <1>a, <1>g DEF SessionState, Actions
  <1>6. Boundaries(s') BY <1>0, <1>1, <1>b, <1>g DEF SessionState, Boundaries
  <1>7. Quiet(s') BY <1>0, <1>1, <1>q, <1>g DEF SessionState, Quiet
  <1>8. Same(s, s')
    BY <1>0, <1>1
    DEF Same, SessionState, Holder, Request, AtBoundary, SessionWork
  <1> QED BY <1>2, <1>3, <1>4, <1>5, <1>6, <1>7, <1>8, SameStep DEF IInv, Inv, Requests

\* A transport operation starts, with the reader.
LEMMA StartOperationInv ==
  ASSUME IInv, StartOperation
  PROVE  IInv' /\ Handover
  <1>0. SessionState(s) BY DEF IInv, Inv
  <1>o. Ownership(s) BY DEF IInv, Inv
  <1>p. Phases(s) BY DEF IInv, Inv
  <1>a. Actions(s) BY DEF IInv, Inv, Requests
  <1>b. Boundaries(s) BY DEF IInv, Inv, Requests
  <1>q. Quiet(s) BY DEF IInv, Inv
  <1>g. HardwareUser(s)
    BY DEF StartOperation
  <1>1. s' = [s EXCEPT !.reader = IF @ = "none" THEN "pending" ELSE @, !.transport = TRUE]
    BY <1>0 DEF SessionState, StartOperation, Command, StartReader
  <1>2. SessionState(s') BY <1>0, <1>1 DEF SessionState
  <1>3. Ownership(s') BY <1>0, <1>1, <1>o, <1>g DEF SessionState, Ownership
  <1>4. Phases(s') BY <1>0, <1>1, <1>p, <1>g DEF SessionState, Phases
  <1>5. Actions(s') BY <1>0, <1>1, <1>a, <1>g DEF SessionState, Actions
  <1>6. Boundaries(s') BY <1>0, <1>1, <1>b, <1>g DEF SessionState, Boundaries
  <1>7. Quiet(s') BY <1>0, <1>1, <1>q, <1>o, <1>p, <1>g DEF SessionState, Quiet, Ownership, Phases, HardwareUser
  <1>8. Same(s, s')
    BY <1>0, <1>1
    DEF Same, SessionState, Holder, Request, AtBoundary, SessionWork
  <1> QED BY <1>2, <1>3, <1>4, <1>5, <1>6, <1>7, <1>8, SameStep DEF IInv, Inv, Requests

\* A transport operation completes.
LEMMA OperationDoneInv ==
  ASSUME IInv, OperationDone
  PROVE  IInv' /\ Handover
  <1>0. SessionState(s) BY DEF IInv, Inv
  <1>o. Ownership(s) BY DEF IInv, Inv
  <1>p. Phases(s) BY DEF IInv, Inv
  <1>a. Actions(s) BY DEF IInv, Inv, Requests
  <1>b. Boundaries(s) BY DEF IInv, Inv, Requests
  <1>q. Quiet(s) BY DEF IInv, Inv
  <1>1. s' = [s EXCEPT !.transport = FALSE]
    BY <1>0 DEF SessionState, OperationDone
  <1>2. SessionState(s') BY <1>0, <1>1 DEF SessionState
  <1>3. Ownership(s') BY <1>0, <1>1, <1>o DEF SessionState, Ownership
  <1>4. Phases(s') BY <1>0, <1>1, <1>p DEF SessionState, Phases
  <1>5. Actions(s') BY <1>0, <1>1, <1>a DEF SessionState, Actions
  <1>6. Boundaries(s') BY <1>0, <1>1, <1>b DEF SessionState, Boundaries
  <1>7. Quiet(s') BY <1>0, <1>1, <1>q DEF SessionState, Quiet
  <1>8. Same(s, s')
    BY <1>0, <1>1
    DEF Same, SessionState, Holder, Request, AtBoundary, SessionWork
  <1> QED BY <1>2, <1>3, <1>4, <1>5, <1>6, <1>7, <1>8, SameStep DEF IInv, Inv, Requests

\* close quiesces an open session, or a suspended one.
LEMMA CloseInv ==
  ASSUME IInv, Close
  PROVE  IInv' /\ Handover
  <1>0. SessionState(s) BY DEF IInv, Inv
  <1>o. Ownership(s) BY DEF IInv, Inv
  <1>p. Phases(s) BY DEF IInv, Inv
  <1>a. Actions(s) BY DEF IInv, Inv, Requests
  <1>b. Boundaries(s) BY DEF IInv, Inv, Requests
  <1>q. Quiet(s) BY DEF IInv, Inv
  <1>g. s.action = "none" /\ s.isOpen /\ s.power = "none"
    BY DEF Close
  <1> DEFINE t == [s EXCEPT !.action = "close"]
             b == [s EXCEPT !.action = "close", !.serviceJoined = "close"]
  <1>1. s' = Quiesce(t, "close") BY DEF Close
  <1>t. t = [s EXCEPT !.action = "close"] OBVIOUS
  <1>2. b = [t EXCEPT !.serviceJoined = "close"] OBVIOUS
  <1>c. b = [s EXCEPT !.action = "close", !.serviceJoined = "close"] OBVIOUS
  <1> HIDE DEF t, b
  <1>3. SessionState(t) BY <1>0, <1>t DEF SessionState
  <1>4. /\ s.sessionOpen /\ s.serviceJoined = "none" /\ s.task = "none"
        /\ s.joiner \in {"none", "reinit"} /\ s.asserts = TRUE
    BY <1>0, <1>p, <1>b, <1>q, <1>g DEF SessionState, Phases, Boundaries, Quiet
  <1>5. t.sessionOpen /\ t.serviceJoined = "none" /\ t.task = "none" /\ t.joiner \in {"none", "reinit"}
    BY <1>0, <1>4, <1>t DEF SessionState
  <1>6. Ownership(t) BY <1>0, <1>o, <1>t DEF SessionState, Ownership
  <1>7. Phases(t) BY <1>0, <1>p, <1>g, <1>t DEF SessionState, Phases
  <1>8. Actions(t) BY <1>0, <1>a, <1>g, <1>t DEF SessionState, Actions
  <1>9. Quiet(t) BY <1>0, <1>q, <1>t DEF SessionState, Quiet
  <1>10. CASE ~s.sessionSuspended
    <2>1. Boundaries(b) BY <1>0, <1>b, <1>a, <1>g, <1>c, <1>10 DEF SessionState, Boundaries, Actions
    <2>2. Inv(s') /\ Asked(t, s')
      BY <1>1, <1>2, <1>3, <1>5, <1>6, <1>7, <1>8, <1>9, <2>1, QuiesceInv
    <2>3. Same(s, t) BY <1>0, <1>t DEF Same, SessionState, Holder, Request, AtBoundary, SessionWork
    <2>4. ~AtBoundary(t)
      BY <1>0, <1>b, <1>p, <1>g, <1>4, <1>10, <1>t DEF SessionState, Boundaries, AtBoundary
    <2> QED BY <2>2, <2>3, <2>4, AskStep DEF IInv
  <1>11. CASE s.sessionSuspended
    <2>1. /\ ~s.serviceActive /\ ~s.foregroundActive /\ ~s.serviceDraining
          /\ ~s.actionPending /\ s.owner = "none" /\ s.joiner = "none"
      BY <1>0, <1>o, <1>p, <1>a, <1>4, <1>11 DEF SessionState, Ownership, Phases, Actions
    <2>6. ~s.transport /\ s.reader = "none" /\ s.error = "none"
      BY <1>0, <1>q, <1>4, <1>11, <2>1 DEF SessionState, Quiet
    <2> DEFINE a == [s EXCEPT !.action = "close", !.asserts = TRUE, !.serviceJoined = "close",
                              !.sessionCancel = Revoke(@)]
    <2>2. s' = Settle(a)
      BY <1>0, <1>1, <1>4, <1>t, <2>1 DEF Quiesce, Assert, SessionState
    <2>a. a = [s EXCEPT !.action = "close", !.asserts = TRUE, !.serviceJoined = "close",
                        !.sessionCancel = Revoke(@)]
      OBVIOUS
    <2>r. Revoke(s.sessionCancel) \in {"none", "live", "cancelled"}
      BY <1>0, RevokeType DEF SessionState
    <2> HIDE DEF a
    <2>3. SessionState(a) BY <1>0, <2>a, <2>r DEF SessionState
    <2>4. Free(a)
      BY <1>0, <1>p, <1>a, <1>b, <1>g, <1>4, <1>11, <2>1, <2>6, <2>a, <2>3
      DEF SessionState, Free, Phases, Actions, Boundaries
    <2>5. ~a.serviceDraining /\ a.serviceJoined # "none" BY <1>0, <2>1, <2>a DEF SessionState
    <2>7. Inv(s') /\ Reached(s')
      BY <2>2, <2>4, <2>5, SettleInv DEF SettledTo, HandedOn
    <2>8. Holder(s) = "none" /\ Request(s) = "none" /\ AtBoundary(s)
      BY <1>0, <1>4, <1>11, <2>1 DEF SessionState, Holder, Request, AtBoundary, SessionWork
    <2> QED BY <2>7, <2>8, ReachFreeStep DEF IInv
  <1> QED BY <1>10, <1>11

\* A new action is refused, waits, or starts.
LEMMA ActInv ==
  ASSUME IInv, Act
  PROVE  IInv' /\ Handover
  <1>0. SessionState(s) BY DEF IInv, Inv
  <1>o. Ownership(s) BY DEF IInv, Inv
  <1>p. Phases(s) BY DEF IInv, Inv
  <1>a. Actions(s) BY DEF IInv, Inv, Requests
  <1>b. Boundaries(s) BY DEF IInv, Inv, Requests
  <1>q. Quiet(s) BY DEF IInv, Inv
  <1>g. s.action = "none" /\ s.isOpen /\ ~s.isSuspended
    BY DEF Act
  <1>1. s' = AdmitAction(s) BY DEF Act
  <1>2. CASE s.suspendPending \/ s.sessionSuspended \/ s.serviceJoined # "none"
    BY <1>1, <1>2, <1>g, AdmitRefused, SameStep DEF IInv
  <1>3. CASE s.serviceActive
    <2>1. Holder(s) = "background" /\ Request(s) = "none"
      BY <1>0, <1>o, <1>a, <1>g, <1>3 DEF Ownership, Actions, SessionState, Holder, Request, AtBoundary, SessionWork
    <2> QED BY <1>1, <1>3, <1>g, <2>1, AdmitBusy, WaitStep DEF IInv
  <1>4. CASE ~s.serviceActive /\ ~(s.suspendPending \/ s.sessionSuspended \/ s.serviceJoined # "none")
    <2>1. /\ s.sessionOpen = TRUE /\ ~s.serviceDraining /\ s.task = "none" /\ s.power # "resuming"
          /\ ~s.foregroundActive /\ ~s.actionPending /\ s.joiner = "none" /\ s.owner = "none"
      BY <1>0, <1>o, <1>p, <1>a, <1>b, <1>g, <1>4
      DEF SessionState, Ownership, Phases, Actions, Boundaries
    <2>2. ~s.transport /\ s.error = "none" /\ s.asserts = TRUE
      BY <1>0, <1>q, <2>1 DEF SessionState, Quiet
    <2>3. Free(s)
      BY <1>0, <1>p, <1>a, <1>b, <1>g, <1>4, <2>1, <2>2
      DEF SessionState, Free, Phases, Actions, Boundaries
    <2>4. Holder(s) = "none" /\ Request(s) = "none" /\ ~AtBoundary(s)
      BY <1>0, <1>4, <2>1 DEF SessionState, Holder, Request, AtBoundary, SessionWork
    <2> QED BY <1>1, <1>4, <1>g, <2>1, <2>3, <2>4, AdmitFree, AdmitStep DEF IInv
  <1> QED BY <1>2, <1>3, <1>4

\* A suspend reaches the driver, is deferred, or completes at once.
LEMMA DispatchInv ==
  ASSUME NEW t, SessionState(t), Ownership(t), Phases(t), Actions(t), Quiet(t),
         Boundaries([t EXCEPT !.power = "none", !.deferred = FALSE]),
         t.power = "suspending", ~t.isSuspended
  PROVE  /\ Inv(DispatchSuspend(t))
         /\ \/ Same(t, DispatchSuspend(t))
            \/ ~AtBoundary(t) /\ Asked(t, DispatchSuspend(t))
  <1> DEFINE u == DispatchSuspend(t)
             b == [t EXCEPT !.power = "none", !.deferred = FALSE]
  <1>b. /\ (t.action = "close" /\ ~t.answered) <=> t.serviceJoined = "close"
        /\ (t.action = "open" /\ ~t.answered) <=> (t.task = "open" \/ t.joiner = "open")
        /\ ~t.suspendPending /\ t.serviceJoined # "suspend" /\ t.task \notin {"power", "warm", "cold"}
        /\ t.joiner \notin {"power", "resume"}
        /\ t.sessionSuspended => t.action \in {"none", "act"} /\ t.serviceJoined = "none"
    BY DEF SessionState, Boundaries
  <1>1. CASE t.action \in {"open", "close"}
    <2>1. u = [t EXCEPT !.deferred = TRUE] BY <1>1 DEF DispatchSuspend
    <2> HIDE DEF u
    <2>2. SessionState(u) BY <2>1 DEF SessionState
    <2>3. Ownership(u) BY <2>1 DEF SessionState, Ownership
    <2>4. Phases(u) BY <2>1 DEF SessionState, Phases
    <2>5. Actions(u) BY <2>1 DEF SessionState, Actions
    <2>6. Boundaries(u) BY <1>1, <1>b, <2>1 DEF SessionState, Boundaries
    <2>7. Quiet(u) BY <2>1 DEF SessionState, Quiet
    <2>8. Same(t, u) BY <2>1 DEF Same, SessionState, Holder, Request, AtBoundary, SessionWork
    <2> QED BY <2>2, <2>3, <2>4, <2>5, <2>6, <2>7, <2>8 DEF Inv, Requests, u
  <1>2. CASE t.action \notin {"open", "close"} /\ (t.action = "act" \/ t.isOpen)
    <2> DEFINE v == [t EXCEPT !.deferred = FALSE, !.suspendPending = TRUE]
               c == [v EXCEPT !.serviceJoined = "suspend"]
    <2>1. u = Quiesce(v, "suspend")
      BY <1>2 DEF DispatchSuspend, SuspendVfunc, SessionState
    <2>v. v = [t EXCEPT !.deferred = FALSE, !.suspendPending = TRUE] OBVIOUS
    <2>c. c = [t EXCEPT !.deferred = FALSE, !.suspendPending = TRUE, !.serviceJoined = "suspend"]
      BY DEF SessionState
    <2>d. c = [v EXCEPT !.serviceJoined = "suspend"] OBVIOUS
    <2> HIDE DEF u, v, c
    <2>2. SessionState(v) BY <2>v DEF SessionState
    <2>3. Ownership(v) BY <2>v DEF SessionState, Ownership
    <2>4. Phases(v) BY <2>v DEF SessionState, Phases
    <2>5. Actions(v) BY <2>v DEF SessionState, Actions
    <2>6. Quiet(v) BY <2>v DEF SessionState, Quiet
    <2>7. t.sessionOpen /\ t.task = "none" /\ t.joiner \in {"none", "reinit"} /\ t.serviceJoined = "none"
          /\ ~t.sessionSuspended
      BY <1>2, <1>b DEF SessionState, Phases
    <2>8. Boundaries(c) BY <1>2, <1>b, <2>7, <2>c DEF SessionState, Boundaries
    <2>9. v.sessionOpen /\ v.task = "none" /\ v.joiner \in {"none", "reinit"} /\ v.serviceJoined = "none"
      BY <2>7, <2>v DEF SessionState
    <2>10. Inv(u) /\ Asked(v, u)
      BY <2>1, <2>d, <2>2, <2>3, <2>4, <2>5, <2>6, <2>8, <2>9, QuiesceInv DEF u
    <2>11. Holder(v) = Holder(t) /\ Request(v) = Request(t) /\ v.owner = t.owner
      BY <2>v DEF SessionState, Holder, Request, AtBoundary, SessionWork
    <2>12. ~AtBoundary(t) BY <1>b, <2>7 DEF AtBoundary
    <2> QED BY <2>10, <2>11, <2>12 DEF u, Asked
  <1>3. CASE t.action \notin {"open", "close"} /\ ~(t.action = "act" \/ t.isOpen)
    <2>1. u = [t EXCEPT !.deferred = FALSE, !.asserts = TRUE, !.power = "none", !.isSuspended = TRUE]
      BY <1>3 DEF DispatchSuspend, SuspendComplete, Assert, SessionState, Quiet
    <2> HIDE DEF u
    <2>2. SessionState(u) BY <2>1 DEF SessionState
    <2>3. Ownership(u) BY <2>1 DEF SessionState, Ownership
    <2>4. Phases(u) BY <1>3, <2>1 DEF SessionState, Phases
    <2>5. Actions(u) BY <2>1 DEF SessionState, Actions
    <2>6. Boundaries(u) BY <1>3, <1>b, <2>1 DEF SessionState, Boundaries, Phases
    <2>7. Quiet(u) BY <2>1 DEF SessionState, Quiet
    <2>8. Same(t, u) BY <2>1 DEF Same, SessionState, Holder, Request, AtBoundary, SessionWork
    <2> QED BY <2>2, <2>3, <2>4, <2>5, <2>6, <2>7, <2>8 DEF Inv, Requests, u
  <1> QED BY <1>1, <1>2, <1>3

\* The core accepts a suspend.
LEMMA SuspendInv ==
  ASSUME IInv, Suspend
  PROVE  IInv' /\ Handover
  <1>0. SessionState(s) BY DEF IInv, Inv
  <1>o. Ownership(s) BY DEF IInv, Inv
  <1>p. Phases(s) BY DEF IInv, Inv
  <1>a. Actions(s) BY DEF IInv, Inv, Requests
  <1>b. Boundaries(s) BY DEF IInv, Inv, Requests
  <1>q. Quiet(s) BY DEF IInv, Inv
  <1>g. s.power = "none" /\ ~s.isSuspended /\ ~s.deferred
    BY <1>0, <1>b DEF Suspend, SessionState, Boundaries
  <1> DEFINE t == [s EXCEPT !.power = "suspending"]
             b == [t EXCEPT !.power = "none", !.deferred = FALSE]
  <1>1. s' = DispatchSuspend(t) BY <1>0, <1>g DEF Suspend, SessionState
  <1>t. t = [s EXCEPT !.power = "suspending"] OBVIOUS
  <1>d. b = [t EXCEPT !.power = "none", !.deferred = FALSE] OBVIOUS
  <1> HIDE DEF t, b
  <1>2. SessionState(t) BY <1>0, <1>t DEF SessionState
  <1>3. Ownership(t) BY <1>0, <1>o, <1>t DEF SessionState, Ownership
  <1>4. Phases(t) BY <1>0, <1>p, <1>t DEF SessionState, Phases
  <1>5. Actions(t) BY <1>0, <1>a, <1>g, <1>t DEF SessionState, Actions
  <1>6. Quiet(t) BY <1>0, <1>q, <1>t DEF SessionState, Quiet
  <1>7. Boundaries(b) BY <1>0, <1>b, <1>g, <1>t, <1>d DEF SessionState, Boundaries
  <1>8. t.power = "suspending" /\ ~t.isSuspended BY <1>0, <1>b, <1>g, <1>t DEF SessionState, Boundaries
  <1>9. Same(s, t) BY <1>0, <1>t DEF Same, SessionState, Holder, Request, AtBoundary, SessionWork
  <1>10. Inv(s') /\ (Same(t, s') \/ (~AtBoundary(t) /\ Asked(t, s')))
    BY <1>1, <1>2, <1>3, <1>4, <1>5, <1>6, <1>7, <1>8, <1>d, DispatchInv
  <1> QED BY <1>9, <1>10, AskStep DEF IInv

\* A result is delivered and the suspend deferred behind it is dispatched.
LEMMA DeliverSuspendInv ==
  ASSUME IInv, Deliver, s.deferred
  PROVE  IInv' /\ Handover
  <1>0. SessionState(s) BY DEF IInv, Inv
  <1>o. Ownership(s) BY DEF IInv, Inv
  <1>p. Phases(s) BY DEF IInv, Inv
  <1>a. Actions(s) BY DEF IInv, Inv, Requests
  <1>b. Boundaries(s) BY DEF IInv, Inv, Requests
  <1>q. Quiet(s) BY DEF IInv, Inv
  <1>g. s.answered
    BY <1>0, <1>b DEF Deliver, SessionState, Boundaries
  <1> DEFINE t == [s EXCEPT !.action = "none", !.answered = FALSE, !.cancelled = FALSE]
             b == [t EXCEPT !.power = "none", !.deferred = FALSE]
  <1>1. s' = DispatchSuspend(t) BY <1>0, <1>g DEF Deliver, SessionState
  <1>t. t = [s EXCEPT !.action = "none", !.answered = FALSE, !.cancelled = FALSE] OBVIOUS
  <1>d. b = [t EXCEPT !.power = "none", !.deferred = FALSE] OBVIOUS
  <1> HIDE DEF t, b
  <1>2. SessionState(t) BY <1>0, <1>t, ZenonT(60) DEF SessionState
  <1>3. Ownership(t) BY <1>0, <1>o, <1>t DEF SessionState, Ownership
  <1>4. Phases(t) BY <1>0, <1>p, <1>t DEF SessionState, Phases
  <1>5. Actions(t) BY <1>0, <1>a, <1>g, <1>t DEF SessionState, Actions
  <1>6. Quiet(t) BY <1>0, <1>q, <1>t DEF SessionState, Quiet
  <1>7. Boundaries(b) BY <1>0, <1>b, <1>g, <1>t, <1>d DEF SessionState, Boundaries
  <1>8. t.power = "suspending" /\ ~t.isSuspended BY <1>0, <1>b, <1>g, <1>t DEF SessionState, Boundaries
  <1>9. Same(s, t) BY <1>0, <1>t DEF Same, SessionState, Holder, Request, AtBoundary, SessionWork
  <1>10. Inv(s') /\ (Same(t, s') \/ (~AtBoundary(t) /\ Asked(t, s')))
    BY <1>1, <1>2, <1>3, <1>4, <1>5, <1>6, <1>7, <1>8, <1>d, DispatchInv
  <1> QED BY <1>9, <1>10, AskStep DEF IInv

\* A result is delivered.
LEMMA DeliverPlainInv ==
  ASSUME IInv, Deliver, ~s.deferred
  PROVE  IInv' /\ Handover
  <1>0. SessionState(s) BY DEF IInv, Inv
  <1>o. Ownership(s) BY DEF IInv, Inv
  <1>p. Phases(s) BY DEF IInv, Inv
  <1>a. Actions(s) BY DEF IInv, Inv, Requests
  <1>b. Boundaries(s) BY DEF IInv, Inv, Requests
  <1>q. Quiet(s) BY DEF IInv, Inv
  <1>g. s.answered
    BY DEF Deliver
  <1>1. s' = [s EXCEPT !.action = "none", !.answered = FALSE, !.cancelled = FALSE]
    BY <1>0 DEF SessionState, Deliver
  <1>2. SessionState(s') BY <1>0, <1>1 DEF SessionState
  <1>3. Ownership(s') BY <1>0, <1>1, <1>o, <1>g DEF SessionState, Ownership
  <1>4. Phases(s') BY <1>0, <1>1, <1>p, <1>g DEF SessionState, Phases
  <1>5. Actions(s') BY <1>0, <1>1, <1>a, <1>g DEF SessionState, Actions
  <1>6. Boundaries(s') BY <1>0, <1>1, <1>b, <1>a, <1>g DEF SessionState, Boundaries, Actions
  <1>7. Quiet(s') BY <1>0, <1>1, <1>q, <1>g DEF SessionState, Quiet
  <1>8. Same(s, s')
    BY <1>0, <1>1
    DEF Same, SessionState, Holder, Request, AtBoundary, SessionWork
  <1> QED BY <1>2, <1>3, <1>4, <1>5, <1>6, <1>7, <1>8, SameStep DEF IInv, Inv, Requests

\* Removal of a device the driver is not using.
LEMMA RemovedIdleInv ==
  ASSUME IInv, Removed, ~(s.sessionOpen \/ s.task \in {"open", "power", "warm", "cold"})
  PROVE  IInv' /\ Handover
  <1>0. SessionState(s) BY DEF IInv, Inv
  <1>o. Ownership(s) BY DEF IInv, Inv
  <1>p. Phases(s) BY DEF IInv, Inv
  <1>a. Actions(s) BY DEF IInv, Inv, Requests
  <1>b. Boundaries(s) BY DEF IInv, Inv, Requests
  <1>q. Quiet(s) BY DEF IInv, Inv
  <1>1. s' = [s EXCEPT !.removed = TRUE]
    BY <1>0 DEF SessionState, Removed
  <1>2. SessionState(s') BY <1>0, <1>1 DEF SessionState
  <1>3. Ownership(s') BY <1>0, <1>1, <1>o DEF SessionState, Ownership
  <1>4. Phases(s') BY <1>0, <1>1, <1>p DEF SessionState, Phases
  <1>5. Actions(s') BY <1>0, <1>1, <1>a DEF SessionState, Actions
  <1>6. Boundaries(s') BY <1>0, <1>1, <1>b DEF SessionState, Boundaries
  <1>7. Quiet(s') BY <1>0, <1>1, <1>q DEF SessionState, Quiet
  <1>8. Same(s, s')
    BY <1>0, <1>1
    DEF Same, SessionState, Holder, Request, AtBoundary, SessionWork
  <1> QED BY <1>2, <1>3, <1>4, <1>5, <1>6, <1>7, <1>8, SameStep DEF IInv, Inv, Requests

\* Removal of a device in use revokes the session and stops its owner.
LEMMA RemovedBusyInv ==
  ASSUME IInv, Removed, s.sessionOpen \/ s.task \in {"open", "power", "warm", "cold"}
  PROVE  IInv' /\ Handover
  <1>0. SessionState(s) BY DEF IInv, Inv
  <1>o. Ownership(s) BY DEF IInv, Inv
  <1>p. Phases(s) BY DEF IInv, Inv
  <1>a. Actions(s) BY DEF IInv, Inv, Requests
  <1>b. Boundaries(s) BY DEF IInv, Inv, Requests
  <1>q. Quiet(s) BY DEF IInv, Inv
  <1> DEFINE stop == s.stopRequested \/ s.owner # "none"
             token == Revoke(s.sessionCancel)
  <1>1. s' = [s EXCEPT !.removed = TRUE, !.needsReinit = TRUE, !.sessionCancel = token,
                       !.stopRequested = stop]
    BY <1>0 DEF SessionState, Removed, RequestStop
  <1>c. stop \in BOOLEAN /\ token \in {"none", "live", "cancelled"}
    BY <1>0, RevokeType DEF SessionState
  <1> HIDE DEF stop, token
  <1>2. SessionState(s') BY <1>0, <1>1, <1>c DEF SessionState
  <1>3. Ownership(s') BY <1>0, <1>1, <1>o DEF SessionState, Ownership
  <1>4. Phases(s') BY <1>0, <1>1, <1>p DEF SessionState, Phases
  <1>5. Actions(s') BY <1>0, <1>1, <1>a DEF SessionState, Actions
  <1>6. Boundaries(s') BY <1>0, <1>1, <1>b DEF SessionState, Boundaries
  <1>7. Quiet(s') BY <1>0, <1>1, <1>q DEF SessionState, Quiet
  <1>8. Same(s, s')
    BY <1>0, <1>1
    DEF Same, SessionState, Holder, Request, AtBoundary, SessionWork
  <1> QED BY <1>2, <1>3, <1>4, <1>5, <1>6, <1>7, <1>8, SameStep DEF IInv, Inv, Requests

\* goodix_cancel drops a waiting action or asks the running one to stop.
LEMMA CancelInv ==
  ASSUME IInv, Cancel
  PROVE  IInv' /\ Handover
  <1>0. SessionState(s) BY DEF IInv, Inv
  <1>o. Ownership(s) BY DEF IInv, Inv
  <1>p. Phases(s) BY DEF IInv, Inv
  <1>a. Actions(s) BY DEF IInv, Inv, Requests
  <1>b. Boundaries(s) BY DEF IInv, Inv, Requests
  <1>q. Quiet(s) BY DEF IInv, Inv
  <1>g. s.cancelDue /\ s.action # "none" /\ ~s.answered
    BY <1>a DEF Cancel, Actions
  <1>10. CASE s.actionPending
    <2>1. s' = [s EXCEPT !.actionPending = FALSE, !.cancelDue = FALSE, !.asserts = TRUE,
                         !.answered = TRUE]
      BY <1>0, <1>q, <1>g, <1>10, ZenonT(60) DEF SessionState, Cancel, Complete, Assert, Quiet
    <2>0. ~s.foregroundActive /\ s.action = "act"
      BY <1>a, <1>o, <1>10 DEF Ownership, Actions
    <2>2. SessionState(s') BY <1>0, <2>1 DEF SessionState
    <2>3. Ownership(s') BY <1>0, <2>1, <1>o, <1>g, <2>0 DEF SessionState, Ownership
    <2>4. Phases(s') BY <1>0, <2>1, <1>p, <1>g, <2>0 DEF SessionState, Phases
    <2>5. Actions(s') BY <1>0, <2>1, <1>a, <1>g, <2>0 DEF SessionState, Actions
    <2>6. Boundaries(s') BY <1>0, <2>1, <1>b, <1>g, <2>0 DEF SessionState, Boundaries
    <2>7. Quiet(s') BY <1>0, <2>1, <1>q, <1>g, <2>0 DEF SessionState, Quiet
    <2>8. /\ Holder(s') = Holder(s) /\ AtBoundary(s') = AtBoundary(s) /\ s'.owner = s.owner
          /\ Request(s) = "waiting" /\ Request(s') = "none"
      BY <1>0, <1>10, <2>0, <2>1 DEF SessionState, Holder, Request, AtBoundary, SessionWork
    <2> QED BY <2>2, <2>3, <2>4, <2>5, <2>6, <2>7, <2>8, RefuseStep DEF IInv, Inv, Requests
  <1>11. CASE ~s.actionPending
    <2> DEFINE stop == s.stopRequested \/ (s.owner = "scan" /\ s.cancel # "none")
               token == Revoke(s.cancel)
    <2>1. s' = [s EXCEPT !.cancelDue = FALSE, !.cancel = token, !.stopRequested = stop]
      BY <1>0, <1>g, <1>11 DEF SessionState, Cancel
    <2>c. stop \in BOOLEAN /\ token \in {"none", "live", "cancelled"}
      BY <1>0, RevokeType DEF SessionState
    <2> HIDE DEF stop, token
    <2>2. SessionState(s') BY <1>0, <2>1, <2>c DEF SessionState
    <2>3. Ownership(s') BY <1>0, <2>1, <1>o DEF SessionState, Ownership
    <2>4. Phases(s') BY <1>0, <2>1, <1>p DEF SessionState, Phases
    <2>5. Actions(s') BY <1>0, <2>1, <1>a DEF SessionState, Actions
    <2>6. Boundaries(s') BY <1>0, <2>1, <1>b DEF SessionState, Boundaries
    <2>7. Quiet(s') BY <1>0, <2>1, <1>q DEF SessionState, Quiet
    <2>8. Same(s, s')
      BY <1>0, <2>1
      DEF Same, SessionState, Holder, Request, AtBoundary, SessionWork
    <2> QED BY <2>2, <2>3, <2>4, <2>5, <2>6, <2>7, <2>8, SameStep DEF IInv, Inv, Requests
  <1> QED BY <1>10, <1>11

\* The continuous reader fails, with or without the operation.
LEMMA ReaderErrorInv ==
  ASSUME IInv, ReaderError
  PROVE  IInv' /\ Handover
  <1>0. SessionState(s) BY DEF IInv, Inv
  <1>o. Ownership(s) BY DEF IInv, Inv
  <1>p. Phases(s) BY DEF IInv, Inv
  <1>a. Actions(s) BY DEF IInv, Inv, Requests
  <1>b. Boundaries(s) BY DEF IInv, Inv, Requests
  <1>q. Quiet(s) BY DEF IInv, Inv
  <1>g. PICK op \in {s.transport, FALSE} :
            s.reader = "pending" /\ s.joiner = "none"
         /\ s' = [s EXCEPT !.reader = "failed", !.needsReinit = TRUE, !.transport = op]
    BY DEF ReaderError
  <1>1. s' = [s EXCEPT !.reader = "failed", !.needsReinit = TRUE, !.transport = op] BY <1>g
  <1>c. op \in BOOLEAN /\ (op => s.transport) /\ s.reader = "pending" /\ s.joiner = "none"
    BY <1>0, <1>g, ZenonT(60) DEF SessionState
  <1>2. SessionState(s') BY <1>0, <1>1, <1>c DEF SessionState
  <1>3. Ownership(s') BY <1>0, <1>1, <1>o DEF SessionState, Ownership
  <1>4. Phases(s') BY <1>0, <1>1, <1>p DEF SessionState, Phases
  <1>5. Actions(s') BY <1>0, <1>1, <1>a DEF SessionState, Actions
  <1>6. Boundaries(s') BY <1>0, <1>1, <1>b DEF SessionState, Boundaries
  <1>7. Quiet(s') BY <1>0, <1>1, <1>q, <1>c DEF SessionState, Quiet
  <1>8. Same(s, s')
    BY <1>0, <1>1
    DEF Same, SessionState, Holder, Request, AtBoundary, SessionWork
  <1> QED BY <1>2, <1>3, <1>4, <1>5, <1>6, <1>7, <1>8, SameStep DEF IInv, Inv, Requests

\* resume starts the warm probe, or reinitialization, of a suspended session.
LEMMA ResumeInv ==
  ASSUME IInv, Resume
  PROVE  IInv' /\ Handover
  <1>0. SessionState(s) BY DEF IInv, Inv
  <1>o. Ownership(s) BY DEF IInv, Inv
  <1>p. Phases(s) BY DEF IInv, Inv
  <1>a. Actions(s) BY DEF IInv, Inv, Requests
  <1>b. Boundaries(s) BY DEF IInv, Inv, Requests
  <1>q. Quiet(s) BY DEF IInv, Inv
  <1>g. s.power = "none" /\ s.isSuspended
    BY DEF Resume
  <1>h. /\ ~s.serviceActive \/ ~s.sessionSuspended
        /\ s.asserts = TRUE
    BY <1>o, <1>q, <1>0 DEF Ownership, Quiet, SessionState
  <1>10. CASE ~s.isOpen
    <2>1. s' = [s EXCEPT !.power = "none", !.asserts = TRUE, !.isSuspended = FALSE]
      BY <1>0, <1>g, <1>h, <1>10 DEF SessionState, Resume, ResumeComplete, Assert
    <2>2. SessionState(s') BY <1>0, <2>1 DEF SessionState
    <2>3. Ownership(s') BY <1>0, <2>1, <1>o, <1>g, <1>10 DEF SessionState, Ownership
    <2>4. Phases(s') BY <1>0, <2>1, <1>p, <1>g, <1>10 DEF SessionState, Phases
    <2>5. Actions(s') BY <1>0, <2>1, <1>a, <1>g, <1>10 DEF SessionState, Actions
    <2>6. Boundaries(s') BY <1>0, <2>1, <1>b, <1>p, <1>g, <1>10 DEF SessionState, Boundaries, Phases
    <2>7. Quiet(s') BY <1>0, <2>1, <1>q, <1>g, <1>10 DEF SessionState, Quiet
    <2>8. Same(s, s')
      BY <1>0, <2>1
      DEF Same, SessionState, Holder, Request, AtBoundary, SessionWork
    <2> QED BY <2>2, <2>3, <2>4, <2>5, <2>6, <2>7, <2>8, SameStep DEF IInv, Inv, Requests
  <1>11. CASE s.isOpen
    <2>0. s.sessionSuspended /\ s.action \in {"none", "act"} /\ s.serviceJoined = "none" /\ s.sessionOpen
      BY <1>0, <1>p, <1>b, <1>g, <1>11 DEF SessionState, Phases, Boundaries
    <2>2. s.task = "none" /\ s.joiner = "none" /\ ~s.foregroundActive /\ ~s.serviceActive /\ s.owner = "none"
      BY <1>0, <1>o, <1>p, <1>b, <1>g, <2>0 DEF SessionState, Ownership, Phases, Boundaries
    <2>3. s.reader = "none" /\ ~s.transport /\ s.error = "none"
      BY <1>0, <1>q, <2>0, <2>2 DEF SessionState, Quiet
    <2>10. CASE ~s.needsReinit
      <3>1. s' = [s EXCEPT !.power = "resuming", !.cancel = "live", !.sessionCancel = "live", !.task = "warm"]
        BY <1>0, <1>g, <1>11, <2>0, <2>10 DEF SessionState, Resume, ResumeVfunc
      <3>2. SessionState(s') BY <1>0, <3>1 DEF SessionState
      <3>3. Ownership(s') BY <1>0, <3>1, <1>o, <1>g, <2>0, <2>2, <2>3 DEF SessionState, Ownership
      <3>4. Phases(s') BY <1>0, <3>1, <1>p, <1>g, <2>0, <2>2, <2>3 DEF SessionState, Phases
      <3>5. Actions(s') BY <1>0, <3>1, <1>a, <1>g, <2>0, <2>2, <2>3 DEF SessionState, Actions
      <3>6. Boundaries(s') BY <1>0, <3>1, <1>b, <1>p, <1>g, <2>0, <2>2, <2>3 DEF SessionState, Boundaries, Phases
      <3>7. Quiet(s') BY <1>0, <3>1, <1>q, <1>g, <2>0, <2>2, <2>3 DEF SessionState, Quiet
      <3>8. /\ Holder(s) = "none" /\ Holder(s') = "session" /\ s'.owner = "none"
            /\ Request(s') = Request(s) /\ AtBoundary(s') = AtBoundary(s)
        BY <1>0, <1>p, <2>0, <2>2, <3>1
        DEF Phases, SessionState, Holder, Request, AtBoundary, SessionWork
      <3> QED BY <3>2, <3>3, <3>4, <3>5, <3>6, <3>7, <3>8, EnterStep DEF IInv, Inv, Requests
    <2>11. CASE s.needsReinit
      <3> DEFINE v == [s EXCEPT !.power = "resuming", !.cancel = "live", !.sessionCancel = "live",
                                !.task = "cold"]
      <3>a. s' = TransportQuiesce(v, "reinit", ReinitIdleJoined)
        BY <1>0, <1>g, <1>11, <2>0, <2>11 DEF SessionState, Resume, ResumeVfunc
      <3>b. v.reader = "none" /\ ~v.transport /\ v.joiner = "none" /\ v.asserts = TRUE
        BY <1>0, <1>h, <2>2, <2>3 DEF SessionState
      <3>c. SessionState(v) BY <1>0 DEF SessionState
      <3>d. v = [s EXCEPT !.power = "resuming", !.cancel = "live", !.sessionCancel = "live",
                          !.task = "cold"]
        OBVIOUS
      <3> HIDE DEF v
      <3>e. s' = [v EXCEPT !.asserts = TRUE, !.recovered = FALSE]
        BY <3>a, <3>b, <3>c, ZenonT(60)
          DEF SessionState, TransportQuiesce, ReinitIdleJoined, Invalidate, Assert
      <3>1. s' = [s EXCEPT !.power = "resuming", !.cancel = "live", !.sessionCancel = "live",
                           !.task = "cold", !.asserts = TRUE, !.recovered = FALSE]
        BY <1>0, <3>d, <3>e DEF SessionState
      <3>2. SessionState(s') BY <1>0, <3>1 DEF SessionState
      <3>3. Ownership(s') BY <1>0, <3>1, <1>o, <1>g, <2>0, <2>2, <2>3 DEF SessionState, Ownership
      <3>4. Phases(s') BY <1>0, <3>1, <1>p, <1>g, <2>0, <2>2, <2>3 DEF SessionState, Phases
      <3>5. Actions(s') BY <1>0, <3>1, <1>a, <1>g, <2>0, <2>2, <2>3 DEF SessionState, Actions
      <3>6. Boundaries(s') BY <1>0, <3>1, <1>b, <1>p, <1>g, <2>0, <2>2, <2>3 DEF SessionState, Boundaries, Phases
      <3>7. Quiet(s') BY <1>0, <3>1, <1>q, <1>g, <2>0, <2>2, <2>3 DEF SessionState, Quiet
      <3>8. /\ Holder(s) = "none" /\ Holder(s') = "session" /\ s'.owner = "none"
            /\ Request(s') = Request(s) /\ AtBoundary(s') = AtBoundary(s)
        BY <1>0, <1>p, <2>0, <2>2, <3>1
        DEF Phases, SessionState, Holder, Request, AtBoundary, SessionWork
      <3> QED BY <3>2, <3>3, <3>4, <3>5, <3>6, <3>7, <3>8, EnterStep DEF IInv, Inv, Requests
    <2> QED BY <2>10, <2>11
  <1> QED BY <1>10, <1>11

\* The hardware is with the session, between two of its steps.
Between(t) ==
  /\ SessionState(t) /\ t.asserts = TRUE
  /\ ~t.transport /\ t.joiner = "none" /\ t.task = "none" /\ t.owner = "none"
  /\ ~t.serviceActive /\ ~t.foregroundActive /\ ~t.serviceDraining
  /\ ~t.actionPending /\ t.serviceJoined = "none"
  /\ t.error # "none" => t.reader = "none"
  /\ t.action = "act" => t.answered
  /\ t.cancelDue => t.action # "none" /\ ~t.answered
  /\ t.answered => t.action # "none"
  /\ t.action = "close" => t.answered
  /\ t.deferred => t.power = "suspending" /\ t.action \in {"open", "close"}

\* The open state machine has ended and nothing of it is left in flight.
OpenEnd(t) ==
  /\ Between(t)
  /\ t.action = "open" /\ ~t.answered /\ ~t.sessionOpen /\ ~t.isOpen
  /\ ~t.sessionSuspended /\ ~t.isSuspended /\ ~t.suspendPending
  /\ t.power # "resuming" /\ (t.power = "suspending" => t.deferred)

\* The power commands of a suspend have ended and the reader is joined.
SuspendEnd(t) ==
  /\ Between(t)
  /\ t.action \in {"none", "act"} /\ t.sessionOpen /\ t.isOpen /\ t.suspendPending
  /\ ~t.sessionSuspended /\ t.power = "suspending" /\ ~t.deferred /\ t.reader = "none"

\* The resume has ended, or failed and joined the reader.
ResumeEnd(t) ==
  /\ Between(t)
  /\ t.action \in {"none", "act"} /\ t.sessionOpen /\ t.isOpen /\ ~t.suspendPending
  /\ t.sessionSuspended /\ t.isSuspended /\ t.power = "resuming"

\* The background service is well typed when it starts.
LEMMA ServiceType ==
  ASSUME NEW t, SessionState(t), NEW u,
         u = [t EXCEPT !.asserts = TRUE, !.serviceActive = TRUE, !.owner = "service",
                       !.stopRequested = FALSE, !.reader = "pending", !.transport = TRUE]
  PROVE  SessionState(u)
  BY DEF SessionState

\* goodix_open_complete_after_idle: success, retry and failure.
LEMMA OpenCompleteInv ==
  ASSUME NEW t, OpenEnd(t)
  PROVE  /\ Inv(OpenCompleteAfterIdle(t))
         /\ Released(OpenCompleteAfterIdle(t)) \/ Retried(OpenCompleteAfterIdle(t))
  <1> DEFINE u == OpenCompleteAfterIdle(t)
  <1>0. SessionState(t) BY DEF OpenEnd, Between
  <1>h. OpenEnd(t) /\ Between(t) BY DEF OpenEnd
  <1>1. CASE t.error = "none"
    <2> DEFINE v == [t EXCEPT !.needsReinit = FALSE, !.sessionOpen = TRUE]
    <2>v. v = [t EXCEPT !.needsReinit = FALSE, !.sessionOpen = TRUE] OBVIOUS
    <2>b. u = Complete([Settle(v) EXCEPT !.isOpen = TRUE]) BY <1>1 DEF OpenCompleteAfterIdle
    <2> HIDE DEF u, v
    <2>c. SessionState(v) BY <1>0, <2>v DEF SessionState, Error
    <2>d. Settle(v) = StartService(v)
      BY <1>0, <1>h, <2>v DEF SessionState, Settle, SettleIdle, MayService, OpenEnd, Between
    <2>e. /\ v.asserts = TRUE /\ v.owner = "none" /\ ~v.transport /\ v.reader = t.reader
          /\ v.action = "open" /\ ~v.answered
      BY <1>0, <1>h, <2>v DEF SessionState, OpenEnd, Between
    <2>10. CASE t.reader = "failed"
      <3>a. Settle(v) = [v EXCEPT !.asserts = TRUE, !.needsReinit = TRUE]
        BY <2>c, <2>d, <2>e, <2>10 DEF StartService, Assert, SessionState
      <3>1. u = [t EXCEPT !.sessionOpen = TRUE, !.asserts = TRUE, !.needsReinit = TRUE, !.isOpen = TRUE,
                          !.answered = TRUE, !.cancelDue = FALSE]
        <4>1. u = [v EXCEPT !.asserts = TRUE, !.needsReinit = TRUE, !.isOpen = TRUE,
                            !.answered = TRUE, !.cancelDue = FALSE]
          BY <2>b, <2>c, <2>e, <3>a, ZenonT(60) DEF Complete, Assert, SessionState
        <4> QED BY <1>0, <2>v, <4>1 DEF SessionState
      <3>2. SessionState(u) BY <1>0, <3>1 DEF SessionState, Error
      <3>3. Ownership(u) BY <1>0, <1>h, <3>1, <1>1 DEF SessionState, Ownership, OpenEnd, Between
      <3>4. Phases(u) BY <1>0, <1>h, <3>1, <1>1 DEF SessionState, Phases, OpenEnd, Between
      <3>5. Actions(u) BY <1>0, <1>h, <3>1, <1>1 DEF SessionState, Actions, OpenEnd, Between
      <3>6. Boundaries(u) BY <1>0, <1>h, <3>1, <1>1 DEF SessionState, Boundaries, OpenEnd, Between
      <3>7. Quiet(u) BY <1>0, <1>h, <3>1, <1>1 DEF SessionState, Quiet, OpenEnd, Between
      <3>8. Released(u)
        BY <1>0, <1>h, <3>1 DEF Released, Usable, OpenEnd, Between,
           SessionState, Holder, Request, AtBoundary, SessionWork
      <3> QED BY <3>2, <3>3, <3>4, <3>5, <3>6, <3>7, <3>8 DEF Inv, Requests, u
    <2>11. CASE t.reader # "failed"
      <3>a. Settle(v) = [v EXCEPT !.asserts = TRUE, !.serviceActive = TRUE, !.owner = "service",
                                  !.stopRequested = FALSE, !.reader = "pending", !.transport = TRUE]
        <4> DEFINE m == [v EXCEPT !.asserts = TRUE, !.serviceActive = TRUE, !.owner = "service",
                                  !.stopRequested = FALSE]
        <4>m. m = [v EXCEPT !.asserts = TRUE, !.serviceActive = TRUE, !.owner = "service",
                            !.stopRequested = FALSE]
          OBVIOUS
        <4>1. Settle(v) = Command(m)
          BY <2>c, <2>d, <2>e, <2>11 DEF StartService, Assert, SessionState
        <4> HIDE DEF m
        <4>2. m.reader \in {"none", "pending"}
          BY <2>c, <2>e, <2>11, <4>m DEF SessionState
        <4>3. Command(m) = [m EXCEPT !.reader = "pending", !.transport = TRUE]
          BY <2>c, <4>2, <4>m DEF Command, StartReader, SessionState
        <4> QED BY <2>c, <4>1, <4>3, <4>m DEF SessionState
      <3>1. u = [t EXCEPT !.needsReinit = FALSE, !.sessionOpen = TRUE, !.asserts = TRUE,
                          !.serviceActive = TRUE, !.owner = "service",
                          !.stopRequested = FALSE, !.reader = "pending", !.transport = TRUE,
                          !.isOpen = TRUE, !.answered = TRUE, !.cancelDue = FALSE]
        <4>1. u = [v EXCEPT !.asserts = TRUE, !.serviceActive = TRUE, !.owner = "service",
                            !.stopRequested = FALSE, !.reader = "pending", !.transport = TRUE,
                            !.isOpen = TRUE, !.answered = TRUE, !.cancelDue = FALSE]
          <5> DEFINE m == [Settle(v) EXCEPT !.isOpen = TRUE]
          <5>0. Settle(v).asserts = TRUE /\ Settle(v).action = "open" /\ ~Settle(v).answered
            BY <2>c, <2>e, <3>a DEF SessionState
          <5>1. m.asserts = TRUE /\ m.action = "open" /\ ~m.answered
            BY <5>0, <2>c, <3>a DEF SessionState
          <5>2. u = Complete(m) BY <2>b
          <5>3. m = [v EXCEPT !.asserts = TRUE, !.serviceActive = TRUE, !.owner = "service",
                              !.stopRequested = FALSE, !.reader = "pending", !.transport = TRUE,
                              !.isOpen = TRUE]
            BY <2>c, <3>a DEF SessionState
          <5> HIDE DEF m
          <5>4. u = [m EXCEPT !.asserts = TRUE, !.answered = TRUE, !.cancelDue = FALSE]
            BY <5>1, <5>2 DEF Complete, Assert
          <5> QED BY <2>c, <5>3, <5>4, ZenonT(60) DEF SessionState
        <4> QED BY <1>0, <2>v, <4>1 DEF SessionState
      <3> DEFINE m == Settle(v)
      <3>b. SessionState(m) BY <2>c, <3>a, ServiceType
      <3>c. u = [m EXCEPT !.isOpen = TRUE, !.answered = TRUE, !.cancelDue = FALSE]
        <4>1. m.asserts = TRUE /\ m.action = "open" /\ ~m.answered BY <2>c, <2>e, <3>a DEF SessionState
        <4> HIDE DEF m
        <4>2. [m EXCEPT !.isOpen = TRUE, !.asserts = TRUE] = [m EXCEPT !.isOpen = TRUE]
          BY <3>b, <4>1 DEF SessionState
        <4>3. u = Complete([m EXCEPT !.isOpen = TRUE]) BY <2>b DEF m
        <4> QED BY <3>b, <4>1, <4>2, <4>3 DEF Complete, Assert, SessionState
      <3> HIDE DEF m
      <3>2. SessionState(u) BY <3>b, <3>c DEF SessionState
      <3>3. Ownership(u) BY <1>0, <1>h, <3>1, <1>1 DEF SessionState, Ownership, OpenEnd, Between
      <3>4. Phases(u) BY <1>0, <1>h, <3>1, <1>1 DEF SessionState, Phases, OpenEnd, Between
      <3>5. Actions(u) BY <1>0, <1>h, <3>1, <1>1 DEF SessionState, Actions, OpenEnd, Between
      <3>6. Boundaries(u) BY <1>0, <1>h, <3>1, <1>1 DEF SessionState, Boundaries, OpenEnd, Between
      <3>7. Quiet(u) BY <1>0, <1>h, <3>1, <1>1 DEF SessionState, Quiet, OpenEnd, Between
      <3>8. Released(u)
        BY <1>0, <1>h, <3>1 DEF Released, Usable, OpenEnd, Between,
           SessionState, Holder, Request, AtBoundary, SessionWork
      <3> QED BY <3>2, <3>3, <3>4, <3>5, <3>6, <3>7, <3>8 DEF Inv, Requests, u
    <2> QED BY <2>10, <2>11
  <1>2. CASE t.error # "none"
    <2> DEFINE a == [t EXCEPT !.asserts = TRUE, !.error = "none"]
    <2>a. a = [t EXCEPT !.asserts = TRUE, !.error = "none"] OBVIOUS
    <2>e. t.asserts = TRUE /\ ~t.transport /\ t.reader = "none" /\ t.action = "open" /\ ~t.answered
      BY <1>2, <1>h DEF OpenEnd, Between
    <2>b. [Invalidate(t) EXCEPT !.error = "none"] = a
      BY <1>0, <2>e DEF Invalidate, Assert, SessionState
    <2>c. SessionState(a) BY <1>0 DEF SessionState, Error
    <2>10. CASE ~t.recovered /\ ~t.cancelled /\ t.error # "final"
      <3>a. u = StartOpenSsm([a EXCEPT !.recovered = TRUE])
        BY <1>2, <2>b, <2>10 DEF OpenCompleteAfterIdle
      <3> HIDE DEF u, a
      <3>1. u = [t EXCEPT !.asserts = TRUE, !.error = "none", !.recovered = TRUE,
                          !.cancel = "live", !.task = "open"]
        BY <1>0, <2>a, <2>c, <3>a DEF StartOpenSsm, SessionState
      <3>2. SessionState(u) BY <1>0, <3>1 DEF SessionState, Error
      <3>3. Ownership(u) BY <1>0, <1>h, <3>1, <2>e DEF SessionState, Ownership, OpenEnd, Between
      <3>4. Phases(u) BY <1>0, <1>h, <3>1, <2>e DEF SessionState, Phases, OpenEnd, Between
      <3>5. Actions(u) BY <1>0, <1>h, <3>1, <2>e DEF SessionState, Actions, OpenEnd, Between
      <3>6. Boundaries(u) BY <1>0, <1>h, <3>1, <2>e DEF SessionState, Boundaries, OpenEnd, Between
      <3>7. Quiet(u) BY <1>0, <1>h, <3>1, <2>e DEF SessionState, Quiet, OpenEnd, Between
      <3>8. Retried(u)
        BY <1>0, <1>h, <3>1 DEF Retried, Usable, OpenEnd, Between,
           SessionState, Holder, Request, AtBoundary, SessionWork
      <3> QED BY <3>2, <3>3, <3>4, <3>5, <3>6, <3>7, <3>8 DEF Inv, Requests, u
    <2>11. CASE ~(~t.recovered /\ ~t.cancelled /\ t.error # "final")
      <3>a. u = Complete([a EXCEPT !.cancel = "none"])
        BY <1>2, <2>b, <2>11 DEF OpenCompleteAfterIdle
      <3> HIDE DEF u, a
      <3>b. a.action = "open" /\ ~a.answered /\ a.asserts = TRUE
        BY <1>0, <2>a, <2>e DEF SessionState
      <3>1. u = [t EXCEPT !.asserts = TRUE, !.error = "none", !.cancel = "none",
                          !.answered = TRUE, !.cancelDue = FALSE]
        BY <1>0, <2>a, <2>c, <3>a, <3>b, ZenonT(60) DEF Complete, Assert, SessionState
      <3>2. SessionState(u) BY <1>0, <3>1 DEF SessionState, Error
      <3>3. Ownership(u) BY <1>0, <1>h, <3>1, <2>e DEF SessionState, Ownership, OpenEnd, Between
      <3>4. Phases(u) BY <1>0, <1>h, <3>1, <2>e DEF SessionState, Phases, OpenEnd, Between
      <3>5. Actions(u) BY <1>0, <1>h, <3>1, <2>e DEF SessionState, Actions, OpenEnd, Between
      <3>6. Boundaries(u) BY <1>0, <1>h, <3>1, <2>e DEF SessionState, Boundaries, OpenEnd, Between
      <3>7. Quiet(u) BY <1>0, <1>h, <3>1, <2>e DEF SessionState, Quiet, OpenEnd, Between
      <3>8. Released(u)
        BY <1>0, <1>h, <3>1 DEF Released, Usable, OpenEnd, Between,
           SessionState, Holder, Request, AtBoundary, SessionWork
      <3> QED BY <3>2, <3>3, <3>4, <3>5, <3>6, <3>7, <3>8 DEF Inv, Requests, u
    <2> QED BY <2>10, <2>11
  <1> QED BY <1>1, <1>2

\* goodix_suspend_joined completes the suspend.
LEMMA SuspendJoinedInv ==
  ASSUME NEW t, SuspendEnd(t)
  PROVE  Inv(SuspendJoined(t)) /\ SuspendedNow(SuspendJoined(t))
  <1> DEFINE u == SuspendJoined(t)
             nr == t.needsReinit \/ t.error # "none"
  <1>0. SessionState(t) BY DEF SuspendEnd, Between
  <1>h. SuspendEnd(t) /\ Between(t) BY DEF SuspendEnd
  <1>e. /\ t.asserts = TRUE /\ ~t.transport /\ t.reader = "none"
        /\ t.power = "suspending" /\ ~t.deferred
    BY <1>h DEF SuspendEnd, Between
  <1>1. u = [t EXCEPT !.asserts = TRUE, !.needsReinit = nr, !.error = "none", !.suspendPending = FALSE,
                      !.sessionSuspended = TRUE, !.power = "none", !.isSuspended = TRUE]
    BY <1>0, <1>e, ZenonT(60) DEF SuspendJoined, SuspendComplete, Invalidate, Assert, SessionState
  <1>c. nr \in BOOLEAN BY <1>0 DEF SessionState
  <1> HIDE DEF u, nr
  <1>2. SessionState(u) BY <1>0, <1>1, <1>c DEF SessionState, Error
  <1>3. Ownership(u) BY <1>0, <1>h, <1>1 DEF SessionState, Ownership, SuspendEnd, Between
  <1>4. Phases(u) BY <1>0, <1>h, <1>1 DEF SessionState, Phases, SuspendEnd, Between
  <1>5. Actions(u) BY <1>0, <1>h, <1>1 DEF SessionState, Actions, SuspendEnd, Between
  <1>6. Boundaries(u) BY <1>0, <1>h, <1>1 DEF SessionState, Boundaries, SuspendEnd, Between
  <1>7. Quiet(u) BY <1>0, <1>h, <1>1 DEF SessionState, Quiet, SuspendEnd, Between
  <1>8. SuspendedNow(u)
    BY <1>0, <1>h, <1>1 DEF SuspendedNow, SuspendEnd, Between, SessionState, Holder, Request, AtBoundary, SessionWork
  <1> QED BY <1>2, <1>3, <1>4, <1>5, <1>6, <1>7, <1>8 DEF Inv, Requests, u

\* goodix_resume_joined settles the session and completes the resume.
LEMMA ResumeJoinedInv ==
  ASSUME NEW t, ResumeEnd(t)
  PROVE  Inv(ResumeJoined(t)) /\ Released(ResumeJoined(t))
  <1> DEFINE u == ResumeJoined(t)
  <1>0. SessionState(t) BY DEF ResumeEnd, Between
  <1>h. ResumeEnd(t) /\ Between(t) BY DEF ResumeEnd
  <1>e. t.asserts = TRUE /\ ~t.transport /\ t.power = "resuming"
    BY <1>h DEF ResumeEnd, Between
  <1>1. CASE t.error # "none"
    <2> DEFINE v == [t EXCEPT !.sessionSuspended = FALSE, !.error = "none", !.needsReinit = TRUE,
                              !.asserts = TRUE]
    <2>v. v = [t EXCEPT !.sessionSuspended = FALSE, !.error = "none", !.needsReinit = TRUE,
                        !.asserts = TRUE]
      OBVIOUS
    <2>r. t.reader = "none" BY <1>1, <1>h DEF Between
    <2>a. u = ResumeComplete(Settle(v))
      BY <1>0, <1>1, <1>e, <2>r DEF ResumeJoined, Invalidate, Assert, SessionState
    <2> HIDE DEF u, v
    <2>b. Settle(v) = v
      BY <1>0, <1>h, <2>v DEF SessionState, Settle, SettleIdle, MayService, ResumeEnd, Between
    <2>c. SessionState(v) BY <1>0, <2>v DEF SessionState, Error
    <2>d. v.asserts = TRUE /\ v.power = "resuming" BY <1>0, <1>e, <2>v DEF SessionState
    <2>e. u = [v EXCEPT !.asserts = TRUE, !.power = "none", !.isSuspended = FALSE]
      BY <2>a, <2>b, <2>c, <2>d, ZenonT(60) DEF ResumeComplete, Assert, SessionState
    <2>1. u = [t EXCEPT !.sessionSuspended = FALSE, !.error = "none", !.needsReinit = TRUE,
                        !.asserts = TRUE, !.power = "none", !.isSuspended = FALSE]
      BY <1>0, <2>v, <2>e, ZenonT(60) DEF SessionState
    <2>2. SessionState(u) BY <1>0, <2>1 DEF SessionState, Error
    <2>3. Ownership(u) BY <1>0, <1>h, <2>1, <2>r DEF SessionState, Ownership, ResumeEnd, Between
    <2>4. Phases(u) BY <1>0, <1>h, <2>1, <2>r DEF SessionState, Phases, ResumeEnd, Between
    <2>5. Actions(u) BY <1>0, <1>h, <2>1, <2>r DEF SessionState, Actions, ResumeEnd, Between
    <2>6. Boundaries(u) BY <1>0, <1>h, <2>1, <2>r DEF SessionState, Boundaries, ResumeEnd, Between
    <2>7. Quiet(u) BY <1>0, <1>h, <2>1, <2>r DEF SessionState, Quiet, ResumeEnd, Between
    <2>8. Released(u)
      BY <1>0, <1>h, <2>1 DEF Released, Usable, ResumeEnd, Between,
         SessionState, Holder, Request, AtBoundary, SessionWork
    <2> QED BY <2>2, <2>3, <2>4, <2>5, <2>6, <2>7, <2>8 DEF Inv, Requests, u
  <1>2. CASE t.error = "none"
    <2> DEFINE v == [t EXCEPT !.sessionSuspended = FALSE, !.error = "none", !.needsReinit = FALSE]
    <2>v. v = [t EXCEPT !.sessionSuspended = FALSE, !.error = "none", !.needsReinit = FALSE]
      OBVIOUS
    <2>a. u = ResumeComplete(Settle(v))
      BY <1>0, <1>2, <1>e DEF ResumeJoined, SessionState
    <2> HIDE DEF u, v
    <2>b. Settle(v) = StartService(v)
      BY <1>0, <1>h, <2>v DEF SessionState, Settle, SettleIdle, MayService, ResumeEnd, Between
    <2>c. SessionState(v) BY <1>0, <2>v DEF SessionState, Error
    <2>d. v.asserts = TRUE /\ v.power = "resuming" /\ v.owner = "none" /\ ~v.transport /\ v.reader = t.reader
      BY <1>0, <1>e, <1>h, <2>v DEF SessionState, Between
    <2>10. CASE t.reader = "failed"
      <3>a. Settle(v) = [v EXCEPT !.asserts = TRUE, !.needsReinit = TRUE]
        BY <2>b, <2>c, <2>d, <2>10 DEF StartService, Assert, SessionState
      <3>b. u = [v EXCEPT !.asserts = TRUE, !.needsReinit = TRUE, !.power = "none", !.isSuspended = FALSE]
        <4> DEFINE m == Settle(v)
        <4>1. m.asserts = TRUE /\ m.power = "resuming" BY <2>c, <2>d, <3>a DEF SessionState
        <4>2. u = ResumeComplete(m) BY <2>a
        <4>3. m = [v EXCEPT !.asserts = TRUE, !.needsReinit = TRUE] BY <3>a
        <4> HIDE DEF m
        <4>4. u = [m EXCEPT !.asserts = TRUE, !.power = "none", !.isSuspended = FALSE]
          BY <4>1, <4>2 DEF ResumeComplete, Assert
        <4> QED BY <2>c, <4>3, <4>4 DEF SessionState
      <3>1. u = [t EXCEPT !.sessionSuspended = FALSE, !.error = "none", !.needsReinit = TRUE,
                          !.asserts = TRUE, !.power = "none", !.isSuspended = FALSE]
        BY <1>0, <2>v, <3>b DEF SessionState
      <3>2. SessionState(u) BY <1>0, <3>1 DEF SessionState, Error
      <3>3. Ownership(u) BY <1>0, <1>h, <3>1 DEF SessionState, Ownership, ResumeEnd, Between
      <3>4. Phases(u) BY <1>0, <1>h, <3>1 DEF SessionState, Phases, ResumeEnd, Between
      <3>5. Actions(u) BY <1>0, <1>h, <3>1 DEF SessionState, Actions, ResumeEnd, Between
      <3>6. Boundaries(u) BY <1>0, <1>h, <3>1 DEF SessionState, Boundaries, ResumeEnd, Between
      <3>7. Quiet(u) BY <1>0, <1>h, <3>1 DEF SessionState, Quiet, ResumeEnd, Between
      <3>8. Released(u)
        BY <1>0, <1>h, <3>1 DEF Released, Usable, ResumeEnd, Between,
           SessionState, Holder, Request, AtBoundary, SessionWork
      <3> QED BY <3>2, <3>3, <3>4, <3>5, <3>6, <3>7, <3>8 DEF Inv, Requests, u
    <2>11. CASE t.reader # "failed"
      <3>a. Settle(v) = [v EXCEPT !.asserts = TRUE, !.serviceActive = TRUE, !.owner = "service",
                                  !.stopRequested = FALSE, !.reader = "pending", !.transport = TRUE]
        <4> DEFINE m == [v EXCEPT !.asserts = TRUE, !.serviceActive = TRUE, !.owner = "service",
                                  !.stopRequested = FALSE]
        <4>m. m = [v EXCEPT !.asserts = TRUE, !.serviceActive = TRUE, !.owner = "service",
                            !.stopRequested = FALSE]
          OBVIOUS
        <4>1. Settle(v) = Command(m)
          BY <2>c, <2>b, <2>d, <2>11 DEF StartService, Assert, SessionState
        <4> HIDE DEF m
        <4>2. m.reader \in {"none", "pending"}
          BY <2>c, <2>d, <2>11, <4>m DEF SessionState
        <4>3. Command(m) = [m EXCEPT !.reader = "pending", !.transport = TRUE]
          BY <2>c, <4>2, <4>m DEF Command, StartReader, SessionState
        <4> QED BY <2>c, <4>1, <4>3, <4>m DEF SessionState
      <3>b. u = [v EXCEPT !.asserts = TRUE, !.serviceActive = TRUE, !.owner = "service",
                          !.stopRequested = FALSE, !.reader = "pending", !.transport = TRUE,
                          !.power = "none", !.isSuspended = FALSE]
        <4> DEFINE m == Settle(v)
        <4>1. m.asserts = TRUE /\ m.power = "resuming" BY <2>c, <2>d, <3>a DEF SessionState
        <4>2. u = ResumeComplete(m) BY <2>a
        <4>3. m = [v EXCEPT !.asserts = TRUE, !.serviceActive = TRUE, !.owner = "service",
                            !.stopRequested = FALSE, !.reader = "pending", !.transport = TRUE]
          BY <3>a
        <4> HIDE DEF m
        <4>4. u = [m EXCEPT !.asserts = TRUE, !.power = "none", !.isSuspended = FALSE]
          BY <4>1, <4>2 DEF ResumeComplete, Assert
        <4> QED BY <2>c, <4>3, <4>4, ZenonT(60) DEF SessionState
      <3>1. u = [t EXCEPT !.sessionSuspended = FALSE, !.error = "none", !.needsReinit = FALSE,
                          !.asserts = TRUE, !.serviceActive = TRUE, !.owner = "service",
                          !.stopRequested = FALSE, !.reader = "pending", !.transport = TRUE,
                          !.power = "none", !.isSuspended = FALSE]
        BY <1>0, <2>v, <3>b DEF SessionState
      <3> DEFINE m == Settle(v)
      <3>d. SessionState(m) BY <2>c, <3>a, ServiceType
      <3>c. u = [m EXCEPT !.asserts = TRUE, !.power = "none", !.isSuspended = FALSE]
        <4>1. m.power = "resuming" /\ m.asserts = TRUE BY <2>c, <2>d, <3>a DEF SessionState
        <4>2. u = ResumeComplete(m) BY <2>a
        <4> HIDE DEF m
        <4> QED BY <4>1, <4>2 DEF ResumeComplete, Assert
      <3> HIDE DEF m
      <3>2. SessionState(u) BY <3>d, <3>c DEF SessionState
      <3>3. Ownership(u) BY <1>0, <1>h, <3>1 DEF SessionState, Ownership, ResumeEnd, Between
      <3>4. Phases(u) BY <1>0, <1>h, <3>1 DEF SessionState, Phases, ResumeEnd, Between
      <3>5. Actions(u) BY <1>0, <1>h, <3>1 DEF SessionState, Actions, ResumeEnd, Between
      <3>6. Boundaries(u) BY <1>0, <1>h, <3>1 DEF SessionState, Boundaries, ResumeEnd, Between
      <3>7. Quiet(u) BY <1>0, <1>h, <3>1 DEF SessionState, Quiet, ResumeEnd, Between
      <3>8. Released(u)
        BY <1>0, <1>h, <3>1 DEF Released, Usable, ResumeEnd, Between,
           SessionState, Holder, Request, AtBoundary, SessionWork
      <3> QED BY <3>2, <3>3, <3>4, <3>5, <3>6, <3>7, <3>8 DEF Inv, Requests, u
    <2> QED BY <2>10, <2>11
  <1> QED BY <1>1, <1>2

\* goodix_session_service_done hands the hardware on.
LEMMA ServiceDoneInv ==
  ASSUME IInv, s.serviceActive, ~s.transport, NEW failed \in BOOLEAN
  PROVE  /\ Inv(ServiceDone(s, failed))
         /\ ServiceDone(s, failed) = s' => Handover
  <1>0. SessionState(s) BY DEF IInv, Inv
  <1>o. Ownership(s) BY DEF IInv, Inv
  <1>p. Phases(s) BY DEF IInv, Inv
  <1>a. Actions(s) BY DEF IInv, Inv, Requests
  <1>b. Boundaries(s) BY DEF IInv, Inv, Requests
  <1>q. Quiet(s) BY DEF IInv, Inv
  <1> DEFINE nr == s.needsReinit \/ failed
             t == [s EXCEPT !.serviceActive = FALSE, !.owner = "none",
                            !.stopRequested = FALSE, !.needsReinit = nr]
  <1>1. ServiceDone(s, failed) = Settle(t) BY DEF ServiceDone
  <1>t. t = [s EXCEPT !.serviceActive = FALSE, !.owner = "none",
                      !.stopRequested = FALSE, !.needsReinit = nr]
    OBVIOUS
  <1>c. nr \in BOOLEAN BY <1>0 DEF SessionState
  <1> HIDE DEF t, nr
  <1>2. SessionState(t) BY <1>0, <1>c, <1>t DEF SessionState
  <1>3. /\ s.task = "none" /\ s.joiner = "none" /\ ~s.foregroundActive /\ ~s.serviceDraining
        /\ s.sessionOpen = TRUE /\ s.isOpen = TRUE /\ ~s.sessionSuspended
    BY <1>0, <1>o, <1>p DEF SessionState, Ownership, Phases
  <1>4. s.asserts = TRUE /\ s.error = "none" BY <1>0, <1>q, <1>3 DEF SessionState, Quiet
  <1>5. Free(t)
    BY <1>0, <1>p, <1>a, <1>b, <1>t, <1>2, <1>3, <1>4 DEF SessionState, Free, Phases, Actions, Boundaries
  <1>6. ~t.serviceDraining /\ t.serviceJoined = s.serviceJoined /\ t.actionPending = s.actionPending
    BY <1>0, <1>3, <1>t DEF SessionState
  <1>7. /\ Holder(s) = "background" /\ (s.actionPending => Request(s) = "waiting")
        /\ AtBoundary(s) = (s.serviceJoined # "none")
    BY <1>0, <1>b, <1>3 DEF Boundaries, SessionState, Holder, Request, AtBoundary, SessionWork
  <1>8. Inv(Settle(t)) /\ SettledTo(s.serviceJoined # "none", s.actionPending, Settle(t))
    BY <1>5, <1>6, SettleInv
  <1> QED BY <1>1, <1>7, <1>8, SettledStep

\* The maintenance coordinator ends.
LEMMA ServiceEndsInv ==
  ASSUME IInv, ServiceEnds
  PROVE  IInv' /\ Handover
  <1>1. s.serviceActive BY DEF IInv, Inv, Ownership, ServiceEnds
  <1> QED BY <1>1, ServiceDoneInv DEF ServiceEnds, IInv

\* The detached tail of a scan ends.
LEMMA TailEndsInv ==
  ASSUME IInv, TailEnds
  PROVE  IInv' /\ Handover
  <1>1. s.serviceActive BY DEF IInv, Inv, Ownership, TailEnds
  <1> QED BY <1>1, ServiceDoneInv DEF TailEnds, IInv

\* A scan is detached: its action is answered, its tail becomes the service,
\* and the next action may already be waiting for it.
LEMMA ScanEndsInv ==
  ASSUME IInv, ScanEnds
  PROVE  IInv' /\ Handover
  <1>0. SessionState(s) BY DEF IInv, Inv
  <1>o. Ownership(s) BY DEF IInv, Inv
  <1>p. Phases(s) BY DEF IInv, Inv
  <1>a. Actions(s) BY DEF IInv, Inv, Requests
  <1>b. Boundaries(s) BY DEF IInv, Inv, Requests
  <1>q. Quiet(s) BY DEF IInv, Inv
  <1>g. PICK failed \in BOOLEAN, again \in {FALSE, Reentrant} :
            s.owner = "scan" /\ ~s.transport /\ s' = DetachScan(failed, again)
    BY ReentrantAssumption DEF ScanEnds
  <1>h. /\ s.owner = "scan" /\ ~s.transport /\ s.foregroundActive /\ ~s.serviceActive
        /\ s.action = "act" /\ ~s.answered /\ s.asserts = TRUE /\ s.joiner = "none"
    BY <1>0, <1>o, <1>p, <1>a, <1>q, <1>g DEF SessionState, Ownership, Phases, Actions, Quiet
  <1> DEFINE nr == s.needsReinit \/ failed
             m == [s EXCEPT !.asserts = TRUE, !.needsReinit = nr, !.serviceActive = TRUE,
                            !.owner = "tail", !.stopRequested = FALSE]
             n == [m EXCEPT !.reader = IF @ = "none" THEN "pending" ELSE @, !.transport = TRUE]
             c == [n EXCEPT !.foregroundActive = FALSE, !.asserts = TRUE, !.answered = TRUE,
                            !.cancelDue = FALSE]
  <1>n. nr \in BOOLEAN BY <1>0 DEF SessionState
  <1>1. DetachScan(failed, again) = ActionDone(Command(m), again)
    BY <1>0, <1>h DEF SessionState, DetachScan, Assert
  <1>m. m = [s EXCEPT !.asserts = TRUE, !.needsReinit = nr, !.serviceActive = TRUE,
                      !.owner = "tail", !.stopRequested = FALSE]
    OBVIOUS
  <1>k. n = [m EXCEPT !.reader = IF @ = "none" THEN "pending" ELSE @, !.transport = TRUE] OBVIOUS
  <1>c. c = [n EXCEPT !.foregroundActive = FALSE, !.asserts = TRUE, !.answered = TRUE,
                      !.cancelDue = FALSE]
    OBVIOUS
  <1> HIDE DEF nr, m, n, c
  <1>2. SessionState(m) BY <1>0, <1>m, <1>n DEF SessionState
  <1>3. SessionState(n) BY <1>2, <1>k DEF SessionState
  <1>4. SessionState(c) BY <1>3, <1>c DEF SessionState
  <1>5. Command(m) = n BY <1>2, <1>k DEF SessionState, Command, StartReader
  <1>6. n.action = "act" /\ ~n.answered /\ n.asserts = TRUE
    BY <1>0, <1>h, <1>m, <1>k DEF SessionState
  <1>7. Complete([n EXCEPT !.foregroundActive = FALSE]) = c
    BY <1>3, <1>6, <1>c DEF SessionState, Complete, Assert
  <1>e. c = [s EXCEPT !.asserts = TRUE, !.needsReinit = nr, !.serviceActive = TRUE,
                      !.owner = "tail", !.stopRequested = FALSE,
                      !.reader = IF @ = "none" THEN "pending" ELSE @, !.transport = TRUE,
                      !.foregroundActive = FALSE, !.answered = TRUE, !.cancelDue = FALSE]
    BY <1>0, <1>m, <1>k, <1>c, ZenonT(60) DEF SessionState
  <1>8. Ownership(c) BY <1>0, <1>o, <1>h, <1>e DEF SessionState, Ownership
  <1>9. Phases(c) BY <1>0, <1>o, <1>p, <1>h, <1>e DEF SessionState, Ownership, Phases
  <1>10. Actions(c) BY <1>0, <1>a, <1>h, <1>e DEF SessionState, Actions
  <1>11. Boundaries(c) BY <1>0, <1>b, <1>h, <1>e DEF SessionState, Boundaries
  <1>12. Quiet(c) BY <1>0, <1>o, <1>q, <1>h, <1>e DEF SessionState, Ownership, Quiet
  <1>13. Inv(c) BY <1>4, <1>8, <1>9, <1>10, <1>11, <1>12 DEF Inv, Requests
  <1>14. c.serviceActive /\ c.action = "act" /\ c.answered
    BY <1>0, <1>h, <1>e DEF SessionState
  <1>15. s' = Settle(IF again THEN AdmitAction(c) ELSE c)
    BY <1>g, <1>1, <1>5, <1>7 DEF ActionDone
  <1>18. /\ Holder(s) = "action" /\ Holder(c) = "background" /\ Request(c) = "none"
         /\ AtBoundary(c) = AtBoundary(s) /\ s.owner # "none"
    BY <1>0, <1>a, <1>h, <1>e DEF Actions, SessionState, Holder, Request, AtBoundary, SessionWork
  <1>16. CASE again
    <2>1. Inv(AdmitAction(c)) /\ AdmitAction(c).serviceActive /\ Waits(c, AdmitAction(c))
      BY <1>13, <1>14, AdmitBusy
    <2> QED BY <1>h, <1>15, <1>16, <1>18, <2>1, SettleBusy, DetachStep DEF IInv
  <1>17. CASE ~again
    BY <1>13, <1>14, <1>15, <1>17, <1>18, SettleBusy, DetachStep DEF IInv, Waits, Same
  <1> QED BY <1>16, <1>17

\* Reinitialization inside an action ends in its scan or in its error.
LEMMA ForegroundReinitEndsInv ==
  ASSUME IInv, ForegroundReinitEnds
  PROVE  IInv' /\ Handover
  <1>0. SessionState(s) BY DEF IInv, Inv
  <1>o. Ownership(s) BY DEF IInv, Inv
  <1>p. Phases(s) BY DEF IInv, Inv
  <1>a. Actions(s) BY DEF IInv, Inv, Requests
  <1>b. Boundaries(s) BY DEF IInv, Inv, Requests
  <1>q. Quiet(s) BY DEF IInv, Inv
  <1>g. PICK ok \in BOOLEAN, again \in {FALSE, Reentrant} :
           /\ s.foregroundActive /\ s.owner = "none" /\ s.joiner = "none" /\ ~s.transport
           /\ LET a == [s EXCEPT !.needsReinit = @ /\ ~ok]
              IN  s' = IF ok /\ s.cancel # "cancelled" THEN BeginScan(a) ELSE ActionDone(a, again)
    BY ReentrantAssumption DEF ForegroundReinitEnds
  <1>h. /\ s.foregroundActive /\ s.owner = "none" /\ s.joiner = "none" /\ ~s.transport
        /\ ~s.serviceActive /\ s.task = "none" /\ ~s.serviceDraining /\ s.sessionOpen = TRUE
        /\ s.isOpen = TRUE /\ ~s.sessionSuspended /\ ~s.actionPending
        /\ s.action = "act" /\ ~s.answered
    BY <1>0, <1>o, <1>p, <1>a, <1>g DEF SessionState, Ownership, Phases, Actions
  <1>i. s.asserts = TRUE /\ s.error = "none"
    BY <1>0, <1>q, <1>h DEF SessionState, Quiet
  <1> DEFINE nr == s.needsReinit /\ ~ok
             a == [s EXCEPT !.needsReinit = nr]
  <1>a1. a = [s EXCEPT !.needsReinit = nr] OBVIOUS
  <1>n. nr \in BOOLEAN BY <1>0 DEF SessionState
  <1>s. s' = IF ok /\ s.cancel # "cancelled" THEN BeginScan(a) ELSE ActionDone(a, again)
    BY <1>g
  <1> HIDE DEF a, nr
  <1>2. SessionState(a) BY <1>0, <1>a1, <1>n DEF SessionState
  <1>3. CASE ok /\ s.cancel # "cancelled"
    <2> DEFINE m == [a EXCEPT !.asserts = TRUE, !.owner = "scan", !.stopRequested = FALSE]
    <2>m. m = [a EXCEPT !.asserts = TRUE, !.owner = "scan", !.stopRequested = FALSE] OBVIOUS
    <2>0. a.asserts = TRUE /\ a.owner = "none" BY <1>0, <1>h, <1>i, <1>a1 DEF SessionState
    <2>a. s' = Command(m) BY <1>s, <1>2, <1>3, <2>0 DEF BeginScan, Assert, SessionState
    <2> HIDE DEF m
    <2>b. SessionState(m) BY <1>2, <2>m DEF SessionState
    <2>c. s' = [m EXCEPT !.reader = IF @ = "none" THEN "pending" ELSE @, !.transport = TRUE]
      BY <2>a, <2>b DEF Command, StartReader, SessionState
    <2>1. s' = [s EXCEPT !.needsReinit = nr, !.asserts = TRUE, !.owner = "scan", !.stopRequested = FALSE,
                         !.reader = IF @ = "none" THEN "pending" ELSE @, !.transport = TRUE]
      BY <1>0, <1>a1, <2>m, <2>c DEF SessionState
    <2>2. SessionState(s') BY <2>b, <2>c DEF SessionState
    <2>3. Ownership(s') BY <1>0, <2>1, <1>o, <1>h DEF SessionState, Ownership
    <2>4. Phases(s') BY <1>0, <2>1, <1>p, <1>h DEF SessionState, Phases
    <2>5. Actions(s') BY <1>0, <2>1, <1>a, <1>h DEF SessionState, Actions
    <2>6. Boundaries(s') BY <1>0, <2>1, <1>b, <1>h DEF SessionState, Boundaries
    <2>7. Quiet(s') BY <1>0, <2>1, <1>q, <1>h DEF SessionState, Quiet
    <2>8. /\ Holder(s') = Holder(s) /\ Request(s') = Request(s) /\ AtBoundary(s') = AtBoundary(s)
          /\ ~s'.needsReinit
      BY <1>0, <1>h, <1>3, <2>1 DEF nr, SessionState, Holder, Request, AtBoundary, SessionWork
    <2>9. Handover BY <2>8, Primed DEF Handover, Usable, HO!vars
    <2> QED BY <2>2, <2>3, <2>4, <2>5, <2>6, <2>7, <2>9 DEF IInv, Inv, Requests
  <1>4. CASE ~(ok /\ s.cancel # "cancelled")
    <2> DEFINE c == [a EXCEPT !.foregroundActive = FALSE, !.asserts = TRUE, !.answered = TRUE,
                              !.cancelDue = FALSE]
    <2>c. c = [a EXCEPT !.foregroundActive = FALSE, !.asserts = TRUE, !.answered = TRUE,
                        !.cancelDue = FALSE]
      OBVIOUS
    <2>0. a.asserts = TRUE /\ a.action = "act" /\ ~a.answered
      BY <1>0, <1>h, <1>i, <1>a1 DEF SessionState
    <2>1. Complete([a EXCEPT !.foregroundActive = FALSE]) = c
      BY <1>2, <2>0 DEF Complete, Assert, SessionState
    <2> HIDE DEF c
    <2>2. s' = Settle(IF again THEN AdmitAction(c) ELSE c)
      BY <1>s, <1>4, <2>1 DEF ActionDone
    <2>3. SessionState(c) BY <1>2, <2>c DEF SessionState
    <2>4. c = [s EXCEPT !.needsReinit = nr, !.foregroundActive = FALSE, !.asserts = TRUE,
                        !.answered = TRUE, !.cancelDue = FALSE]
      BY <1>0, <1>a1, <2>c DEF SessionState
    <2>5. Free(c)
      BY <1>0, <1>p, <1>a, <1>b, <1>h, <1>i, <2>3, <2>4
      DEF SessionState, Free, Phases, Actions, Boundaries
    <2>6. /\ ~c.serviceDraining /\ c.action = "act" /\ c.answered
          /\ c.serviceJoined = s.serviceJoined /\ ~c.actionPending
      BY <1>0, <1>h, <2>4 DEF SessionState
    <2>9. /\ Holder(s) = "action" /\ Request(s) = "running"
          /\ AtBoundary(s) = (s.serviceJoined # "none")
      BY <1>0, <1>b, <1>h DEF Boundaries, SessionState, Holder, Request, AtBoundary, SessionWork
    <2>7. CASE again
      BY <2>2, <2>5, <2>6, <2>7, <2>9, AdmitFree, SettledStep DEF IInv
    <2>8. CASE ~again
      BY <2>2, <2>5, <2>6, <2>8, <2>9, SettleInv, SettledStep DEF IInv
    <2> QED BY <2>7, <2>8
  <1> QED BY <1>3, <1>4

\* The open state machine ends, well or badly.
LEMMA OpenSsmDoneInv ==
  ASSUME IInv, OpenSsmDone
  PROVE  IInv' /\ Handover
  <1>0. SessionState(s) BY DEF IInv, Inv
  <1>o. Ownership(s) BY DEF IInv, Inv
  <1>p. Phases(s) BY DEF IInv, Inv
  <1>a. Actions(s) BY DEF IInv, Inv, Requests
  <1>b. Boundaries(s) BY DEF IInv, Inv, Requests
  <1>q. Quiet(s) BY DEF IInv, Inv
  <1>g. PICK e \in Error :
          /\ s.task = "open" /\ ~s.transport
          /\ LET a == [s EXCEPT !.task = "none", !.error = e]
             IN  s' = IF e = "none" THEN OpenCompleteAfterIdle(a)
                      ELSE TransportQuiesce(a, "open", OpenCompleteAfterIdle)
    BY DEF OpenSsmDone
  <1>h. /\ s.task = "open" /\ ~s.transport /\ s.joiner = "none" /\ s.action = "open" /\ ~s.answered
        /\ s.owner = "none" /\ ~s.serviceActive /\ ~s.foregroundActive /\ ~s.serviceDraining
        /\ ~s.actionPending /\ s.serviceJoined = "none" /\ ~s.sessionOpen /\ ~s.isOpen
        /\ ~s.sessionSuspended /\ ~s.isSuspended /\ ~s.suspendPending
        /\ s.power # "resuming" /\ (s.power = "suspending" => s.deferred)
    BY <1>0, <1>o, <1>p, <1>a, <1>b, <1>g
    DEF SessionState, Ownership, Phases, Actions, Boundaries
  <1>i. s.asserts = TRUE /\ s.error = "none"
    BY <1>0, <1>q, <1>h DEF SessionState, Quiet
  <1> DEFINE a == [s EXCEPT !.task = "none", !.error = e]
  <1>a1. a = [s EXCEPT !.task = "none", !.error = e] OBVIOUS
  <1>s. s' = IF e = "none" THEN OpenCompleteAfterIdle(a)
             ELSE TransportQuiesce(a, "open", OpenCompleteAfterIdle)
    BY <1>g
  <1> HIDE DEF a
  <1>2. SessionState(a) BY <1>0, <1>a1 DEF SessionState
  <1>3. a.reader = s.reader /\ a.asserts = TRUE /\ ~a.transport /\ a.joiner = "none"
    BY <1>0, <1>h, <1>i, <1>a1 DEF SessionState
  <1>w. Holder(s) = "session" /\ Request(s) = "none" /\ ~AtBoundary(s)
    BY <1>0, <1>h DEF SessionState, Holder, Request, AtBoundary, SessionWork
  <1>4. CASE e = "none"
    <2>1. OpenEnd(a)
      BY <1>0, <1>a, <1>b, <1>h, <1>i, <1>a1, <1>2, <1>4
      DEF SessionState, OpenEnd, Between, Actions, Boundaries
    <2> QED BY <1>s, <1>w, <1>4, <2>1, OpenCompleteInv, LeaveStep, RetryStep DEF IInv
  <1>5. CASE e # "none" /\ s.reader = "pending"
    <2>1. s' = [s EXCEPT !.task = "none", !.error = e, !.asserts = TRUE, !.joiner = "open"]
      BY <1>0, <1>s, <1>2, <1>3, <1>5, <1>a1 DEF TransportQuiesce, Assert, SessionState
    <2>2. SessionState(s') BY <1>0, <2>1 DEF SessionState
    <2>3. Ownership(s') BY <1>0, <2>1, <1>o, <1>h, <1>5 DEF SessionState, Ownership
    <2>4. Phases(s') BY <1>0, <2>1, <1>p, <1>h, <1>5 DEF SessionState, Phases
    <2>5. Actions(s') BY <1>0, <2>1, <1>a, <1>h, <1>5 DEF SessionState, Actions
    <2>6. Boundaries(s') BY <1>0, <2>1, <1>b, <1>h, <1>5 DEF SessionState, Boundaries
    <2>7. Quiet(s') BY <1>0, <2>1, <1>q, <1>h, <1>5 DEF SessionState, Quiet
    <2>8. Same(s, s')
      BY <1>0, <1>h, <1>5, <2>1
      DEF Same, SessionState, Holder, Request, AtBoundary, SessionWork
    <2> QED BY <2>2, <2>3, <2>4, <2>5, <2>6, <2>7, <2>8, SameStep DEF IInv, Inv, Requests
  <1>6. CASE e # "none" /\ s.reader # "pending"
    <2> DEFINE v == [s EXCEPT !.task = "none", !.error = e, !.asserts = TRUE, !.reader = "none"]
    <2>v. v = [s EXCEPT !.task = "none", !.error = e, !.asserts = TRUE, !.reader = "none"] OBVIOUS
    <2>1. s' = OpenCompleteAfterIdle(v)
      BY <1>0, <1>s, <1>2, <1>3, <1>6, <1>a1 DEF TransportQuiesce, Assert, SessionState
    <2> HIDE DEF v
    <2>2. SessionState(v) BY <1>0, <2>v DEF SessionState
    <2>3. OpenEnd(v)
      BY <1>0, <1>a, <1>b, <1>h, <1>i, <2>v, <2>2
      DEF SessionState, OpenEnd, Between, Actions, Boundaries
    <2> QED BY <1>w, <2>1, <2>3, OpenCompleteInv, LeaveStep, RetryStep DEF IInv
  <1> QED BY <1>4, <1>5, <1>6

\* The power commands of a suspend end.
LEMMA PowerDoneInv ==
  ASSUME IInv, PowerDone
  PROVE  IInv' /\ Handover
  <1>0. SessionState(s) BY DEF IInv, Inv
  <1>o. Ownership(s) BY DEF IInv, Inv
  <1>p. Phases(s) BY DEF IInv, Inv
  <1>a. Actions(s) BY DEF IInv, Inv, Requests
  <1>b. Boundaries(s) BY DEF IInv, Inv, Requests
  <1>q. Quiet(s) BY DEF IInv, Inv
  <1>g. PICK e \in {"none", "plain"} :
          /\ s.task = "power" /\ ~s.transport
          /\ s' = TransportQuiesce([s EXCEPT !.task = "none", !.error = e], "power", SuspendJoined)
    BY DEF PowerDone
  <1>h. /\ s.task = "power" /\ ~s.transport /\ s.joiner = "none"
        /\ s.owner = "none" /\ ~s.serviceActive /\ ~s.foregroundActive /\ ~s.serviceDraining
        /\ ~s.actionPending /\ s.serviceJoined = "none" /\ s.sessionOpen /\ s.isOpen
        /\ ~s.sessionSuspended /\ s.suspendPending /\ s.action \in {"none", "act"}
        /\ s.power = "suspending" /\ ~s.deferred /\ (s.action = "act" => s.answered)
    BY <1>0, <1>o, <1>p, <1>a, <1>b, <1>g
    DEF SessionState, Ownership, Phases, Actions, Boundaries
  <1>i. s.asserts = TRUE /\ s.error = "none"
    BY <1>0, <1>q, <1>h DEF SessionState, Quiet
  <1> DEFINE a == [s EXCEPT !.task = "none", !.error = e]
  <1>a1. a = [s EXCEPT !.task = "none", !.error = e] OBVIOUS
  <1>s. s' = TransportQuiesce(a, "power", SuspendJoined) BY <1>g
  <1> HIDE DEF a
  <1>2. SessionState(a) BY <1>0, <1>a1 DEF SessionState, Error
  <1>3. a.reader = s.reader /\ a.asserts = TRUE /\ ~a.transport /\ a.joiner = "none"
    BY <1>0, <1>h, <1>i, <1>a1 DEF SessionState
  <1>w. Holder(s) = "session" /\ Request(s) = "none" /\ AtBoundary(s)
    BY <1>0, <1>h DEF SessionState, Holder, Request, AtBoundary, SessionWork
  <1>5. CASE s.reader = "pending"
    <2>1. s' = [s EXCEPT !.task = "none", !.error = e, !.asserts = TRUE, !.joiner = "power"]
      BY <1>0, <1>s, <1>2, <1>3, <1>5, <1>a1 DEF TransportQuiesce, Assert, SessionState
    <2>2. SessionState(s') BY <1>0, <2>1 DEF SessionState, Error
    <2>3. Ownership(s') BY <1>0, <2>1, <1>o, <1>h, <1>5 DEF SessionState, Ownership
    <2>4. Phases(s') BY <1>0, <2>1, <1>p, <1>h, <1>5 DEF SessionState, Phases
    <2>5. Actions(s') BY <1>0, <2>1, <1>a, <1>h, <1>5 DEF SessionState, Actions
    <2>6. Boundaries(s') BY <1>0, <2>1, <1>b, <1>h, <1>5 DEF SessionState, Boundaries
    <2>7. Quiet(s') BY <1>0, <2>1, <1>q, <1>h, <1>5 DEF SessionState, Quiet
    <2>8. Same(s, s')
      BY <1>0, <1>h, <1>5, <2>1
      DEF Same, SessionState, Holder, Request, AtBoundary, SessionWork
    <2> QED BY <2>2, <2>3, <2>4, <2>5, <2>6, <2>7, <2>8, SameStep DEF IInv, Inv, Requests
  <1>6. CASE s.reader # "pending"
    <2> DEFINE v == [s EXCEPT !.task = "none", !.error = e, !.asserts = TRUE, !.reader = "none"]
    <2>v. v = [s EXCEPT !.task = "none", !.error = e, !.asserts = TRUE, !.reader = "none"] OBVIOUS
    <2>1. s' = SuspendJoined(v)
      BY <1>0, <1>s, <1>2, <1>3, <1>6, <1>a1 DEF TransportQuiesce, Assert, SessionState
    <2> HIDE DEF v
    <2>2. SessionState(v) BY <1>0, <2>v DEF SessionState, Error
    <2>3. SuspendEnd(v)
      BY <1>0, <1>a, <1>b, <1>h, <1>i, <2>v, <2>2
      DEF SessionState, SuspendEnd, Between, Actions, Boundaries
    <2> QED BY <1>w, <2>1, <2>3, SuspendJoinedInv, SuspendedStep DEF IInv
  <1> QED BY <1>5, <1>6

\* goodix_resume_done: the session is settled, after a join if there was an error.
LEMMA ResumeDoneInv ==
  ASSUME IInv, s.task \in {"warm", "cold"}, ~s.transport, s.joiner = "none", NEW e \in Error
  PROVE  /\ Inv(ResumeDone(s, e))
         /\ ResumeDone(s, e) = s' => Handover
  <1>0. SessionState(s) BY DEF IInv, Inv
  <1>o. Ownership(s) BY DEF IInv, Inv
  <1>p. Phases(s) BY DEF IInv, Inv
  <1>a. Actions(s) BY DEF IInv, Inv, Requests
  <1>b. Boundaries(s) BY DEF IInv, Inv, Requests
  <1>q. Quiet(s) BY DEF IInv, Inv
  <1>h. /\ ~s.transport /\ s.joiner = "none"
        /\ s.owner = "none" /\ ~s.serviceActive /\ ~s.foregroundActive /\ ~s.serviceDraining
        /\ ~s.actionPending /\ s.serviceJoined = "none" /\ s.sessionOpen /\ s.isOpen
        /\ s.sessionSuspended /\ s.isSuspended /\ ~s.suspendPending /\ s.action \in {"none", "act"}
        /\ s.power = "resuming" /\ (s.action = "act" => s.answered)
    BY <1>0, <1>o, <1>p, <1>a, <1>b
    DEF SessionState, Ownership, Phases, Actions, Boundaries
  <1>i. s.asserts = TRUE /\ s.error = "none"
    BY <1>0, <1>q, <1>h DEF SessionState, Quiet
  <1> DEFINE a == [s EXCEPT !.task = "none", !.error = e]
             u == ResumeDone(s, e)
  <1>a1. a = [s EXCEPT !.task = "none", !.error = e] OBVIOUS
  <1>s. u = IF e = "none" THEN ResumeJoined(a) ELSE TransportQuiesce(a, "resume", ResumeJoined)
    BY DEF ResumeDone
  <1> HIDE DEF a
  <1>2. SessionState(a) BY <1>0, <1>a1 DEF SessionState
  <1>3. a.reader = s.reader /\ a.asserts = TRUE /\ ~a.transport /\ a.joiner = "none"
    BY <1>0, <1>h, <1>i, <1>a1 DEF SessionState
  <1>w. Holder(s) = "session" BY <1>0, <1>h DEF SessionState, Holder, Request, AtBoundary, SessionWork
  <1>4. CASE e = "none"
    <2>1. ResumeEnd(a)
      BY <1>0, <1>a, <1>b, <1>h, <1>i, <1>a1, <1>2, <1>4
      DEF SessionState, ResumeEnd, Between, Actions, Boundaries
    <2> QED BY <1>s, <1>w, <1>4, <2>1, ResumeJoinedInv, LeaveStep
  <1>5. CASE e # "none" /\ s.reader = "pending"
    <2>1. u = [s EXCEPT !.task = "none", !.error = e, !.asserts = TRUE, !.joiner = "resume"]
      BY <1>0, <1>s, <1>2, <1>3, <1>5, <1>a1 DEF TransportQuiesce, Assert, SessionState
    <2> HIDE DEF u
    <2>2. SessionState(u) BY <1>0, <2>1 DEF SessionState
    <2>3. Ownership(u) BY <1>0, <2>1, <1>o, <1>h, <1>5 DEF SessionState, Ownership
    <2>4. Phases(u) BY <1>0, <2>1, <1>p, <1>h, <1>5 DEF SessionState, Phases
    <2>5. Actions(u) BY <1>0, <2>1, <1>a, <1>h, <1>5 DEF SessionState, Actions
    <2>6. Boundaries(u) BY <1>0, <2>1, <1>b, <1>h, <1>5 DEF SessionState, Boundaries
    <2>7. Quiet(u) BY <1>0, <2>1, <1>q, <1>h, <1>5 DEF SessionState, Quiet
    <2>8. Same(s, u)
      BY <1>0, <1>h, <1>5, <2>1
      DEF Same, SessionState, Holder, Request, AtBoundary, SessionWork
    <2> QED BY <2>2, <2>3, <2>4, <2>5, <2>6, <2>7, <2>8, SameStep DEF Inv, Requests, u
  <1>6. CASE e # "none" /\ s.reader # "pending"
    <2> DEFINE v == [s EXCEPT !.task = "none", !.error = e, !.asserts = TRUE, !.reader = "none"]
    <2>v. v = [s EXCEPT !.task = "none", !.error = e, !.asserts = TRUE, !.reader = "none"] OBVIOUS
    <2>1. u = ResumeJoined(v)
      BY <1>0, <1>s, <1>2, <1>3, <1>6, <1>a1 DEF TransportQuiesce, Assert, SessionState
    <2> HIDE DEF v
    <2>2. SessionState(v) BY <1>0, <2>v DEF SessionState
    <2>3. ResumeEnd(v)
      BY <1>0, <1>a, <1>b, <1>h, <1>i, <2>v, <2>2
      DEF SessionState, ResumeEnd, Between, Actions, Boundaries
    <2> QED BY <1>w, <2>1, <2>3, ResumeJoinedInv, LeaveStep DEF u
  <1> QED BY <1>4, <1>5, <1>6

\* Reinitialization in a resume ends.
LEMMA ColdDoneInv ==
  ASSUME IInv, ColdDone
  PROVE  IInv' /\ Handover
  BY ResumeDoneInv DEF ColdDone, IInv, Error

\* The warm probe ends; a plain failure turns into reinitialization.
LEMMA WarmDoneInv ==
  ASSUME IInv, WarmDone
  PROVE  IInv' /\ Handover
  <1>0. SessionState(s) BY DEF IInv, Inv
  <1>o. Ownership(s) BY DEF IInv, Inv
  <1>p. Phases(s) BY DEF IInv, Inv
  <1>a. Actions(s) BY DEF IInv, Inv, Requests
  <1>b. Boundaries(s) BY DEF IInv, Inv, Requests
  <1>q. Quiet(s) BY DEF IInv, Inv
  <1>g. PICK e \in Error :
          /\ s.task = "warm" /\ ~s.transport
          /\ s' = IF e = "plain"
                  THEN TransportQuiesce([s EXCEPT !.needsReinit = TRUE, !.task = "cold"],
                                        "reinit", ReinitIdleJoined)
                  ELSE ResumeDone(s, e)
    BY DEF WarmDone
  <1>h. /\ s.task = "warm" /\ s.joiner = "none" /\ s.asserts = TRUE /\ s.owner = "none"
        /\ ~s.serviceActive /\ ~s.foregroundActive
    BY <1>0, <1>o, <1>p, <1>q, <1>g DEF SessionState, Ownership, Phases, Quiet
  <1>4. CASE e # "plain"
    BY <1>g, <1>h, <1>4, ResumeDoneInv DEF IInv
  <1>5. CASE e = "plain" /\ s.reader = "pending"
    <2>1. s' = [s EXCEPT !.needsReinit = TRUE, !.task = "cold", !.asserts = TRUE, !.joiner = "reinit"]
      BY <1>0, <1>g, <1>h, <1>5 DEF TransportQuiesce, Assert, SessionState
    <2>2. SessionState(s') BY <1>0, <2>1 DEF SessionState
    <2>3. Ownership(s') BY <1>0, <2>1, <1>o, <1>g, <1>h, <1>5 DEF SessionState, Ownership
    <2>4. Phases(s') BY <1>0, <2>1, <1>p, <1>g, <1>h, <1>5 DEF SessionState, Phases
    <2>5. Actions(s') BY <1>0, <2>1, <1>a, <1>g, <1>h, <1>5 DEF SessionState, Actions
    <2>6. Boundaries(s') BY <1>0, <2>1, <1>b, <1>g, <1>h, <1>5 DEF SessionState, Boundaries
    <2>7. Quiet(s') BY <1>0, <2>1, <1>q, <1>g, <1>h, <1>5 DEF SessionState, Quiet
    <2>8. Same(s, s')
      BY <1>0, <1>h, <2>1
      DEF Same, SessionState, Holder, Request, AtBoundary, SessionWork
    <2> QED BY <2>2, <2>3, <2>4, <2>5, <2>6, <2>7, <2>8, SameStep DEF IInv, Inv, Requests
  <1>6. CASE e = "plain" /\ s.reader # "pending"
    <2>1. s' = [s EXCEPT !.needsReinit = TRUE, !.task = "cold", !.asserts = TRUE, !.reader = "none",
                         !.recovered = FALSE]
      BY <1>0, <1>g, <1>h, <1>6, ZenonT(60)
        DEF TransportQuiesce, ReinitIdleJoined, Invalidate, Assert, SessionState
    <2>2. SessionState(s') BY <1>0, <2>1 DEF SessionState
    <2>3. Ownership(s') BY <1>0, <2>1, <1>o, <1>g, <1>h DEF SessionState, Ownership
    <2>4. Phases(s') BY <1>0, <2>1, <1>p, <1>g, <1>h DEF SessionState, Phases
    <2>5. Actions(s') BY <1>0, <2>1, <1>a, <1>g, <1>h DEF SessionState, Actions
    <2>6. Boundaries(s') BY <1>0, <2>1, <1>b, <1>g, <1>h DEF SessionState, Boundaries
    <2>7. Quiet(s') BY <1>0, <2>1, <1>q, <1>g, <1>h DEF SessionState, Quiet
    <2>8. Same(s, s')
      BY <1>0, <1>h, <2>1
      DEF Same, SessionState, Holder, Request, AtBoundary, SessionWork
    <2> QED BY <2>2, <2>3, <2>4, <2>5, <2>6, <2>7, <2>8, SameStep DEF IInv, Inv, Requests
  <1> QED BY <1>4, <1>5, <1>6

\* The cancelled reader comes back and its joiner goes on.
LEMMA ReaderJoinedInv ==
  ASSUME IInv, ReaderJoined
  PROVE  IInv' /\ Handover
  <1>0. SessionState(s) BY DEF IInv, Inv
  <1>o. Ownership(s) BY DEF IInv, Inv
  <1>p. Phases(s) BY DEF IInv, Inv
  <1>a. Actions(s) BY DEF IInv, Inv, Requests
  <1>b. Boundaries(s) BY DEF IInv, Inv, Requests
  <1>q. Quiet(s) BY DEF IInv, Inv
  <1>g. s.joiner # "none" /\ s.reader = "pending" BY DEF ReaderJoined
  <1>i. s.asserts = TRUE /\ ~s.transport BY <1>0, <1>q, <1>g DEF SessionState, Quiet
  <1>j. s.joiner # "reinit" =>
          /\ ~s.serviceActive /\ ~s.foregroundActive /\ ~s.actionPending /\ s.owner = "none"
          /\ s.task = "none" /\ (s.action = "act" => s.answered)
    BY <1>0, <1>o, <1>p, <1>a, <1>g DEF SessionState, Ownership, Phases, Actions
  <1> DEFINE a == [s EXCEPT !.reader = "none", !.joiner = "none"]
  <1>a1. a = [s EXCEPT !.reader = "none", !.joiner = "none"] OBVIOUS
  <1>s. s' = CASE s.joiner = "session" -> HardwareJoined(a)
               [] s.joiner = "open"    -> OpenCompleteAfterIdle(a)
               [] s.joiner = "reinit"  -> ReinitIdleJoined(a)
               [] s.joiner = "power"   -> SuspendJoined(a)
               [] s.joiner = "resume"  -> ResumeJoined(a)
    BY DEF ReaderJoined
  <1> HIDE DEF a
  <1>2. SessionState(a) BY <1>0, <1>a1 DEF SessionState
  <1>w. s.joiner # "reinit" => Holder(s) = "session" /\ Request(s) = "none"
    BY <1>0, <1>g, <1>j DEF SessionState, Holder, Request, AtBoundary, SessionWork
  <1>3. CASE s.joiner = "session"
    <2>1. /\ s.serviceJoined # "none" /\ s.sessionOpen = TRUE /\ s.isOpen = TRUE
          /\ s.error = "none" /\ s.power # "resuming" /\ (s.action = "open" => s.answered)
          /\ ~s.sessionSuspended
      BY <1>0, <1>p, <1>b, <1>q, <1>3, <1>j DEF SessionState, Phases, Boundaries, Quiet
    <2>2. Free(a)
      BY <1>0, <1>p, <1>a, <1>b, <1>i, <1>j, <1>3, <1>a1, <1>2, <2>1
      DEF SessionState, Free, Phases, Actions, Boundaries
    <2>3. a.serviceJoined # "none" /\ a.reader = "none" /\ ~a.actionPending
      BY <1>0, <1>j, <1>3, <1>a1, <2>1 DEF SessionState
    <2>4. s' = HardwareJoined(a) BY <1>s, <1>3
    <2>5. AtBoundary(s) BY <2>1 DEF AtBoundary
    <2> QED BY <1>3, <1>w, <2>2, <2>3, <2>4, <2>5, HardwareJoinedInv, ReachStep DEF IInv
  <1>4. CASE s.joiner = "open"
    <2>1. /\ ~s.sessionOpen /\ ~s.isOpen /\ ~s.sessionSuspended /\ ~s.isSuspended /\ ~s.suspendPending
          /\ s.action = "open" /\ ~s.answered /\ s.serviceJoined = "none" /\ ~s.serviceDraining
          /\ s.power # "resuming" /\ (s.power = "suspending" => s.deferred)
      BY <1>0, <1>p, <1>b, <1>4, <1>j DEF SessionState, Phases, Boundaries
    <2>2. OpenEnd(a)
      BY <1>0, <1>a, <1>b, <1>i, <1>j, <1>4, <1>a1, <1>2, <2>1
      DEF SessionState, OpenEnd, Between, Actions, Boundaries
    <2>4. s' = OpenCompleteAfterIdle(a) BY <1>s, <1>4
    <2>5. ~AtBoundary(s) BY <2>1 DEF AtBoundary
    <2> QED BY <1>4, <1>w, <2>2, <2>4, <2>5, OpenCompleteInv, LeaveStep, RetryStep DEF IInv
  <1>5. CASE s.joiner = "power"
    <2>1. /\ s.action \in {"none", "act"} /\ s.sessionOpen /\ s.isOpen /\ s.suspendPending
          /\ ~s.sessionSuspended /\ s.power = "suspending" /\ ~s.deferred
          /\ s.serviceJoined = "none" /\ ~s.serviceDraining
      BY <1>0, <1>p, <1>b, <1>5, <1>j DEF SessionState, Phases, Boundaries
    <2>2. SuspendEnd(a)
      BY <1>0, <1>a, <1>b, <1>i, <1>j, <1>5, <1>a1, <1>2, <2>1
      DEF SessionState, SuspendEnd, Between, Actions, Boundaries
    <2>4. s' = SuspendJoined(a) BY <1>s, <1>5
    <2>5. AtBoundary(s) BY <2>1 DEF AtBoundary
    <2> QED BY <1>5, <1>w, <2>2, <2>4, <2>5, SuspendJoinedInv, SuspendedStep DEF IInv
  <1>6. CASE s.joiner = "resume"
    <2>1. /\ s.action \in {"none", "act"} /\ s.sessionOpen /\ s.isOpen /\ ~s.suspendPending
          /\ s.sessionSuspended /\ s.isSuspended /\ s.power = "resuming"
          /\ s.serviceJoined = "none" /\ ~s.serviceDraining
      BY <1>0, <1>p, <1>b, <1>6, <1>j DEF SessionState, Phases, Boundaries
    <2>2. ResumeEnd(a)
      BY <1>0, <1>a, <1>b, <1>i, <1>j, <1>6, <1>a1, <1>2, <2>1
      DEF SessionState, ResumeEnd, Between, Actions, Boundaries
    <2>4. s' = ResumeJoined(a) BY <1>s, <1>6
    <2> QED BY <1>6, <1>w, <2>2, <2>4, ResumeJoinedInv, LeaveStep DEF IInv
  <1>7. CASE s.joiner = "reinit"
    <2>a. s' = ReinitIdleJoined(a) BY <1>s, <1>7
    <2>b. a.asserts = TRUE /\ ~a.transport /\ a.reader = "none"
      BY <1>0, <1>i, <1>a1 DEF SessionState
    <2>c. Invalidate(a) = [a EXCEPT !.asserts = TRUE]
      BY <2>b DEF Invalidate, Assert
    <2>d. s' = [[[s EXCEPT !.reader = "none", !.joiner = "none"] EXCEPT !.asserts = TRUE]
                  EXCEPT !.recovered = FALSE]
      BY <1>a1, <2>a, <2>c DEF ReinitIdleJoined
    <2>1. s' = [s EXCEPT !.reader = "none", !.joiner = "none", !.asserts = TRUE, !.recovered = FALSE]
      BY <1>0, <2>d DEF SessionState
    <2>2. SessionState(s') BY <1>0, <2>1 DEF SessionState
    <2>3. Ownership(s') BY <1>0, <2>1, <1>o, <1>i, <1>7 DEF SessionState, Ownership
    <2>4. Phases(s') BY <1>0, <2>1, <1>p, <1>i, <1>7 DEF SessionState, Phases
    <2>5. Actions(s') BY <1>0, <2>1, <1>a, <1>i, <1>7 DEF SessionState, Actions
    <2>6. Boundaries(s') BY <1>0, <2>1, <1>b, <1>i, <1>7 DEF SessionState, Boundaries
    <2>7. Quiet(s') BY <1>0, <2>1, <1>q, <1>p, <1>i, <1>7 DEF SessionState, Quiet, Phases
    <2>8. Same(s, s')
      BY <1>0, <1>7, <2>1
      DEF Same, SessionState, Holder, Request, AtBoundary, SessionWork
    <2> QED BY <2>2, <2>3, <2>4, <2>5, <2>6, <2>7, <2>8, SameStep DEF IInv, Inv, Requests
  <1> QED BY <1>0, <1>g, <1>3, <1>4, <1>5, <1>6, <1>7 DEF SessionState

\* The inductive invariant holds before the first open.
LEMMA InitInv ==
  ASSUME Init
  PROVE  IInv
  <1>1. SessionState(s) BY DEF Init, SessionState, Error
  <1>2. Ownership(s) BY DEF Init, Ownership
  <1>3. Phases(s) BY DEF Init, Phases
  <1>4. Requests(s) BY DEF Init, Requests, Actions, Boundaries
  <1>5. Quiet(s) BY DEF Init, Quiet
  <1> QED BY <1>1, <1>2, <1>3, <1>4, <1>5 DEF IInv, Inv

\* Every action of every actor preserves the inductive invariant, and hands the
\* hardware on as HardwareOwner allows.
LEMMA NextStep ==
  ASSUME IInv, [Next]_vars
  PROVE  IInv' /\ Handover
  <1>1. CASE Open BY <1>1, OpenInv
  <1>2. CASE Close BY <1>2, CloseInv
  <1>3. CASE Act BY <1>3, ActInv
  <1>4. CASE UserCancel BY <1>4, UserCancelInv
  <1>5. CASE Suspend BY <1>5, SuspendInv
  <1>6. CASE Resume BY <1>6, ResumeInv
  <1>7. CASE Removed BY <1>7, RemovedBusyInv, RemovedIdleInv
  <1>8. CASE Cancel BY <1>8, CancelInv
  <1>9. CASE Deliver BY <1>9, DeliverSuspendInv, DeliverPlainInv
  <1>10. CASE StartOperation BY <1>10, StartOperationInv
  <1>11. CASE OperationDone BY <1>11, OperationDoneInv
  <1>12. CASE ReaderError BY <1>12, ReaderErrorInv
  <1>13. CASE ReaderJoined BY <1>13, ReaderJoinedInv
  <1>14. CASE ServiceEnds BY <1>14, ServiceEndsInv
  <1>15. CASE TailEnds BY <1>15, TailEndsInv
  <1>16. CASE ScanEnds BY <1>16, ScanEndsInv
  <1>17. CASE ForegroundReinitEnds BY <1>17, ForegroundReinitEndsInv
  <1>18. CASE OpenSsmDone BY <1>18, OpenSsmDoneInv
  <1>19. CASE PowerDone BY <1>19, PowerDoneInv
  <1>20. CASE WarmDone BY <1>20, WarmDoneInv
  <1>21. CASE ColdDone BY <1>21, ColdDoneInv
  <1>22. CASE UNCHANGED vars
    <2>1. s' = s BY <1>22 DEF vars
    <2> QED BY <2>1, SameStep DEF IInv, Same
  <1> QED
    BY <1>1, <1>2, <1>3, <1>4, <1>5, <1>6, <1>7, <1>8, <1>9, <1>10, <1>11, <1>12, <1>13, <1>14, <1>15, <1>16, <1>17, <1>18, <1>19, <1>20, <1>21, <1>22
    DEF Next, Application, Core, Driver

\* The inductive invariant holds in every reachable state.
THEOREM Invariance == Spec => []IInv
  <1>1. Init => IInv BY InitInv
  <1>2. IInv /\ [Next]_vars => IInv' BY NextStep
  <1> QED BY <1>1, <1>2, PTL DEF Spec

\* Every field of the session keeps its type, a physical stop in flight keeps its
\* callback and an error waits only in the join that reports it.
THEOREM TypeCorrect == Spec => []TypeOK
  <1>1. IInv => TypeOK
    BY DEF IInv, Inv, Phases, Quiet, TypeOK
  <1> QED BY <1>1, Invariance, PTL

\* At most one owner holds the sensor hardware (session.c:43-48), however the
\* requests, completions, cancellations and reader errors interleave.
THEOREM OneOwner == Spec => []AtMostOneOwner
  <1>1. IInv => AtMostOneOwner
    BY DEF IInv, Inv, SessionState, Ownership, AtMostOneOwner, SessionWork
  <1> QED BY <1>1, Invariance, PTL

\* Every unanswered request of the core has exactly one continuation in the
\* driver, and no continuation outlives its request.
THEOREM RequestsAreHeld == Spec => []RequestsHeld
  <1>1. IInv => RequestsHeld
    <2> SUFFICES ASSUME IInv PROVE RequestsHeld OBVIOUS
    <2>1. SessionState(s) /\ Ownership(s) /\ Phases(s) /\ Actions(s) /\ Boundaries(s)
      BY DEF IInv, Inv, Requests
    <2> QED BY <2>1 DEF SessionState, Ownership, Phases, Actions, Boundaries, RequestsHeld
  <1> QED BY <1>1, Invariance, PTL

\* No assertion of session.c, scan.c and transport.c fails, and no request is
\* completed twice.
THEOREM AssertsHold == Spec => []NoAssertFails
  <1>1. IInv => NoAssertFails
    BY DEF IInv, Inv, Quiet, NoAssertFails
  <1> QED BY <1>1, Invariance, PTL

\* The two together are what a run checks as one property.
THEOREM Exclusivity == Spec => []Exclusive
  <1>1. AtMostOneOwner /\ NoAssertFails => Exclusive
    BY DEF Exclusive
  <1> QED BY <1>1, OneOwner, AssertsHold, PTL

\* A closed or suspended session leaves the USB device alone, and no command
\* is issued while the reader is being joined.
THEOREM StoppedIsQuiet == Spec => []QuietWhenStopped
  <1>1. IInv => QuietWhenStopped
    <2> SUFFICES ASSUME IInv PROVE QuietWhenStopped OBVIOUS
    <2>1. SessionState(s) /\ Ownership(s) /\ Phases(s) /\ Boundaries(s) /\ Quiet(s)
      BY DEF IInv, Inv, Requests
    <2> QED BY <2>1 DEF SessionState, Ownership, Phases, Boundaries, Quiet, QuietWhenStopped
  <1> QED BY <1>1, Invariance, PTL

\* No coordinator starts on hardware that awaits reconstruction, whoever ends
\* and whichever of the callers of settle starts it.
THEOREM ReinitComesFirst == Spec => ReinitBeforeUse
  <1>1. IInv /\ [Next]_vars => [s.owner = "none" /\ s'.owner # "none" => ~s'.needsReinit]_vars
    BY NextStep DEF Handover, Usable
  <1> QED BY <1>1, Invariance, PTL DEF Spec, ReinitBeforeUse

\* The session implements HardwareOwner: every callback hands the hardware on
\* as that module allows, or its hand-over cannot be seen.
THEOREM HardwareOwnerImplemented == Spec => ImplementsHardwareOwner
  <1>1. Init => HO!Init
    BY DEF Init, HO!Init, Holder, Request, AtBoundary, SessionWork
  <1>2. IInv /\ [Next]_vars => [HO!Next]_HO!vars
    BY NextStep DEF Handover
  <1> QED BY <1>1, <1>2, Invariance, PTL DEF Spec, ImplementsHardwareOwner, HO!Spec

=============================================================================
