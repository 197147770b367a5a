---------------------------- MODULE HardwareOwner ----------------------------
(***************************************************************************)
(* What an open session promises about the sensor hardware: it has at most *)
(* one owner, it changes hands only when its owner lets go, and nothing    *)
(* new is admitted once suspend or close has asked for the boundary.       *)
(*                                                                         *)
(* Source: the ownership comment of drivers/goodix53x5/device/session.c    *)
(* and the hand-offs of goodix_session_settle and goodix_session_quiesce.  *)
(* Session.tla implements this module.                                     *)
(***************************************************************************)

VARIABLES
  owner,     \* who holds the hardware
  request,   \* the application's action, as the driver sees it
  boundary   \* suspend or close has asked for the hardware, or suspend has it

vars == <<owner, request, boundary>>

TypeOK ==
  /\ owner \in {"none", "background", "action", "session"}
  /\ request \in {"none", "waiting", "running"}
  /\ boundary \in BOOLEAN

Init == owner = "none" /\ request = "none" /\ boundary = FALSE

-----------------------------------------------------------------------------
(* The application's action *)

\* It waits for the background owner, which it asks to stop ...
Wait ==
  /\ owner = "background" /\ request = "none" /\ ~boundary
  /\ request' = "waiting"
  /\ UNCHANGED <<owner, boundary>>

\* ... and takes the hardware when that owner ends, or at once if it is free.
Admit ==
  /\ ~boundary
  /\ <<owner, request>> \in {<<"none", "none">>, <<"background", "waiting">>}
  /\ owner' = "action" /\ request' = "running"
  /\ UNCHANGED boundary

\* While it waits it can be cancelled; the background owner goes on.
Refuse ==
  /\ request = "waiting" /\ request' = "none"
  /\ UNCHANGED <<owner, boundary>>

\* It ends, its deactivation tail goes on in the background; the next action
\* may be waiting for that tail already.
Detach ==
  /\ owner = "action" /\ owner' = "background"
  /\ request' = "none" \/ (request' = "waiting" /\ ~boundary)
  /\ UNCHANGED boundary

-----------------------------------------------------------------------------
(* Background maintenance, and the boundaries of the session *)

\* An owner lets go, and no boundary waits.
Release ==
  /\ owner \in {"background", "action"} /\ ~boundary
  /\ owner' \in {"none", "background"} /\ request' = "none"
  /\ UNCHANGED boundary

\* Suspend or close asks for the hardware: free hardware is theirs at once.
Ask ==
  /\ owner # "session" /\ ~boundary /\ boundary'
  /\ owner' = IF owner = "none" THEN "session" ELSE owner
  /\ UNCHANGED request

\* An owner lets go, and the boundary is reached: a close may end right there.
Join ==
  /\ owner \in {"background", "action"} /\ boundary
  /\ request' = "none"
  /\ <<owner', boundary'>> \in {<<"session", TRUE>>, <<"none", FALSE>>}

\* Open and resume start from free hardware; close may follow suspend.
Enter ==
  /\ owner = "none" /\ owner' = "session"
  /\ UNCHANGED <<request, boundary>>

CloseSuspended ==
  /\ owner = "none" /\ boundary /\ ~boundary'
  /\ UNCHANGED <<owner, request>>

\* Session work ends; only without a boundary does background work follow.
Leave ==
  /\ owner = "session" /\ request' = "none"
  /\ \/ owner' = "none" /\ (boundary' => boundary)
     \/ owner' = "background" /\ ~boundary'

-----------------------------------------------------------------------------
Next ==
  \/ Wait \/ Admit \/ Refuse \/ Detach
  \/ Release \/ Ask \/ Join \/ Enter \/ CloseSuspended \/ Leave

Spec == Init /\ [][Next]_vars

=============================================================================
