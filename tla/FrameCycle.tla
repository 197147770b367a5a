----------------------------- MODULE FrameCycle -----------------------------
(***************************************************************************)
(* What a scan promises to the action that started it (device/scan.h): it  *)
(* delivers frames one at a time, takes one verdict for each, settles a    *)
(* verdict that waits for the finger only after the lift, and tells its    *)
(* outcome once, when no frame is in the worker's hands.                   *)
(***************************************************************************)

CONSTANTS AfterUp,   \* verdicts that settle the lift first
          Final      \* the other verdicts

VARIABLES frame,     \* "none", "out" with the worker, or its verdict
          lifted,    \* the finger of the answered frame has left
          told       \* the outcome, "none" while the action runs

vars == <<frame, lifted, told>>

Verdict == AfterUp \cup Final

Init == frame = "none" /\ lifted = FALSE /\ told = "none"

\* A new action: it has no outcome and no frame yet.
Begin == told # "none" /\ frame = "none" /\ told' = "none" /\ UNCHANGED <<frame, lifted>>

Deliver ==
  /\ told = "none" /\ frame = "none"
  /\ frame' \in {"out", "fatal"} /\ lifted' = FALSE /\ UNCHANGED told

Lift == frame # "none" /\ lifted' = TRUE /\ UNCHANGED <<frame, told>>

Answer == frame = "out" /\ frame' \in Verdict /\ UNCHANGED <<lifted, told>>

\* Only "continue" goes on to another frame.
Settle ==
  /\ frame = "continue" /\ lifted
  /\ frame' = "none" /\ lifted' = FALSE /\ UNCHANGED told

\* An action succeeds by a match, or by a settled last verdict.
Tell(verdict) ==
  /\ told = "none"
  /\ told' \in {"ok", "cancelled", "error"}
  /\ told' = "ok" => verdict = "success" \/ (verdict \in {"retry", "final"} /\ lifted)
  /\ lifted' = FALSE

\* The outcome is told without a frame, with the frame's verdict, which may
\* arrive with it (then only a match is a success), or right after the verdict
\* has been settled.
End ==
  \/ frame # "out" /\ frame' = frame /\ Tell(frame)
  \/ /\ frame = "out" /\ frame' \in Verdict /\ Tell(frame')
     /\ told' = "ok" => frame' = "success"
  \/ frame = "continue" /\ lifted /\ frame' = "none" /\ Tell(frame)

\* The owner is released, and with it the last frame.
Leave == told # "none" /\ frame' = "none" /\ UNCHANGED <<lifted, told>>

Next == Leave \/ Begin \/ Deliver \/ Lift \/ Answer \/ Settle \/ End

Spec == Init /\ [][Next]_vars

=============================================================================
