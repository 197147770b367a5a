------------------------------- MODULE Channel -------------------------------
(***************************************************************************)
(* What the transport promises the owners of the sensor: one operation at  *)
(* a time over one continuous reader, a reader that fails stays failed     *)
(* until it is joined, and a join that excludes operations and always      *)
(* leaves no reader behind.  Session is written against this interface     *)
(* (Command, OperationDone, ReaderError, TransportQuiesce, ReaderJoined);  *)
(* Transport implements it.                                                *)
(***************************************************************************)
VARIABLES busy, reader, joining

vars == <<busy, reader, joining>>

TypeOK ==
  /\ busy \in BOOLEAN /\ joining \in BOOLEAN
  /\ reader \in {"none", "pending", "failed"}

Init == ~busy /\ reader = "none" /\ ~joining

\* An operation is accepted and posts the reader if there is none.
Begin ==
  /\ ~busy /\ ~joining
  /\ busy' = TRUE
  /\ reader' = IF reader = "none" THEN "pending" ELSE reader
  /\ UNCHANGED joining

\* The operation's owner gets its one result.
End == busy /\ busy' = FALSE /\ UNCHANGED <<reader, joining>>

\* The read fails; unless its write is still in flight the operation ends too.
Fail ==
  /\ reader = "pending" /\ ~joining
  /\ reader' = "failed"
  /\ busy' \in {busy, FALSE}
  /\ UNCHANGED joining

\* A hardware boundary stops the reader.
Join ==
  /\ ~busy /\ ~joining
  /\ IF reader = "pending"
     THEN joining' = TRUE /\ UNCHANGED reader
     ELSE reader' = "none" /\ UNCHANGED joining
  /\ UNCHANGED busy

Joined ==
  /\ joining /\ joining' = FALSE /\ reader' = "none" /\ UNCHANGED busy

Next == Begin \/ End \/ Fail \/ Join \/ Joined

Spec == Init /\ [][Next]_vars

=============================================================================
