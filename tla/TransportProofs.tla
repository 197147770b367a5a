-------------------------- MODULE TransportProofs --------------------------
(***************************************************************************)
(* The safety of Transport, for every set of commands, slots and policies, *)
(* and that it implements Channel.                                         *)
(*                                                                         *)
(* Inv says what CallbackOwed and ResultHonest need of the middle of a     *)
(* buffer, where they say nothing: an end that is noted has its answer,    *)
(* and what is stored came after the command was sent.  First the ends and *)
(* the beginnings of operations that the actions share, then the packets,  *)
(* then one lemma per action: it keeps Inv, is honest to the owner, and is *)
(* a step of the channel or none.                                          *)
(***************************************************************************)
EXTENDS Transport, TLAPS

\* The operation, the reader and the sources attached to them go together.
Shape(t) ==
  /\ t.out <=> t.phase = "send"
  /\ t.cmd # "none" <=> t.phase \in {"send", "ack", "response"}
  /\ t.attempt = 0 <=> t.cmd = "none"
  /\ t.processing <=> t.reader = "idle"
  /\ t.joined => t.phase = "none" /\ t.reader \in {"pending", "idle"}
  /\ t.phase # "none" => t.reader # "none"
  /\ t.timer \/ t.watch => ~IsIdle(t)
  /\ t.completionError # "none" => t.completionPending
  /\ t.completionPending => t.processing /\ ~IsIdle(t)

\* Who waits has something to wait for, also in the middle of a buffer.
Awake(t) ==
  /\ ~t.processing /\ ~IsIdle(t) => t.reader = "pending"
  /\ ~t.completionPending =>
       /\ t.phase = "event" => ~t.pending /\ ~t.restartPending
       /\ t.phase = "reply" /\ ~t.processing => ~t.mcuReady
       /\ t.phase = "ack" => t.ack # "valid"
       /\ t.phase = "response" => SlotOf(t) \notin t.ready

\* What is stored for a command came after it was last sent.
Fresh(t) ==
  /\ t.phase = "response" => "ack" \in t.seen
  /\ t.phase \in {"send", "ack"} /\ t.ack = "valid" => "ack" \in t.seen
  /\ t.cmd # "none" /\ SlotOf(t) \in t.ready => SlotOf(t) \in t.seen
  /\ t.completionPending /\ t.completionError = "none" /\ t.cmd # "none" =>
       "ack" \in t.seen /\ SlotOf(t) \in t.seen \cup {"none"}

Inv(t) == TransportState(t) /\ Shape(t) /\ Awake(t) /\ Fresh(t)

IInv == Inv(s)

-----------------------------------------------------------------------------
(* What ends or sends an operation *)

\* An operation that calls back: nothing of it is left at the host.
Ended(t) ==
  /\ TransportState(t)
  /\ t.cmd # "none" <=> t.phase \in {"send", "ack", "response"}
  /\ t.attempt = 0 <=> t.cmd = "none"
  /\ ~t.processing /\ ~t.out /\ ~t.joined /\ t.reader # "idle"
  /\ t.phase # "reply" => ~t.completionPending /\ t.completionError = "none"

\* What Free changes is the operation; whatever it was, the state is sound.
LEMMA FreeInv ==
  ASSUME NEW t, Ended(t), NEW r \in Outcome
  PROVE  Inv(Free(t, r))
<1>0. 0 \in Attempt BY DEF Attempt
<1>1. TransportState(Free(t, r))
  BY <1>0, ZenonT(60) DEF Free, Ended, TransportState, Failure
<1>2. Shape(Free(t, r))
  BY DEF Free, Ended, TransportState, Shape, IsIdle
<1>3. Awake(Free(t, r))
  BY DEF Free, Ended, TransportState, Awake, IsIdle
<1>4. Fresh(Free(t, r))
  BY DEF Free, Ended, TransportState, Fresh
<1> QED
  BY <1>1, <1>2, <1>3, <1>4 DEF Inv

\* A command is sent: nothing its slot holds is left from before.
LEMMA SendInv ==
  ASSUME NEW t, TransportState(t), t.cmd \in Command, t.attempt \in {0, 1},
         ~t.processing, ~t.joined, t.reader # "idle",
         ~t.completionPending, t.completionError = "none"
  PROVE  Inv(Send(t))
<1> DEFINE n == t.attempt + 1
           u == Send(t)
           r == IF t.reader = "none" THEN "pending" ELSE t.reader
<1>0. n \in Attempt /\ n # 0
  BY DEF Attempt
<1>a. u = [t EXCEPT !.phase = "send", !.attempt = n, !.ack = "none",
                    !.timer = FALSE, !.watch = FALSE,
                    !.ready = @ \ {SlotOf(t)}, !.seen = {},
                    !.submitted = ~t.cancelled, !.out = TRUE, !.reader = r]
  BY ZenonT(60) DEF Send, StartReader, TransportState
<1>b. r \in {"pending", "failed"}
  BY DEF TransportState
<1> HIDE DEF n, u, r
<1>1. TransportState(u)
  BY <1>0, <1>a, <1>b, ZenonT(60) DEF TransportState
<1>2. Shape(u)
  BY <1>0, <1>a, <1>b, TransportAssumption DEF TransportState, Shape, IsIdle
<1>3. Awake(u)
  BY <1>a DEF TransportState, Awake, IsIdle
<1>4. Fresh(u)
  BY <1>a DEF TransportState, Fresh, SlotOf
<1> QED
  BY <1>1, <1>2, <1>3, <1>4 DEF Inv, u

\* What the end of an operation may leave: nothing, or its second attempt.
Concluded(t, e, u) ==
  /\ ~u.joined
  /\ \/ /\ u.phase = "none" /\ u.cmd = "none" /\ u.attempt = 0
        /\ u.reader = t.reader /\ u.seen = t.seen
        /\ u.result = "ok" => e = "none"
        /\ u.reader = "failed" => u.result # "exhausted"
     \/ /\ u.phase = "send" /\ u.cmd = t.cmd /\ t.cmd # "none"
        /\ t.reader # "failed"
        /\ u.reader = IF t.reader = "none" THEN "pending" ELSE t.reader

\* An end is sound, whatever ended the operation and whether it is retried.
LEMMA SettledInv ==
  ASSUME NEW t, Ended(t), NEW e \in Failure
  PROVE  Inv(Settled(t, e)) /\ Concluded(t, e, Settled(t, e))
<1> DEFINE u == Settled(t, e)
           rejected == e = "none" /\ ImageRejected(t)
           failed   == rejected \/ e # "none"
           healthy  == t.reader # "failed"
           r == IF ~failed THEN "ok"
                ELSE IF healthy /\ (rejected \/ NativeZero(t.phase, e))
                THEN "exhausted"
                ELSE IF t.phase = "send" /\ t.submitted /\ e = "cancelled"
                THEN "writeCancelled" ELSE "error"
<1>1. CASE failed /\ healthy /\ Retry(t, e)
  <2>1. u = Send(t)
    BY <1>1 DEF Settled
  <2>2. t.cmd \in Command /\ t.cmd # "none" /\ t.attempt \in {0, 1}
    BY <1>1, TransportAssumption DEF Retry, Ended, TransportState
  <2>3. Inv(Send(t))
    BY <2>2, SendInv DEF Ended
  <2>4. /\ Send(t).phase = "send" /\ Send(t).cmd = t.cmd /\ ~Send(t).joined
        /\ Send(t).reader = IF t.reader = "none" THEN "pending" ELSE t.reader
    BY DEF Send, StartReader, Ended, TransportState
  <2> QED
    BY <1>1, <2>1, <2>2, <2>3, <2>4 DEF Concluded
<1>2. CASE ~(failed /\ healthy /\ Retry(t, e))
  <2>1. u = Free(t, r)
    BY <1>2 DEF Settled
  <2>2. r \in Outcome /\ (r = "ok" => e = "none") /\ (~healthy => r # "exhausted")
    BY DEF Outcome
  <2> HIDE DEF r
  <2>3. Inv(Free(t, r))
    BY <2>2, FreeInv
  <2>4. /\ Free(t, r).phase = "none" /\ Free(t, r).cmd = "none"
        /\ Free(t, r).attempt = 0 /\ ~Free(t, r).joined
        /\ Free(t, r).reader = t.reader /\ Free(t, r).seen = t.seen
        /\ Free(t, r).result = r
    BY DEF Free, Ended, TransportState
  <2> QED
    BY <2>1, <2>2, <2>3, <2>4 DEF Concluded
<1> QED
  BY <1>1, <1>2

\* The operation and the reader stay as they are.
Kept(t, u) ==
  /\ u.processing = t.processing /\ u.reader = t.reader /\ u.joined = t.joined
  /\ u.cmd = t.cmd /\ u.attempt = t.attempt /\ u.result = t.result
  /\ u.phase = "none" <=> t.phase = "none"

\* Answered(t): a command may succeed now.
Answered(t) ==
  t.cmd # "none" => "ack" \in t.seen /\ SlotOf(t) \in t.seen \cup {"none"}

\* In the middle of a buffer an end is only noted.
LEMMA DeferInv ==
  ASSUME NEW t, TransportState(t), Shape(t), Fresh(t), t.processing, ~IsIdle(t),
         NEW e \in Failure, e = "none" => Answered(t)
  PROVE  Inv(Complete(t, e)) /\ Kept(t, Complete(t, e))
<1> DEFINE u == Complete(t, e)
           f == IF t.completionError = "none" THEN e ELSE t.completionError
<1>a. u = [t EXCEPT !.completionPending = TRUE, !.completionError = f]
  BY DEF Complete, Defer, TransportState
<1>b. f \in Failure /\ (f = "none" => Answered(t))
  BY DEF TransportState
<1> HIDE DEF u, f
<1>1. TransportState(u)
  BY <1>a, <1>b, ZenonT(60) DEF TransportState
<1>2. Shape(u)
  BY <1>a DEF TransportState, Shape, IsIdle
<1>3. Awake(u)
  BY <1>a DEF TransportState, Awake
<1>4. Fresh(u)
  BY <1>a, <1>b DEF TransportState, Fresh, SlotOf, Answered
<1>5. Kept(t, u)
  BY <1>a DEF TransportState, Kept
<1> QED
  BY <1>1, <1>2, <1>3, <1>4, <1>5 DEF Inv, u

\* A wait that may begin, but for the reader, the timer and a stored record.
Waiting(t) ==
  /\ Ended(t) /\ ~IsIdle(t) /\ t.reader # "failed"
  /\ ~t.completionPending /\ t.completionError = "none"
  /\ t.phase = "event" => ~t.pending /\ ~t.restartPending
  /\ t.phase = "ack" => t.ack # "valid"
  /\ t.phase = "response" => SlotOf(t) \notin t.ready
  /\ Fresh(t)

\* A wait begins with a reader posted, or is served from the stored record.
LEMMA ReceiveInv ==
  ASSUME NEW t, Waiting(t)
  PROVE  /\ Inv(Receive(t))
         /\ \/ /\ Kept([t EXCEPT !.reader = "pending"], Receive(t))
               /\ Receive(t).phase = t.phase
            \/ t.phase = "reply" /\ Concluded(t, "none", Receive(t))
<1> DEFINE u == Receive(t)
<1>1. CASE CanTakeMcu(t)
  <2> DEFINE a == [t EXCEPT !.mcuReady = FALSE]
  <2>1. u = Settled(a, "none")
    BY <1>1 DEF Receive, TakeMcu, Complete, CanTakeMcu, Waiting, Ended, TransportState
  <2>2. Ended(a)
    BY DEF Waiting, Ended, TransportState
  <2>3. a.reader = t.reader /\ a.seen = t.seen /\ a.cmd = t.cmd
    BY DEF Waiting, Ended, TransportState
  <2> HIDE DEF u, a
  <2>4. Inv(u) /\ Concluded(a, "none", u)
    BY <2>1, <2>2, SettledInv DEF Failure
  <2> QED
    BY <1>1, <2>3, <2>4 DEF Concluded, CanTakeMcu, u
<1>2. CASE ~CanTakeMcu(t)
  <2> DEFINE w == t.phase = "event" \/ t.cmd \in Interruptible
  <2>1. u = [t EXCEPT !.timer = t.deadline, !.watch = w, !.reader = "pending"]
    BY <1>2, ZenonT(60)
      DEF Receive, ArmWait, StartReader, Waiting, Ended, TransportState
  <2>2. w \in BOOLEAN
    OBVIOUS
  <2> HIDE DEF u, w
  <2>3. TransportState(u)
    BY <2>1, <2>2 DEF Waiting, Ended, TransportState
  <2>4. Shape(u)
    BY <2>1, <2>2 DEF Waiting, Ended, TransportState, Shape, IsIdle
  <2>5. Awake(u)
    BY <1>2, <2>1, <2>2
      DEF Waiting, Ended, TransportState, Awake, IsIdle, CanTakeMcu, SlotOf
  <2>6. Fresh(u)
    BY <2>1, <2>2 DEF Waiting, Ended, TransportState, Fresh, SlotOf
  <2>7. Kept([t EXCEPT !.reader = "pending"], u) /\ u.phase = t.phase
    BY <2>1, <2>2 DEF Waiting, Ended, TransportState, Kept
  <2> QED
    BY <2>3, <2>4, <2>5, <2>6, <2>7 DEF Inv, u
<1> QED
  BY <1>1, <1>2

\* A valid ACK after the write: the command succeeds or waits for its answer.
LEMMA AckInv ==
  ASSUME NEW t, Ended(t), t.phase = "ack", t.reader = "pending",
         "ack" \in t.seen, SlotOf(t) \in t.ready => SlotOf(t) \in t.seen
  PROVE  /\ Inv(Ack(t))
         /\ \/ Kept(t, Ack(t))
            \/ Answered(t) /\ Concluded(t, "none", Ack(t))
<1>1. CASE SlotOf(t) = "none" \/ SlotOf(t) \in t.ready
  <2>1. Ack(t) = Settled(t, "none")
    BY <1>1 DEF Ack, Complete, Ended, TransportState
  <2>2. Answered(t)
    BY <1>1 DEF Answered
  <2> QED
    BY <2>1, <2>2, SettledInv DEF Failure
<1>2. CASE ~(SlotOf(t) = "none" \/ SlotOf(t) \in t.ready)
  <2> DEFINE a == [t EXCEPT !.phase = "response", !.deadline = TRUE]
  <2>1. Ack(t) = Receive(a)
    BY <1>2 DEF Ack
  <2>2. Ended(a)
    BY DEF Ended, TransportState
  <2>3. Waiting(a)
    BY <1>2, <2>2 DEF Ended, TransportState, Waiting, IsIdle, Fresh, SlotOf
  <2>4. a.phase = "response"
    BY DEF Ended, TransportState
  <2> HIDE DEF a
  <2>5. Inv(Receive(a)) /\ Kept([a EXCEPT !.reader = "pending"], Receive(a))
    BY <2>3, <2>4, ReceiveInv
  <2>6. Kept(t, Receive(a))
    BY <2>5 DEF a, Ended, TransportState, Kept
  <2> QED
    BY <2>1, <2>5, <2>6
<1> QED
  BY <1>1, <1>2

-----------------------------------------------------------------------------
(* A packet changes what is published, and may note the operation's end *)

\* The packet's effect before it is known whether it ends the operation.
Effect(t, a) ==
  /\ TransportState(a) /\ Shape(a) /\ Fresh(a) /\ a.processing
  /\ Kept(t, a) /\ a.phase = t.phase

\* A packet that ends the operation in the middle of a buffer.
LEMMA EffectEnds ==
  ASSUME NEW t, NEW a, Effect(t, a), ~IsIdle(a), NEW e \in Failure,
         e = "none" => Answered(a)
  PROVE  Inv(Complete(a, e)) /\ Kept(t, Complete(a, e))
<1>1. Inv(Complete(a, e)) /\ Kept(a, Complete(a, e))
  BY DeferInv DEF Effect
<1> QED
  BY <1>1 DEF Effect, Kept

\* A packet that ends nothing and leaves nobody asleep.
LEMMA EffectKeeps ==
  ASSUME NEW t, NEW a, Effect(t, a), Awake(a)
  PROVE  Inv(a) /\ Kept(t, a)
BY DEF Effect, Inv

\* An ACK cell: nobody sleeps over it, and a success has both ACK and answer.
LEMMA AckCellInv ==
  ASSUME NEW t, Inv(t), t.processing,
         NEW c \in Command, NEW status \in {"valid", "invalid"}
  PROVE  Inv(AckCell(t, c, status)) /\ Kept(t, AckCell(t, c, status))
<1> DEFINE u == AckCell(t, c, status)
           seen == IF status = "valid" THEN t.seen \cup {"ack"} ELSE t.seen
           a == [t EXCEPT !.ack = status, !.seen = seen]
<1>1. CASE c # t.cmd
  BY <1>1 DEF AckCell, Kept
<1>2. CASE c = t.cmd
  <2>1. t.phase \in {"send", "ack", "response"}
    BY <1>2, TransportAssumption DEF Inv, Shape
  <2>2. seen \subseteq Slot \cup {"ack"} /\ t.seen \subseteq seen
    BY DEF Inv, TransportState
  <2>3. status = "valid" => "ack" \in seen
    OBVIOUS
  <2>4. u = IF Current(t) /\ t.phase = "ack" /\ status = "valid" THEN Ack(a) ELSE a
    BY <1>2, ZenonT(60) DEF AckCell, Inv, TransportState
  <2> HIDE DEF seen
  <2>5. TransportState(a)
    BY <2>2, ZenonT(60) DEF Inv, TransportState
  <2>6. Shape(a)
    BY DEF Inv, TransportState, Shape, IsIdle
  <2>7. Fresh(a)
    BY <2>2, <2>3 DEF Inv, TransportState, Fresh, SlotOf
  <2>8. Effect(t, a)
    BY <2>5, <2>6, <2>7, ZenonT(60) DEF Inv, TransportState, Effect, Kept
  <2>9. CASE ~(Current(t) /\ t.phase = "ack" /\ status = "valid")
    <3>1. Awake(a)
      BY <2>9 DEF Inv, TransportState, Awake, Current, IsIdle, SlotOf
    <3> HIDE DEF a, u
    <3> QED
      BY <2>4, <2>8, <2>9, <3>1, EffectKeeps DEF u
  <2>10. CASE Current(t) /\ t.phase = "ack" /\ status = "valid"
    <3>1. a.phase = "ack" /\ "ack" \in a.seen /\ ~IsIdle(a) /\ a.processing
          /\ ~a.completionPending
      BY <2>3, <2>10 DEF Inv, TransportState, IsIdle, Current
    <3> HIDE DEF a, u
    <3>2. CASE SlotOf(a) = "none" \/ SlotOf(a) \in a.ready
      <4>1. Ack(a) = Complete(a, "none")
        BY <3>2 DEF Ack
      <4>2. Answered(a)
        BY <3>1, <3>2, <2>7 DEF Answered, Fresh
      <4> QED
        BY <2>4, <2>8, <2>10, <3>1, <4>1, <4>2, EffectEnds DEF Failure, u
    <3>3. CASE ~(SlotOf(a) = "none" \/ SlotOf(a) \in a.ready)
      <4> DEFINE b == [a EXCEPT !.phase = "response", !.deadline = TRUE]
      <4>1. Ack(a) = b
        BY <2>5, <3>1, <3>3, ZenonT(60)
          DEF Ack, Receive, CanTakeMcu, TransportState
      <4>2. TransportState(b)
        BY <2>5 DEF TransportState
      <4>3. Shape(b)
        BY <2>5, <2>6, <3>1 DEF TransportState, Shape, IsIdle
      <4>4. Awake(b)
        BY <2>5, <3>1, <3>3 DEF TransportState, Awake, IsIdle, SlotOf
      <4>5. Fresh(b)
        BY <2>5, <2>7, <3>1 DEF TransportState, Fresh, SlotOf
      <4>6. Kept(a, b)
        BY <2>5, <3>1 DEF TransportState, Kept
      <4> HIDE DEF b
      <4>7. Kept(t, b)
        BY <2>8, <4>6 DEF Effect, Kept
      <4> QED
        BY <2>4, <2>10, <4>1, <4>2, <4>3, <4>4, <4>5, <4>7 DEF Inv, u
    <3> QED
      BY <3>2, <3>3 DEF u
  <2> QED
    BY <2>9, <2>10
<1> QED
  BY <1>1, <1>2

\* An answer ends the wait for it, and is stored for a wait yet to come.
LEMMA ResponseCellInv ==
  ASSUME NEW t, Inv(t), t.processing, NEW slot \in Slot
  PROVE  Inv(ResponseCell(t, slot)) /\ Kept(t, ResponseCell(t, slot))
<1> DEFINE a == Publish(t, slot)
           seen == IF t.cmd = "none" THEN t.seen ELSE t.seen \cup {slot}
<1>a. a = [t EXCEPT !.ready = @ \cup {slot}, !.seen = seen]
  BY DEF Publish, Inv, TransportState
<1>b. seen \subseteq Slot \cup {"ack"} /\ t.seen \subseteq seen
      /\ (t.cmd # "none" => slot \in seen)
  BY DEF Inv, TransportState
<1> HIDE DEF a, seen
<1>1. TransportState(a)
  BY <1>a, <1>b, ZenonT(60) DEF Inv, TransportState
<1>2. Shape(a)
  BY <1>a DEF Inv, TransportState, Shape, IsIdle
<1>3. Fresh(a)
  BY <1>a, <1>b DEF Inv, TransportState, Fresh, SlotOf
<1>4. Effect(t, a)
  <2>1. a.phase = t.phase /\ Kept(t, a) /\ a.processing
    BY <1>a DEF Inv, TransportState, Kept
  <2> QED
    BY <1>1, <1>2, <1>3, <2>1 DEF Effect
<1>5. CASE Awaited(t, slot)
  <2>1. ResponseCell(t, slot) = Complete(a, "none")
    BY <1>5 DEF ResponseCell, a
  <2>2. ~IsIdle(a) /\ Answered(a)
    BY <1>5, <1>a, <1>b
      DEF Awaited, Current, Inv, TransportState, Fresh, IsIdle, Answered, SlotOf
  <2> QED
    BY <1>4, <2>1, <2>2, EffectEnds DEF Failure
<1>6. CASE ~Awaited(t, slot)
  <2>1. ResponseCell(t, slot) = a
    BY <1>6 DEF ResponseCell, a
  <2>2. Awake(a)
    BY <1>6, <1>a
      DEF Awaited, Current, Inv, TransportState, Awake, IsIdle, SlotOf
  <2> QED
    BY <1>4, <2>1, <2>2, EffectKeeps
<1> QED
  BY <1>5, <1>6

\* An image, decoded or not, ends whichever wait it is news for.
LEMMA ImageCellInv ==
  ASSUME NEW t, Inv(t), t.processing,
         NEW quality \in {"good", "rejected", "unreadable"}
  PROVE  Inv(ImageCell(t, quality)) /\ Kept(t, ImageCell(t, quality))
<1> DEFINE a == IF quality = "good"
                THEN [Publish(t, Image) EXCEPT !.imageFailed = FALSE]
                ELSE [ImageError(t) EXCEPT !.imageFailed = @ \/ quality = "rejected"]
           u == ImageCell(t, quality)
<1>u. u = IF a.phase = "event" /\ a.restartPending THEN Complete(a, "none")
          ELSE IF Awaited(a, Image) /\ Image \in a.ready THEN Complete(a, "none") ELSE a
  BY DEF ImageCell
<1>1. /\ Effect(t, a) /\ a.completionPending = t.completionPending
      /\ a.pending = t.pending /\ a.ack = t.ack
      /\ a.ready \subseteq t.ready \cup {Image}
  <2>1. CASE quality = "good"
    <3> DEFINE seen == IF t.cmd = "none" THEN t.seen ELSE t.seen \cup {Image}
    <3>a. a = [t EXCEPT !.ready = @ \cup {Image}, !.seen = seen, !.imageFailed = FALSE]
      BY <2>1, ZenonT(60) DEF Publish, Inv, TransportState
    <3>b. seen \subseteq Slot \cup {"ack"} /\ t.seen \subseteq seen
          /\ (t.cmd # "none" => Image \in seen)
      BY TransportAssumption DEF Inv, TransportState
    <3> HIDE DEF a, seen
    <3>1. TransportState(a)
      BY <3>a, <3>b, TransportAssumption, ZenonT(60) DEF Inv, TransportState
    <3>2. Shape(a)
      BY <3>a DEF Inv, TransportState, Shape, IsIdle
    <3>3. Fresh(a)
      BY <3>a, <3>b DEF Inv, TransportState, Fresh, SlotOf
    <3>4. /\ a.phase = t.phase /\ Kept(t, a) /\ a.processing
          /\ a.completionPending = t.completionPending
          /\ a.pending = t.pending /\ a.ack = t.ack
          /\ a.ready = t.ready \cup {Image}
      BY <3>a, ZenonT(60) DEF Inv, TransportState, Kept
    <3> QED
      BY <3>1, <3>2, <3>3, <3>4 DEF Effect
  <2>2. CASE quality # "good"
    <3> DEFINE failed == t.imageFailed \/ quality = "rejected"
               history == ~t.imageErrorHistory
               restart == t.restartPending \/ (t.imageErrorHistory /\ ~t.restartActive)
    <3>a. a = [t EXCEPT !.imageErrorHistory = history, !.restartPending = restart,
                        !.imageFailed = failed]
      BY <2>2, ZenonT(60) DEF ImageError, Inv, TransportState
    <3>b. failed \in BOOLEAN /\ history \in BOOLEAN /\ restart \in BOOLEAN
      OBVIOUS
    <3> HIDE DEF a, failed, history, restart
    <3>1. TransportState(a)
      BY <3>a, <3>b, ZenonT(60) DEF Inv, TransportState
    <3>2. Shape(a)
      BY <3>a DEF Inv, TransportState, Shape, IsIdle
    <3>3. Fresh(a)
      BY <3>a DEF Inv, TransportState, Fresh, SlotOf
    <3>4. /\ a.phase = t.phase /\ Kept(t, a) /\ a.processing
          /\ a.completionPending = t.completionPending
          /\ a.pending = t.pending /\ a.ack = t.ack /\ a.ready = t.ready
      BY <3>a, ZenonT(60) DEF Inv, TransportState, Kept
    <3> QED
      BY <3>1, <3>2, <3>3, <3>4 DEF Effect
  <2> QED
    BY <2>1, <2>2
<1> HIDE DEF a, u
<1>2. CASE a.phase = "event" /\ a.restartPending
  <2>1. ~IsIdle(a) /\ Answered(a)
    BY <1>1, <1>2 DEF IsIdle, Answered, Effect, Shape
  <2> QED
    BY <1>1, <1>2, <1>u, <2>1, EffectEnds DEF Failure, u
<1>3. CASE ~(a.phase = "event" /\ a.restartPending)
           /\ Awaited(a, Image) /\ Image \in a.ready
  <2>1. ~IsIdle(a) /\ Answered(a)
    BY <1>1, <1>3 DEF IsIdle, Answered, Awaited, Current, Effect, Fresh
  <2>2. u = Complete(a, "none")
    BY <1>3, <1>u
  <2> QED
    BY <1>1, <2>1, <2>2, EffectEnds DEF Failure, u
<1>4. CASE ~(a.phase = "event" /\ a.restartPending)
           /\ ~(Awaited(a, Image) /\ Image \in a.ready)
  <2>1. u = a
    BY <1>4, <1>u
  <2>2. Awake(a)
    BY <1>1, <1>4
      DEF Inv, Effect, Kept, Awake, Awaited, Current, IsIdle, SlotOf
  <2> QED
    BY <1>1, <2>1, <2>2, EffectKeeps DEF u
<1> QED
  BY <1>2, <1>3, <1>4

\* A notification ends an event wait or is kept for the next one.
LEMMA NotificationCellInv ==
  ASSUME NEW t, Inv(t), t.processing
  PROVE  Inv(NotificationCell(t)) /\ Kept(t, NotificationCell(t))
<1> DEFINE a == [t EXCEPT !.pending = TRUE]
           u == NotificationCell(t)
<1>u. u = IF t.phase = "event" THEN Complete(a, "none") ELSE a
  BY DEF NotificationCell
<1>1. Effect(t, a)
  <2>1. TransportState(a)
    BY ZenonT(60) DEF Inv, TransportState
  <2>2. Shape(a)
    BY DEF Inv, TransportState, Shape, IsIdle
  <2>3. Fresh(a)
    BY DEF Inv, TransportState, Fresh, SlotOf
  <2> QED
    BY <2>1, <2>2, <2>3, ZenonT(60) DEF Inv, TransportState, Effect, Kept
<1>2. t.phase # "event" => Awake(a)
  BY DEF Inv, TransportState, Awake, IsIdle, SlotOf
<1>3. a.phase = t.phase
  BY DEF Inv, TransportState
<1> HIDE DEF a, u
<1>4. CASE t.phase = "event"
  <2>1. ~IsIdle(a) /\ Answered(a)
    BY <1>1, <1>3, <1>4 DEF IsIdle, Answered, Effect, Shape
  <2> QED
    BY <1>1, <1>4, <1>u, <2>1, EffectEnds DEF Failure, u
<1>5. CASE t.phase # "event"
  BY <1>1, <1>2, <1>5, <1>u, EffectKeeps DEF u
<1> QED
  BY <1>4, <1>5

\* An unfinished packet moves clocks only.
LEMMA PartialCellInv ==
  ASSUME NEW t, Inv(t), t.processing
  PROVE  Inv(PartialCell(t)) /\ Kept(t, PartialCell(t))
<1> DEFINE u == PartialCell(t)
           d == t.deadline \/ (~FixedDeadline(t) /\ ~IsIdle(t) /\
                               ~(t.phase = "event" /\ t.service))
<1>a. u = [t EXCEPT !.partial = TRUE, !.deadline = d]
  BY ZenonT(60) DEF PartialCell, Inv, TransportState
<1>b. d \in BOOLEAN
  BY DEF Inv, TransportState
<1> HIDE DEF u, d
<1>1. TransportState(u)
  BY <1>a, <1>b, ZenonT(60) DEF Inv, TransportState
<1>2. Shape(u) /\ Awake(u) /\ Fresh(u)
  BY <1>a DEF Inv, TransportState, Shape, Awake, Fresh, IsIdle, SlotOf
<1>3. Kept(t, u)
  BY <1>a, ZenonT(60) DEF Inv, TransportState, Kept
<1> QED
  BY <1>1, <1>2, <1>3 DEF Inv, u

-----------------------------------------------------------------------------
(* What every step does for the owner and for the channel *)

\* The two action properties and a step of the abstract channel.
Honest(t, u) ==
  /\ t.cmd # "none" /\ u.cmd = "none" /\ u.result = "ok"
       => "ack" \in u.seen /\ SlotOf(t) \in u.seen \cup {"none"}
  /\ u.reader = "failed" =>
       /\ u.attempt <= 1 \/ u.attempt = t.attempt
       /\ u.result = "exhausted" => t.result = "exhausted"

Busy(t) == t.phase # "none"

Reader(t) == IF t.reader = "idle" THEN "pending" ELSE t.reader

ChannelStep(t, u) ==
  \/ Busy(u) = Busy(t) /\ Reader(u) = Reader(t) /\ u.joined = t.joined
  \/ /\ ~Busy(t) /\ ~t.joined /\ Busy(u) /\ u.joined = t.joined
     /\ Reader(u) = IF Reader(t) = "none" THEN "pending" ELSE Reader(t)
  \/ Busy(t) /\ ~Busy(u) /\ Reader(u) = Reader(t) /\ u.joined = t.joined
  \/ /\ Reader(t) = "pending" /\ ~t.joined /\ Reader(u) = "failed"
     /\ Busy(u) = Busy(t) \/ ~Busy(u)
     /\ u.joined = t.joined
  \/ /\ ~Busy(t) /\ ~Busy(u) /\ ~t.joined
     /\ IF Reader(t) = "pending"
        THEN u.joined /\ Reader(u) = Reader(t)
        ELSE Reader(u) = "none" /\ ~u.joined
  \/ t.joined /\ ~u.joined /\ Reader(u) = "none" /\ Busy(u) = Busy(t)

Sound(t, u) == Inv(u) /\ Honest(t, u) /\ ChannelStep(t, u)

\* A step that leaves the operation and the reader as they are.
Held(t, u) ==
  /\ Reader(u) = Reader(t) /\ u.joined = t.joined
  /\ u.cmd = t.cmd /\ u.attempt = t.attempt /\ u.result = t.result
  /\ u.phase = "none" <=> t.phase = "none"

\* Such a step tells the owner nothing and is a stutter of the channel.
LEMMA HeldSound ==
  ASSUME NEW t, NEW u, Inv(t), Inv(u), Held(t, u)
  PROVE  Sound(t, u)
<1>1. t.attempt = u.attempt /\ t.cmd = u.cmd /\ t.result = u.result
  BY DEF Held
<1>2. Honest(t, u)
  BY <1>1 DEF Honest
<1>3. ChannelStep(t, u)
  BY DEF Held, ChannelStep, Busy
<1> QED
  BY <1>2, <1>3 DEF Sound

\* The end of an operation, of a state a that differs from t in nothing the
\* end depends on.
LEMMA ConcludedSound ==
  ASSUME NEW t, NEW a, NEW e, NEW u, Inv(t), Inv(u), Concluded(a, e, u),
         t.phase # "none", a.cmd = t.cmd, a.seen = t.seen,
         a.reader = Reader(t), e = "none" => Answered(t)
  PROVE  Sound(t, u)
<1>1. t.reader # "none" /\ ~t.joined
  BY DEF Inv, Shape
<1>2. CASE u.phase = "none"
  <2>1. /\ u.attempt = 0 /\ u.cmd = "none" /\ u.seen = t.seen
        /\ (u.result = "ok" => e = "none") /\ u.reader = Reader(t) /\ ~u.joined
        /\ (u.reader = "failed" => u.result # "exhausted")
    BY <1>2 DEF Concluded
  <2>2. Honest(t, u)
    BY <2>1 DEF Honest, Answered
  <2>3. ChannelStep(t, u)
    BY <1>1, <1>2, <2>1 DEF ChannelStep, Busy, Reader, Inv, TransportState
  <2> QED
    BY <2>2, <2>3 DEF Sound
<1>3. CASE u.phase # "none"
  <2>1. /\ u.cmd = t.cmd /\ u.cmd # "none" /\ ~u.joined
        /\ Reader(t) # "failed" /\ u.reader = Reader(t)
    BY <1>1, <1>3 DEF Concluded, Reader
  <2>2. Honest(t, u)
    BY <2>1 DEF Honest
  <2>3. ChannelStep(t, u)
    BY <1>1, <1>3, <2>1 DEF ChannelStep, Busy, Reader, Inv, TransportState
  <2> QED
    BY <2>2, <2>3 DEF Sound
<1> QED
  BY <1>2, <1>3

-----------------------------------------------------------------------------
(* The requests *)

\* A command begins an operation, with a fresh slot and a first attempt.
LEMMA RequestSound ==
  ASSUME IInv, Request
  PROVE  Sound(s, s')
<1>1. PICK c \in Command : s' = Send([s EXCEPT !.cmd = c, !.result = "none"])
  BY DEF Request
<1> DEFINE a == [s EXCEPT !.cmd = c, !.result = "none"]
<1>2. /\ TransportState(s) /\ Shape(s) /\ s.phase = "none" /\ s.cmd = "none"
      /\ s.attempt = 0 /\ ~s.joined /\ ~s.processing /\ s.reader # "idle"
      /\ ~s.completionPending /\ s.completionError = "none"
  BY DEF Request, Free2Submit, IInv, Inv, Shape, IsIdle
<1>3. /\ a.cmd \in Command /\ a.cmd # "none" /\ a.attempt = 0 /\ ~a.processing
      /\ ~a.joined /\ a.reader = s.reader
      /\ ~a.completionPending /\ a.completionError = "none" /\ a.result = "none"
  BY <1>2, TransportAssumption DEF TransportState
<1>4. TransportState(a)
  BY <1>2 DEF TransportState, Outcome
<1> HIDE DEF a
<1>5. Inv(s')
  BY <1>1, <1>2, <1>3, <1>4, SendInv DEF a
<1>6. /\ s'.phase = "send" /\ s'.cmd = a.cmd /\ ~s'.joined /\ s'.attempt = a.attempt + 1
      /\ s'.result = "none"
      /\ s'.reader = IF s.reader = "none" THEN "pending" ELSE s.reader
  BY <1>1, <1>2, <1>3, <1>4 DEF a, Send, StartReader, TransportState
<1>7. s'.attempt <= 1
  BY <1>3, <1>6
<1>8. Honest(s, s')
  BY <1>2, <1>6, <1>7 DEF Honest
<1>9. ChannelStep(s, s')
  BY <1>2, <1>5, <1>6 DEF ChannelStep, Busy, Reader, Inv, TransportState
<1> QED
  BY <1>5, <1>8, <1>9 DEF Sound

\* A wait begins, or is served at once from what is already there.
LEMMA WaitSound ==
  ASSUME IInv, NEW phase \in {"event", "reply"}, NEW served \in BOOLEAN,
         phase = "event" /\ ~served => ~s.pending /\ ~s.restartPending,
         Wait(phase, served)
  PROVE  Sound(s, s')
<1> DEFINE d == phase = "reply"
           a == [s EXCEPT !.phase = phase, !.deadline = d, !.seen = {}, !.result = "none"]
<1>1. /\ TransportState(s) /\ Shape(s) /\ s.phase = "none" /\ s.cmd = "none"
      /\ s.attempt = 0 /\ ~s.joined /\ ~s.processing /\ s.reader # "idle" /\ ~s.out
      /\ ~s.completionPending /\ s.completionError = "none"
  BY DEF Wait, Free2Submit, IInv, Inv, Shape, IsIdle
<1>2. s' = IF s.reader = "failed" THEN Complete(a, "other")
           ELSE IF served THEN Complete(a, "none") ELSE Receive(a)
  BY DEF Wait
<1>3. d \in BOOLEAN
  OBVIOUS
<1> HIDE DEF d
<1>4. TransportState(a)
  BY <1>1, <1>3 DEF TransportState, Outcome
<1>5. /\ a.phase = phase /\ a.cmd = "none" /\ a.attempt = 0 /\ ~a.joined
      /\ ~a.processing /\ a.reader = s.reader /\ ~a.out /\ ~a.completionPending
      /\ a.completionError = "none" /\ a.seen = {} /\ a.pending = s.pending
      /\ a.restartPending = s.restartPending /\ a.result = "none"
  BY <1>1 DEF TransportState
<1>6. Ended(a)
  BY <1>1, <1>4, <1>5 DEF Ended
<1> HIDE DEF a
<1>7. CASE s.reader = "failed" \/ served
  <2>1. PICK e \in Failure : s' = Settled(a, e) /\ (s.reader = "failed" => e = "other")
    BY <1>2, <1>5, <1>7 DEF Complete, Failure
  <2>2. Inv(s') /\ Concluded(a, e, s')
    BY <1>6, <2>1, SettledInv
  <2>3. /\ s'.phase = "none" /\ s'.attempt = 0 /\ ~s'.joined /\ s'.reader = s.reader
        /\ (s'.reader = "failed" => s'.result # "exhausted")
    BY <1>5, <2>2 DEF Concluded
  <2>4. Honest(s, s')
    BY <1>1, <2>3 DEF Honest
  <2>5. ChannelStep(s, s')
    BY <1>1, <2>2, <2>3 DEF ChannelStep, Busy, Reader, Inv, TransportState
  <2> QED
    BY <2>2, <2>4, <2>5 DEF Sound
<1>8. CASE ~(s.reader = "failed" \/ served)
  <2>1. s' = Receive(a)
    BY <1>2, <1>8
  <2>2. Waiting(a)
    BY <1>1, <1>5, <1>6, <1>8 DEF Waiting, IsIdle, Fresh
  <2>3. Inv(s')
    BY <2>1, <2>2, ReceiveInv
  <2>4. CASE Kept([a EXCEPT !.reader = "pending"], s') /\ s'.phase = a.phase
    <3>1. /\ s'.reader = "pending" /\ ~s'.joined /\ s'.cmd = "none" /\ s'.attempt = 0
          /\ s'.phase # "none"
      BY <1>4, <1>5, <2>4 DEF Kept, TransportState
    <3>2. Honest(s, s')
      BY <1>1, <3>1 DEF Honest
    <3>3. ChannelStep(s, s')
      BY <1>1, <1>8, <2>3, <3>1 DEF ChannelStep, Busy, Reader, Inv, TransportState
    <3> QED
      BY <2>3, <3>2, <3>3 DEF Sound
  <2>5. CASE a.phase = "reply" /\ Concluded(a, "none", s')
    <3>1. /\ s'.phase = "none" /\ s'.attempt = 0 /\ ~s'.joined /\ s'.reader = s.reader
      BY <1>5, <2>5 DEF Concluded
    <3>2. Honest(s, s')
      BY <1>1, <1>8, <3>1 DEF Honest
    <3>3. ChannelStep(s, s')
      BY <1>1, <2>3, <3>1 DEF ChannelStep, Busy, Reader, Inv, TransportState
    <3> QED
      BY <2>3, <3>2, <3>3 DEF Sound
  <2> QED
    BY <2>1, <2>2, <2>4, <2>5, ReceiveInv
<1> QED
  BY <1>7, <1>8

\* The requests that change a flag of the owner or of what was published.
LEMMA FlagsSound ==
  ASSUME IInv,
         CancelEvent \/ CancelIo \/ ChangeOwner \/ SelectFdt
           \/ StartGtlsRestart \/ GtlsRestartDone \/ Invalidate
  PROVE  Sound(s, s')
<1> USE DEF IInv, Inv
<1>1. CASE CancelEvent
  <2>1. TransportState(s')
    BY <1>1 DEF CancelEvent, TransportState
  <2>2. Shape(s') /\ Awake(s') /\ Fresh(s') /\ Held(s, s')
    BY <1>1
      DEF CancelEvent, TransportState, Shape, Awake, Fresh, Held, Reader, IsIdle, SlotOf
  <2> QED
    BY <2>1, <2>2, HeldSound
<1>2. CASE CancelIo
  <2>1. TransportState(s')
    BY <1>2 DEF CancelIo, TransportState
  <2>2. Shape(s') /\ Awake(s') /\ Fresh(s') /\ Held(s, s')
    BY <1>2
      DEF CancelIo, TransportState, Shape, Awake, Fresh, Held, Reader, IsIdle, SlotOf
  <2> QED
    BY <2>1, <2>2, HeldSound
<1>3. CASE ChangeOwner
  <2>0. PICK service \in BOOLEAN :
          s' = [s EXCEPT !.service = service, !.cancelled = FALSE]
    BY <1>3 DEF ChangeOwner
  <2>1. TransportState(s')
    BY <2>0 DEF TransportState
  <2>2. Shape(s') /\ Awake(s') /\ Fresh(s') /\ Held(s, s')
    BY <2>0 DEF TransportState, Shape, Awake, Fresh, Held, Reader, IsIdle, SlotOf
  <2> QED
    BY <2>1, <2>2, HeldSound
<1>4. CASE SelectFdt
  <2>1. TransportState(s')
    BY <1>4 DEF SelectFdt, TransportState
  <2>2. Shape(s') /\ Awake(s') /\ Fresh(s') /\ Held(s, s')
    BY <1>4
      DEF SelectFdt, TransportState, Shape, Awake, Fresh, Held, Reader, IsIdle, SlotOf
  <2> QED
    BY <2>1, <2>2, HeldSound
<1>5. CASE StartGtlsRestart
  <2>1. TransportState(s')
    BY <1>5 DEF StartGtlsRestart, TransportState
  <2>2. Shape(s') /\ Awake(s') /\ Fresh(s') /\ Held(s, s')
    BY <1>5
      DEF StartGtlsRestart, TransportState, Shape, Awake, Fresh, Held, Reader, IsIdle, SlotOf
  <2> QED
    BY <2>1, <2>2, HeldSound
<1>6. CASE GtlsRestartDone
  <2>1. TransportState(s')
    BY <1>6 DEF GtlsRestartDone, TransportState
  <2>2. Shape(s') /\ Awake(s') /\ Fresh(s') /\ Held(s, s')
    BY <1>6
      DEF GtlsRestartDone, TransportState, Shape, Awake, Fresh, Held, Reader, IsIdle, SlotOf
  <2> QED
    BY <2>1, <2>2, HeldSound
<1>7. CASE Invalidate
  <2>1. TransportState(s')
    BY <1>7 DEF Invalidate, TransportState
  <2>2. Shape(s') /\ Held(s, s')
    BY <1>7 DEF Invalidate, TransportState, Shape, Held, Reader, IsIdle
  <2>3. Awake(s') /\ Fresh(s')
    BY <1>7 DEF Invalidate, TransportState, Shape, Awake, Fresh, IsIdle, SlotOf
  <2> QED
    BY <2>1, <2>2, <2>3, HeldSound
<1> QED
  BY <1>1, <1>2, <1>3, <1>4, <1>5, <1>6, <1>7

\* A join begins, or is over at once when there is no read to cancel.
LEMMA QuiesceSound ==
  ASSUME IInv, Quiesce
  PROVE  Sound(s, s')
<1>1. /\ TransportState(s) /\ Shape(s) /\ s.phase = "none" /\ s.cmd = "none"
      /\ ~s.joined /\ ~s.processing /\ s.reader # "idle"
  BY DEF Quiesce, Free2Submit, IInv, Inv, Shape
<1>2. CASE s.reader = "pending"
  <2>1. s' = [s EXCEPT !.joined = TRUE]
    BY <1>2 DEF Quiesce
  <2>2. TransportState(s') /\ Shape(s')
    BY <1>1, <1>2, <2>1 DEF TransportState, Shape, IsIdle
  <2>3. Awake(s') /\ Fresh(s')
    BY <1>1, <2>1 DEF IInv, Inv, TransportState, Awake, Fresh, IsIdle
  <2>4. Honest(s, s') /\ ChannelStep(s, s')
    BY <1>1, <1>2, <2>1 DEF TransportState, Honest, ChannelStep, Busy, Reader
  <2> QED
    BY <2>2, <2>3, <2>4 DEF Sound, Inv
<1>3. CASE s.reader # "pending"
  <2>1. s' = [s EXCEPT !.reader = "none", !.joined = FALSE]
    BY <1>3 DEF Quiesce, Joined
  <2>2. TransportState(s') /\ Shape(s')
    BY <1>1, <2>1 DEF TransportState, Shape, IsIdle
  <2>3. Awake(s') /\ Fresh(s')
    BY <1>1, <2>1 DEF IInv, Inv, TransportState, Awake, Fresh, IsIdle
  <2>4. Honest(s, s') /\ ChannelStep(s, s')
    BY <1>1, <1>3, <2>1 DEF TransportState, Honest, ChannelStep, Busy, Reader
  <2> QED
    BY <2>2, <2>3, <2>4 DEF Sound, Inv
<1> QED
  BY <1>2, <1>3

-----------------------------------------------------------------------------
(* The callbacks *)

\* The write's callback: it failed, the reader did, or the ACK is next.
LEMMA TxDoneSound ==
  ASSUME IInv, TxDone
  PROVE  Sound(s, s')
<1> DEFINE a == [s EXCEPT !.out = FALSE]
           b == [a EXCEPT !.phase = "ack", !.deadline = TRUE]
           c == [a EXCEPT !.phase = "ack"]
<1>1. PICK e \in Failure :
        s' = IF e # "none" THEN Complete(a, e)
             ELSE IF s.reader = "failed" THEN Complete(c, "other")
             ELSE IF s.ack = "valid" THEN Ack(b) ELSE Receive(b)
  BY DEF TxDone, Failure
<1>2. /\ TransportState(s) /\ Shape(s) /\ Fresh(s) /\ s.out /\ s.phase = "send"
      /\ s.cmd # "none" /\ s.cmd \in Command /\ s.attempt # 0 /\ ~s.processing /\ ~s.joined
      /\ s.reader \in {"pending", "failed"}
      /\ ~s.completionPending /\ s.completionError = "none"
  BY DEF TxDone, IInv, Inv, TransportState, Shape, IsIdle
<1>3. Ended(a) /\ a.phase = "send" /\ a.cmd = s.cmd /\ a.seen = s.seen /\ a.reader = s.reader
      /\ ~a.processing
  BY <1>2 DEF Ended, TransportState
<1>4. Ended(c) /\ c.phase = "ack" /\ c.cmd = s.cmd /\ c.seen = s.seen /\ c.reader = s.reader
      /\ ~c.processing
  BY <1>2 DEF Ended, TransportState
<1>5. TransportState(b)
  BY <1>2 DEF TransportState
<1>6. /\ b.phase = "ack" /\ b.cmd = s.cmd /\ b.seen = s.seen /\ b.reader = s.reader
      /\ ~b.processing /\ ~b.out /\ ~b.joined /\ b.joined = s.joined /\ b.attempt = s.attempt
      /\ b.result = s.result /\ b.ready = s.ready /\ b.ack = s.ack
      /\ ~b.completionPending /\ b.completionError = "none"
  BY <1>2 DEF TransportState
<1>7. Ended(b)
  BY <1>2, <1>5, <1>6 DEF Ended, TransportState
<1>8. Reader(s) = s.reader /\ SlotOf(b) = SlotOf(s)
  BY <1>2, <1>6 DEF Reader, SlotOf
<1> HIDE DEF a, b, c
<1>9. CASE e # "none" \/ s.reader = "failed"
  <2>1. PICK x \in {a, c}, f \in Failure : s' = Settled(x, f) /\ f # "none"
    BY <1>1, <1>3, <1>4, <1>9 DEF Complete, Failure
  <2>2. Inv(s') /\ Concluded(x, f, s')
    BY <1>3, <1>4, <2>1, SettledInv
  <2>3. x.cmd = s.cmd /\ x.seen = s.seen /\ x.reader = Reader(s)
    BY <1>3, <1>4, <1>8, <2>1
  <2>4. s.phase # "none" /\ Inv(s)
    BY <1>2 DEF IInv
  <2> QED
    BY <2>1, <2>2, <2>3, <2>4, ConcludedSound
<1>10. CASE e = "none" /\ s.reader = "pending" /\ s.ack = "valid"
  <2>1. s' = Ack(b)
    BY <1>1, <1>10
  <2>2. "ack" \in b.seen /\ (SlotOf(b) \in b.ready => SlotOf(b) \in b.seen)
    BY <1>2, <1>6, <1>8, <1>10 DEF Fresh
  <2>3. /\ Inv(s')
        /\ Kept(b, s') \/ (Answered(b) /\ Concluded(b, "none", s'))
    BY <1>6, <1>7, <1>10, <2>1, <2>2, AckInv
  <2>4. CASE Kept(b, s')
    <3>1. Held(s, s')
      BY <1>2, <1>6, <1>8, <2>4 DEF Kept, Held, Reader
    <3> QED
      BY <2>3, <3>1, HeldSound DEF IInv
  <2>5. CASE Answered(b) /\ Concluded(b, "none", s')
    <3>1. Answered(s) /\ s.phase # "none"
      BY <1>2, <1>6, <1>8, <2>5 DEF Answered
    <3> QED
      BY <1>6, <1>8, <2>3, <2>5, <3>1, ConcludedSound DEF IInv
  <2> QED
    BY <2>3, <2>4, <2>5
<1>11. CASE e = "none" /\ s.reader = "pending" /\ s.ack # "valid"
  <2>1. s' = Receive(b)
    BY <1>1, <1>11
  <2>2. Fresh(b)
    BY <1>2, <1>6, <1>8 DEF Fresh
  <2>3. Waiting(b)
    BY <1>6, <1>7, <1>11, <2>2 DEF Waiting, IsIdle
  <2>4. /\ Inv(s')
        /\ Kept([b EXCEPT !.reader = "pending"], s')
    BY <1>6, <2>1, <2>3, ReceiveInv
  <2>5. Held(s, s')
    BY <1>2, <1>5, <1>6, <1>8, <1>11, <2>4 DEF Kept, Held, Reader, TransportState
  <2> QED
    BY <2>4, <2>5, HeldSound DEF IInv
<1> QED
  BY <1>2, <1>9, <1>10, <1>11

\* A clock or a cancellation ends a wait that is not in the middle of a buffer.
LEMMA SourceSound ==
  ASSUME IInv, Expired \/ Cancelled
  PROVE  Sound(s, s')
<1> DEFINE a == [s EXCEPT !.timer = FALSE]
<1>1. /\ TransportState(s) /\ Shape(s) /\ ~IsIdle(s) /\ ~s.processing /\ ~s.out
      /\ s.phase # "none" /\ ~s.joined /\ s.reader # "idle"
      /\ ~s.completionPending /\ s.completionError = "none"
  BY DEF Expired, Cancelled, IInv, Inv, Shape, IsIdle
<1>2. Ended(s) /\ Reader(s) = s.reader
  BY <1>1 DEF Ended, Shape, Reader
<1>3. Ended(a) /\ a.cmd = s.cmd /\ a.seen = s.seen /\ a.reader = s.reader /\ ~a.processing
  BY <1>1, <1>2 DEF Ended, TransportState
<1> HIDE DEF a
<1>4. PICK x \in {a, s}, e \in Failure : s' = Settled(x, e) /\ e # "none"
  BY <1>1, <1>3 DEF Expired, Cancelled, Complete, Failure, a
<1>5. Inv(s') /\ Concluded(x, e, s')
  BY <1>2, <1>3, <1>4, SettledInv
<1>6. x.cmd = s.cmd /\ x.seen = s.seen /\ x.reader = Reader(s)
  BY <1>2, <1>3, <1>4
<1> QED
  BY <1>1, <1>4, <1>5, <1>6, ConcludedSound DEF IInv

\* The read fails: a join is over, a wait ends, a write is left to call back.
LEMMA RxFailSound ==
  ASSUME IInv, RxFail
  PROVE  Sound(s, s')
<1>1. TransportState(s) /\ Shape(s) /\ s.reader = "pending" /\ ~s.processing
  BY DEF RxFail, IInv, Inv
<1>2. CASE s.joined
  <2>1. s' = [s EXCEPT !.reader = "none", !.joined = FALSE]
    BY <1>2 DEF RxFail, Joined
  <2>2. s.phase = "none" /\ s.cmd = "none"
    BY <1>1, <1>2 DEF Shape
  <2>3. TransportState(s') /\ Shape(s')
    BY <1>1, <2>1, <2>2 DEF TransportState, Shape, IsIdle
  <2>4. Awake(s') /\ Fresh(s')
    BY <1>1, <2>1, <2>2 DEF IInv, Inv, TransportState, Awake, Fresh, IsIdle
  <2>5. Honest(s, s') /\ ChannelStep(s, s')
    BY <1>1, <1>2, <2>1, <2>2 DEF TransportState, Honest, ChannelStep, Busy, Reader
  <2> QED
    BY <2>3, <2>4, <2>5 DEF Sound, Inv
<1> DEFINE a == [s EXCEPT !.reader = "failed"]
<1>3. CASE ~s.joined /\ IsIdle(s)
  <2>1. s' = a
    BY <1>1, <1>3 DEF RxFail, CellDone, IsIdle, TransportState
  <2>2. TransportState(s')
    BY <1>1, <2>1 DEF TransportState
  <2>3. Shape(s')
    BY <1>1, <1>3, <2>1 DEF TransportState, Shape, IsIdle
  <2>4. Awake(s') /\ Fresh(s')
    BY <1>1, <1>3, <2>1 DEF IInv, Inv, TransportState, Awake, Fresh, IsIdle, SlotOf
  <2>5. Honest(s, s') /\ ChannelStep(s, s')
    BY <1>1, <1>3, <2>1 DEF TransportState, Honest, ChannelStep, Busy, Reader
  <2> QED
    BY <2>2, <2>3, <2>4, <2>5 DEF Sound, Inv
<1>4. CASE ~s.joined /\ ~IsIdle(s)
  <2>1. /\ s.phase # "none" /\ ~s.out
        /\ ~s.completionPending /\ s.completionError = "none"
    BY <1>1, <1>4 DEF Shape, IsIdle
  <2>2. Ended(a) /\ a.reader = "failed" /\ a.phase = s.phase /\ ~a.processing
    BY <1>1, <1>4, <2>1 DEF Ended, Shape, TransportState
  <2> HIDE DEF a
  <2>3. s' = Settled(a, "other")
    BY <1>4, <2>2 DEF RxFail, CellDone, IsIdle, Complete, a
  <2>4. Inv(s') /\ Concluded(a, "other", s')
    BY <2>2, <2>3, SettledInv DEF Failure
  <2>5. /\ s'.phase = "none" /\ s'.attempt = 0 /\ ~s'.joined /\ s'.reader = "failed"
        /\ s'.result \notin {"ok", "exhausted"}
    BY <2>2, <2>4 DEF Concluded
  <2>6. Honest(s, s')
    BY <2>5 DEF Honest
  <2>7. ChannelStep(s, s')
    BY <1>1, <1>4, <2>1, <2>4, <2>5 DEF ChannelStep, Busy, Reader, Inv, TransportState
  <2> QED
    BY <2>4, <2>6, <2>7 DEF Sound
<1> QED
  BY <1>2, <1>3, <1>4

\* A buffer arrives.
LEMMA RxBeginSound ==
  ASSUME IInv, RxBegin
  PROVE  Sound(s, s')
<1>1. TransportState(s')
  BY DEF RxBegin, IInv, Inv, TransportState
<1>2. Shape(s') /\ Awake(s') /\ Fresh(s')
  BY DEF RxBegin, IInv, Inv, TransportState, Shape, Awake, Fresh, IsIdle, SlotOf
<1>3. Held(s, s')
  BY DEF RxBegin, IInv, Inv, TransportState, Held, Reader
<1> QED
  BY <1>1, <1>2, <1>3, HeldSound DEF IInv, Inv

\* Each packet of a buffer leaves operation and reader as they are.
LEMMA RxCellSound ==
  ASSUME IInv, RxCell
  PROVE  Sound(s, s')
<1> DEFINE t == [s EXCEPT !.partial = FALSE]
<1>1. TransportState(t)
  BY DEF IInv, Inv, TransportState
<1>2. Shape(t) /\ Awake(t) /\ Fresh(t) /\ t.processing /\ Kept(s, t)
  BY ZenonT(60)
    DEF RxCell, IInv, Inv, TransportState, Shape, Awake, Fresh, IsIdle, SlotOf, Kept
<1>3. Inv(t)
  BY <1>1, <1>2 DEF Inv
<1> HIDE DEF t
<1>4. Inv(s') /\ Kept(t, s')
  <2>1. ASSUME NEW c \in Command, NEW status \in {"valid", "invalid"},
               s' = AckCell(t, c, status)
        PROVE  Inv(s') /\ Kept(t, s')
    BY <1>2, <1>3, <2>1, AckCellInv
  <2>2. ASSUME NEW slot \in Slot \ {Image}, s' = ResponseCell(t, slot)
        PROVE  Inv(s') /\ Kept(t, s')
    BY <1>2, <1>3, <2>2, ResponseCellInv
  <2>3. ASSUME NEW quality \in {"good", "rejected", "unreadable"},
               s' = ImageCell(t, quality)
        PROVE  Inv(s') /\ Kept(t, s')
    BY <1>2, <1>3, <2>3, ImageCellInv
  <2>4. CASE s' = NotificationCell(t)
    BY <1>2, <1>3, <2>4, NotificationCellInv
  <2>5. CASE s' = [t EXCEPT !.mcuReady = TRUE]
    <3>1. TransportState(s')
      BY <1>1, <2>5 DEF TransportState
    <3>2. Shape(s') /\ Awake(s') /\ Fresh(s') /\ Kept(t, s')
      BY <1>1, <1>2, <2>5, ZenonT(60)
        DEF TransportState, Shape, Awake, Fresh, IsIdle, SlotOf, Kept
    <3> QED
      BY <3>1, <3>2 DEF Inv
  <2>6. CASE s' = PartialCell(t)
    BY <1>2, <1>3, <2>6, PartialCellInv
  <2>7. CASE s' = CellDone(t, "proto")
    <3>1. CASE IsIdle(t)
      BY <1>3, <2>7, <3>1 DEF CellDone, Kept
    <3>2. CASE ~IsIdle(t)
      BY <1>1, <1>2, <2>7, <3>2, DeferInv DEF CellDone, Failure
    <3> QED
      BY <3>1, <3>2
  <2>8. CASE s' = t
    BY <1>3, <2>8 DEF Kept
  <2> QED
    BY <2>1, <2>2, <2>3, <2>4, <2>5, <2>6, <2>7, <2>8 DEF RxCell, t
<1>5. Held(s, s')
  BY <1>2, <1>4 DEF Kept, Held, Reader
<1> QED
  BY <1>4, <1>5, HeldSound DEF IInv

\* The end of a buffer: what was noted in it is settled, the reader goes on.
LEMMA DrainedSound ==
  ASSUME NEW t, Inv(t), t.reader \in {"idle", "pending"}, NEW empty \in BOOLEAN
  PROVE  Sound(t, Drained([t EXCEPT !.reader = "idle", !.processing = FALSE], empty))
<1> DEFINE v == [t EXCEPT !.reader = "idle", !.processing = FALSE]
           a == [t EXCEPT !.reader = "pending", !.processing = FALSE]
           b == [a EXCEPT !.completionPending = FALSE, !.completionError = "none"]
           m == [a EXCEPT !.mcuReady = FALSE]
           u == Drained(v, empty)
<1>1. TransportState(t) /\ Shape(t) /\ Awake(t) /\ Fresh(t) /\ Reader(t) = "pending"
  BY DEF Inv, Reader
<1>2. TransportState(v) /\ v.joined = t.joined /\ v.phase = t.phase
      /\ v.completionError = t.completionError
      /\ v.completionPending = t.completionPending
  BY <1>1 DEF TransportState
<1>3. CASE t.joined
  <2>1. u = [t EXCEPT !.reader = "none", !.processing = FALSE, !.joined = FALSE]
    BY <1>1, <1>2, <1>3, ZenonT(60) DEF Drained, Joined, TransportState
  <2>2. t.phase = "none" /\ t.cmd = "none"
    BY <1>1, <1>3 DEF Shape
  <2> HIDE DEF u
  <2>3. TransportState(u) /\ Shape(u)
    BY <1>1, <2>1, <2>2 DEF TransportState, Shape, IsIdle
  <2>4. Awake(u) /\ Fresh(u)
    BY <1>1, <2>1, <2>2 DEF TransportState, Awake, Fresh, Shape, IsIdle
  <2>5. Honest(t, u) /\ ChannelStep(t, u)
    BY <1>1, <1>3, <2>1, <2>2 DEF TransportState, Honest, ChannelStep, Busy, Reader
  <2> QED
    BY <2>3, <2>4, <2>5 DEF Sound, Inv, u
<1>4. ASSUME ~t.joined
      PROVE  /\ StartReader(v) = a /\ TransportState(a) /\ ~a.processing
             /\ a.phase = t.phase /\ a.cmd = t.cmd /\ a.reader = "pending"
             /\ a.mcuReady = t.mcuReady
  <2>1. StartReader(v) = a
    BY <1>1, <1>4, ZenonT(60) DEF StartReader, TransportState
  <2>2. TransportState(a) /\ ~a.processing /\ a.phase = t.phase /\ a.cmd = t.cmd
        /\ a.reader = "pending" /\ a.mcuReady = t.mcuReady
    BY <1>1 DEF TransportState
  <2> QED
    BY <2>1, <2>2
<1>5. CASE ~t.joined /\ IsIdle(t)
  <2>1. u = a
    BY <1>2, <1>4, <1>5 DEF Drained, IsIdle
  <2>2. Shape(a)
    BY <1>1, <1>5 DEF TransportState, Shape, IsIdle
  <2>3. Awake(a) /\ Fresh(a)
    BY <1>1, <1>5 DEF TransportState, Awake, Fresh, Shape, IsIdle, SlotOf
  <2>4. Held(t, a)
    BY <1>1 DEF TransportState, Held, Reader
  <2> QED
    BY <1>4, <1>5, <2>1, <2>2, <2>3, <2>4, HeldSound DEF Inv
<1>6. CASE ~t.joined /\ ~IsIdle(t) /\ t.completionError = "none" /\ CanTakeMcu(a)
  <2>1. t.phase = "reply"
    BY <1>4, <1>6 DEF CanTakeMcu
  <2>2. Ended(m) /\ m.cmd = t.cmd /\ m.seen = t.seen /\ m.reader = "pending" /\ ~m.processing
    BY <1>1, <1>6, <2>1 DEF TransportState, Shape, Ended
  <2>3. u = TakeMcu(a)
    BY <1>2, <1>4, <1>6 DEF Drained, IsIdle
  <2> HIDE DEF u, m, v
  <2>4. u = Settled(m, "none")
    BY <2>2, <2>3 DEF TakeMcu, Complete, m
  <2>5. Inv(u) /\ Concluded(m, "none", u)
    BY <2>2, <2>4, SettledInv DEF Failure
  <2>6. Answered(t) /\ t.phase # "none"
    BY <1>1, <2>1 DEF Answered, Shape
  <2> QED
    BY <1>1, <2>2, <2>5, <2>6, ConcludedSound DEF u, v
<1>7. CASE ~t.joined /\ ~IsIdle(t) /\ t.completionPending
           /\ ~(t.completionError = "none" /\ CanTakeMcu(a))
  <2>1. Ended(b) /\ b.cmd = t.cmd /\ b.seen = t.seen /\ b.reader = "pending" /\ ~b.processing
    BY <1>1, <1>7 DEF TransportState, Shape, Ended, IsIdle, Failure
  <2>2. u = Complete(b, t.completionError)
    BY <1>2, <1>4, <1>7 DEF Drained, IsIdle
  <2>3. t.completionError \in Failure
    BY <1>1 DEF TransportState
  <2> HIDE DEF u, b, v
  <2>4. u = Settled(b, t.completionError)
    BY <2>1, <2>2 DEF Complete
  <2>5. Inv(u) /\ Concluded(b, t.completionError, u)
    BY <2>1, <2>3, <2>4, SettledInv
  <2>6. t.completionError = "none" => Answered(t)
    BY <1>1, <1>7 DEF Answered, Fresh
  <2>7. t.phase # "none"
    BY <1>7 DEF IsIdle
  <2> QED
    BY <1>1, <2>1, <2>5, <2>6, <2>7, ConcludedSound DEF u, v
<1>8. CASE ~t.joined /\ ~IsIdle(t) /\ ~t.completionPending
           /\ ~(t.completionError = "none" /\ CanTakeMcu(a))
  <2> DEFINE d == t.deadline /\ ~(empty /\ t.phase = "event")
             w == t.phase = "event" \/ t.cmd \in Interruptible
             x == [a EXCEPT !.deadline = @ /\ ~(empty /\ t.phase = "event")]
  <2>1. u = ArmWait(x)
    BY <1>2, <1>4, <1>8 DEF Drained, IsIdle
  <2>2. ArmWait(x) = [t EXCEPT !.reader = "pending", !.processing = FALSE, !.deadline = d,
                               !.timer = d, !.watch = w]
    BY <1>1, ZenonT(60) DEF ArmWait, TransportState
  <2>3. d \in BOOLEAN /\ w \in BOOLEAN
    OBVIOUS
  <2>4. t.phase = "reply" => ~t.mcuReady
    BY <1>1, <1>4, <1>8 DEF CanTakeMcu, Shape
  <2> HIDE DEF u, x, d, w
  <2>5. TransportState(u)
    BY <1>1, <2>1, <2>2, <2>3 DEF TransportState
  <2>6. Shape(u)
    BY <1>1, <1>8, <2>1, <2>2, <2>3 DEF TransportState, Shape, IsIdle
  <2>7. Awake(u) /\ Fresh(u)
    BY <1>1, <1>8, <2>1, <2>2, <2>3, <2>4
      DEF TransportState, Awake, Fresh, IsIdle, SlotOf
  <2>8. Held(t, u)
    BY <1>1, <2>1, <2>2 DEF TransportState, Held, Reader
  <2> QED
    BY <2>5, <2>6, <2>7, <2>8, HeldSound DEF Inv, u
<1> HIDE DEF u, a
<1> QED
  BY <1>3, <1>5, <1>6, <1>7, <1>8 DEF u

\* A buffer, or an empty read, is over.
LEMMA RxEndSound ==
  ASSUME IInv, RxEnd \/ RxEmpty
  PROVE  Sound(s, s')
<1> DEFINE v == [s EXCEPT !.reader = "idle", !.processing = FALSE]
<1>1. TransportState(s) /\ Shape(s)
  BY DEF IInv, Inv
<1>2. CASE RxEnd
  <2>1. s.reader = "idle" /\ [s EXCEPT !.processing = FALSE] = v
    BY <1>1, <1>2, ZenonT(60) DEF RxEnd, Shape, TransportState
  <2> QED
    BY <1>2, <2>1, DrainedSound DEF RxEnd, IInv
<1>3. CASE RxEmpty
  <2>1. s.reader = "pending" /\ [s EXCEPT !.reader = "idle"] = v
    BY <1>1, <1>3, ZenonT(60) DEF RxEmpty, Shape, TransportState
  <2> QED
    BY <1>3, <2>1, DrainedSound DEF RxEmpty, IInv
<1> QED
  BY <1>2, <1>3

-----------------------------------------------------------------------------
\* The driver starts with no operation and no reader.
LEMMA InitInv == Init => IInv
<1> SUFFICES ASSUME Init PROVE IInv
  OBVIOUS
<1>1. TransportState(s)
  BY DEF Init, TransportState, Attempt, Failure, Outcome
<1>2. Shape(s) /\ Awake(s) /\ Fresh(s)
  BY DEF Init, Shape, Awake, Fresh, IsIdle
<1> QED
  BY <1>1, <1>2 DEF IInv, Inv

\* Every step keeps the invariant, is honest, and is a step of the channel.
LEMMA NextSound == IInv /\ Next => Sound(s, s')
<1> SUFFICES ASSUME IInv, Next PROVE Sound(s, s')
  OBVIOUS
<1>1. CASE Request
  BY <1>1, RequestSound
<1>2. CASE WaitEvent
  <2>1. Wait("event", s.pending \/ s.restartPending)
    BY <1>2 DEF WaitEvent
  <2>2. (s.pending \/ s.restartPending) \in BOOLEAN
    OBVIOUS
  <2> QED
    BY <2>1, <2>2, WaitSound
<1>3. CASE WaitMcu
  BY <1>3, WaitSound DEF WaitMcu
<1>4. CASE CancelEvent \/ CancelIo \/ ChangeOwner \/ SelectFdt
             \/ StartGtlsRestart \/ GtlsRestartDone \/ Invalidate
  BY <1>4, FlagsSound
<1>5. CASE Quiesce
  BY <1>5, QuiesceSound
<1>6. CASE TxDone
  BY <1>6, TxDoneSound
<1>7. CASE Expired \/ Cancelled
  BY <1>7, SourceSound
<1>8. CASE RxFail
  BY <1>8, RxFailSound
<1>9. CASE RxBegin
  BY <1>9, RxBeginSound
<1>10. CASE RxCell
  BY <1>10, RxCellSound
<1>11. CASE RxEnd \/ RxEmpty
  BY <1>11, RxEndSound
<1> QED
  BY <1>1, <1>2, <1>3, <1>4, <1>5, <1>6, <1>7, <1>8, <1>9, <1>10, <1>11
    DEF Next, Client, Host

\* The inductive invariant holds.
LEMMA InvariantHolds == Spec => []IInv
<1>1. IInv /\ [Next]_vars => IInv'
  <2>1. CASE Next
    BY <2>1, NextSound DEF Sound, IInv
  <2>2. CASE UNCHANGED vars
    BY <2>2 DEF vars, IInv
  <2> QED
    BY <2>1, <2>2
<1> QED
  BY <1>1, InitInv, PTL DEF Spec

\* Every field of the transport keeps its type, the attempts their bound: a
\* command is sent at most twice, whatever the policies of the commands are.
THEOREM TypeCorrect == Spec => []TypeOK
<1>1. IInv => TypeOK
  BY DEF IInv, Inv, TypeOK
<1> QED
  BY <1>1, InvariantHolds, PTL

\* Whoever sends, waits or listens can still be called back (transport.c): the
\* write keeps its operation, a wait keeps its reader and never sleeps on an
\* answer that has come, for any number of commands and response slots.
THEOREM CallbackAlwaysOwed == Spec => []CallbackOwed
<1>1. IInv => CallbackOwed
  <2> SUFFICES ASSUME IInv PROVE CallbackOwed
    OBVIOUS
  <2>1. OutOwned
    BY DEF IInv, Inv, TransportState, Shape, OutOwned
  <2>2. WaiterHasReader
    BY DEF IInv, Inv, Shape, Awake, WaiterHasReader, IsIdle
  <2>3. NoSleepOverAnswer
    BY DEF IInv, Inv, Shape, Awake, NoSleepOverAnswer
  <2> QED
    BY <2>1, <2>2, <2>3 DEF CallbackOwed
<1> QED
  BY <1>1, InvariantHolds, PTL

\* The owner is told the truth (goodix_transport_complete, goodix_cmd_retry):
\* success only of an answer that came after this very attempt was sent, and
\* exhaustion only of a reader that lives.
THEOREM ResultsHonest == Spec => ResultHonest
<1>1. IInv /\ [Next]_vars =>
        [s.cmd # "none" /\ s'.cmd = "none" /\ s'.result = "ok"
           => "ack" \in s'.seen /\ SlotOf(s) \in s'.seen \cup {"none"}]_vars
  BY NextSound DEF Sound, Honest
<1>2. IInv /\ [Next]_vars =>
        [s'.reader = "failed" =>
           /\ s'.attempt <= 1 \/ s'.attempt = s.attempt
           /\ s'.result = "exhausted" => s.result = "exhausted"]_vars
  BY NextSound DEF Sound, Honest
<1> QED
  BY <1>1, <1>2, InvariantHolds, PTL
    DEF Spec, ResultHonest, AnswerIsFresh, FailureNotDisguised

\* The transport is a channel as the session's owners use it: one operation over
\* one reader, a failed reader stays failed until joined, a join excludes
\* operations and leaves no reader.
THEOREM ChannelImplemented == Spec => ImplementsChannel
<1>1. Init => C!Init
  BY DEF Init, C!Init
<1>2. IInv /\ [Next]_vars => [C!Next]_C!vars
  <2>1. ASSUME IInv, Next PROVE C!Next \/ UNCHANGED C!vars
    <3>1. ChannelStep(s, s') /\ Inv(s) /\ Inv(s')
      BY <2>1, NextSound DEF Sound, IInv
    <3> QED
      BY <3>1, ZenonT(60)
        DEF ChannelStep, Busy, Reader, Inv, TransportState, C!Next, C!vars,
        C!Begin, C!End, C!Fail, C!Join, C!Joined
  <2>2. CASE UNCHANGED vars
    BY <2>2 DEF vars, C!vars
  <2> QED
    BY <2>1, <2>2
<1> QED
  BY <1>1, <1>2, InvariantHolds, PTL DEF Spec, ImplementsChannel, C!Spec
=============================================================================
