-------------------------------- MODULE Base --------------------------------
(* Acquisition and publication of the reference ("base") of the sensor        *)
(* (device/base.c), with the health pair it runs (device/health.c).           *)
(*                                                                            *)
(* Operators on the session record t of Open.tla.  A sample or a frame of the *)
(* sensor is the token of the acquisition that took it; 0 is none.  t.sub is  *)
(* "base" while the machine runs, "joined" when it has handed its result,     *)
(* t.joined, to the parent.  t.at is the command it waits for.                *)
EXTENDS Naturals

Token == 0 .. 5
None == 0

\* An acquisition takes a token nothing retained or running still uses.
Fresh(t) ==
  LET used == {t.fdt, t.hw.ref, t.gen.setup, t.base.first}
  IN CHOOSE k \in 1 .. 5 : k \notin used

FreshId(t) == CHOOSE k \in 1 .. 3 : k \notin {t.hw.id, t.gen.id}

\* Only the equality of tokens, and of identities, matters: each step names them
\* after what holds them.
Named(t) ==
  LET token(k) == IF k = None THEN None
                  ELSE IF k = t.hw.ref THEN 1
                  ELSE IF k = t.gen.setup THEN 2
                  ELSE IF k = t.fdt THEN 3
                  ELSE 4
      id(k) == IF k = None THEN None ELSE IF k = t.hw.id THEN 1 ELSE 2
  IN [t EXCEPT !.hw.ref = token(@), !.gen.setup = token(@), !.fdt = token(@),
               !.base.first = token(@), !.hw.id = id(@), !.gen.id = id(@)]

Unmarked == {"INVALID_BASE", "UP_INVALID_BASE"}

\* Why the coordinator replaces a base; a run takes some of them.
CONSTANT Reason

ASSUME BaseAssumption == Reason \subseteq {"FALSE_DOWN", "REVERSE", "UP"} \cup Unmarked

\* What the engine owns: the setup frame it reads, and the base it belongs to.
NoGeneration == [id |-> None, setup |-> None, ready |-> FALSE, refresh |-> FALSE]

\* The newest admitted base of the hardware, and the mark that delivery consumes.
NoReference == [ref |-> None, id |-> None, pending |-> FALSE]

NoBase == [forced |-> FALSE, reason |-> "NONE", first |-> None, leave |-> FALSE,
           error |-> "none"]

\* ---------------------------------------------------------------------------
\* The generation.

\* Algorithm state survives the session; the frame never does.
RetainProcess(t) ==
  [t EXCEPT !.retained = @ \/ t.gen # NoGeneration, !.gen = NoGeneration]

ForgetHardware(t) == [RetainProcess(t) EXCEPT !.hw = NoReference]

\* A delivered sample selects the newest base, and consumes its mark even if
\* the engine then fails.
PrepareSetup(t) ==
  IF t.gen.ready /\ ~t.gen.refresh /\ ~t.hw.pending THEN t
  ELSE [t EXCEPT !.gen.id = IF t.hw.ref = None THEN @ ELSE t.hw.id,
                 !.gen.setup = IF t.hw.ref = None THEN @ ELSE t.hw.ref,
                 !.gen.refresh = @ \/ t.hw.pending, !.hw.pending = FALSE]

\* The engine tries a setup it needs once: it is admitted, or not.
Deliver(t, admitted) ==
  [PrepareSetup(t) EXCEPT !.gen.ready = @ \/ admitted, !.gen.refresh = FALSE]

\* ---------------------------------------------------------------------------
\* The machine.

BaseJoined(t, e) ==
  [t EXCEPT !.sub = "joined", !.at = "none", !.joined = e, !.base = NoBase,
            !.needsReinit = @ \/ (t.base.forced /\ e \notin {"none", "cancelled"})]

BaseWait(t, state) == [t EXCEPT !.at = state]

\* A cold acquisition leaves the power to the tail of its owner, unless it failed.
BaseCleanup(t) ==
  IF t.base.leave \/ (~t.base.forced /\ t.base.error = "none")
  THEN BaseJoined(t, t.base.error)
  ELSE BaseWait(t, "CLEANUP_SLEEP")

BaseFails(t, e) == BaseCleanup([t EXCEPT !.base.error = e])

\* Only a cold acquisition looks at the action's token.
BaseStep(t, state) ==
  IF t.cancelled /\ ~t.base.forced THEN BaseFails(t, "cancelled")
  ELSE BaseWait(t, state)

\* A rejected acquisition keeps its first sample as the bases of recovery.
CompleteRecovery(t) ==
  LET u == [t EXCEPT !.baseValid = FALSE, !.fdt = t.base.first]
  IN BaseCleanup(IF t.base.forced THEN u
                 ELSE [RetainProcess(u) EXCEPT !.recoveryPending = TRUE,
                                               !.base.leave = FALSE])

BaseExhausted(t) ==
  IF t.base.first # None THEN CompleteRecovery(t)
  ELSE BaseCleanup([t EXCEPT !.recoveryPending = @ \/ ~t.base.forced])

\* The admitted tuple is published at once: reference, bases and marks.
Publish(t) ==
  LET id == FreshId(t)
      first == [NoGeneration EXCEPT !.id = id, !.setup = t.base.first,
                                    !.refresh = t.retained]
      keeps == t.base.forced /\ t.gen # NoGeneration
  IN BaseCleanup([t EXCEPT
       !.gen = IF keeps THEN @ ELSE first,
       !.retained = @ /\ keeps,
       !.hw = [ref |-> t.base.first, id |-> id,
               pending |-> @.pending \/ (t.base.forced /\ t.base.reason \notin Unmarked)],
       !.fdt = t.base.first, !.baseValid = TRUE,
       !.recoveryPending = FALSE, !.base.leave = TRUE])

\* o: "ok", "rejected" (an answer that validation refuses), "exhausted" (the
\* ordinary failure of a command) or an error of the host.
BaseCommand(t, o) ==
  IF t.at = "CLEANUP_SLEEP" THEN BaseWait(t, "CLEANUP_EC_POWER_OFF")
  ELSE IF t.at = "CLEANUP_EC_POWER_OFF" THEN BaseJoined(t, t.base.error)
  ELSE IF t.at \in {"HEALTH_FIRST", "HEALTH_SECOND"} /\ o = "exhausted"
  THEN BaseStep(t, "VALIDATE")
  ELSE IF o = "exhausted" THEN BaseExhausted(t)
  ELSE IF o = "rejected" THEN CompleteRecovery(t)
  ELSE IF o # "ok" THEN BaseFails(t, o)
  ELSE CASE t.at = "UPLOAD_CONFIG" -> BaseStep(t, "FDT_TX_ON_BEFORE")
         [] t.at = "FDT_TX_ON_BEFORE" ->
              BaseStep([t EXCEPT !.base.first = Fresh(t)], "CAPTURE_TX_ON")
         [] t.at = "CAPTURE_TX_ON" -> BaseStep(t, "FDT_TX_OFF")
         [] t.at = "FDT_TX_OFF" -> BaseStep(t, "HEALTH_FIRST")
         [] t.at = "HEALTH_FIRST" -> BaseWait(t, "HEALTH_SECOND")
         [] t.at = "HEALTH_SECOND" -> BaseStep(t, "VALIDATE")
         [] t.at = "VALIDATE" -> BaseStep(t, "CAPTURE_TX_OFF")
         [] t.at = "CAPTURE_TX_OFF" -> BaseStep(t, "FDT_TX_ON_AFTER")
         [] t.at = "FDT_TX_ON_AFTER" -> Publish(t)

\* A forced refresh uploads the configuration; a cold one starts on the sensor
\* its owner has just configured.
BaseStart(t, forced, reason) ==
  LET u == [t EXCEPT !.sub = "base", !.baseValid = FALSE,
              !.base = [NoBase EXCEPT !.forced = forced, !.reason = reason,
                                      !.leave = forced]]
  IN IF forced THEN BaseStep(u, "UPLOAD_CONFIG")
     ELSE IF t.gen # NoGeneration THEN [t EXCEPT !.sub = "joined", !.joined = "none"]
     ELSE BaseStep([u EXCEPT !.recoveryPending = FALSE], "FDT_TX_ON_BEFORE")
=============================================================================
