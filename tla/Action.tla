------------------------------- MODULE Action -------------------------------
(***************************************************************************)
(* Enrollment and authentication over a scan, its worker and the reference *)
(* generation they read.                                                   *)
(*                                                                         *)
(* Source: drivers/goodix53x5/device/enroll.c, auth.c, base.c (the         *)
(* generation) and persistence.c (the setup packet).  The coordinator is   *)
(* what FrameCycle promises of it (Scan implements FrameCycle, and never   *)
(* replaces a reference while a frame is out); the worker is Runtime.      *)
(***************************************************************************)

EXTENDS Runtime, FiniteSets

CONSTANTS
  Kinds,      \* the actions the application starts
  Galleries,  \* the galleries it identifies against; one entry to verify
  Samples     \* GOODIX_ENROLL_SAMPLES

ASSUME ActionAssumption ==
  /\ Kinds \subseteq {"enroll", "verify", "identify"}
  \* A print is unreadable, readable but broken inside, or sound.
  /\ \A gallery \in Galleries : gallery \in Seq({"unreadable", "broken", "sound"})
  /\ Samples \in Nat \ {0}

VARIABLES
  act,     \* the action: its attempts, and what it has pending
  gen,     \* milan_generation and the hardware reference behind it
  heard,   \* what the application was told of this action
  frame, lifted, told

vars == <<job, token, disk, act, gen, heard, frame, lifted, told>>

Cycle == INSTANCE FrameCycle WITH
  AfterUp <- {"retry", "continue", "final"},
  Final <- {"success", "fatal", "cancelled"}

\* Identities come from counters that never repeat; only whether two that are
\* held are the same matters.
Ids == 1 .. 3

Epochs == 1 .. 2

NoAct ==
  [kind |-> "none", phase |-> "idle", cancelled |-> FALSE, gallery |-> <<>>, epoch |-> 1,
   stage |-> 0, count |-> 0, badRecord |-> 0, badContinue |-> 0, progress |-> "none",
   report |-> "none", match |-> 0, update |-> FALSE, persist |-> {}]

ActState ==
  /\ DOMAIN act = DOMAIN NoAct
  /\ act.kind \in {"none", "enroll", "verify", "identify"}
  \* "failed": the reconstruction before the scan has failed
  /\ act.phase \in {"idle", "reinit", "failed", "scan"}
  /\ {act.cancelled, act.update} \subseteq BOOLEAN
  /\ act.epoch \in Epochs
  /\ act.stage \in 0 .. Samples /\ act.count \in 0 .. Samples
  /\ act.badRecord \in 0 .. 5 /\ act.badContinue \in 0 .. 3
  \* pending_enroll_progress and its error
  /\ act.progress \in {"none", "stage", "retry"}
  \* pending_result_report
  /\ act.report \in {"none", "match", "miss", "retry"}
  /\ act.match \in 0 .. Len(act.gallery)
  /\ Holds(act.persist)   \* pending_persistence_state

\* id 0: no generation.  hardware 0: no hardware reference.
NoGen ==
  [id |-> 0, flags |-> NoFlags, state |-> 0, packet |-> {}, process |-> FALSE,
   hardware |-> 0, refresh |-> FALSE, retained |-> FALSE]

GenState ==
  /\ DOMAIN gen = DOMAIN NoGen
  /\ gen.id \in Ids \cup {0} /\ gen.hardware \in Ids \cup {0}
  /\ gen.flags \in Flags /\ gen.state \in Snapshot /\ Holds(gen.packet)
  /\ gen.process \in BOOLEAN   \* process_state_retained
  /\ gen.refresh \in BOOLEAN   \* hardware_refresh_pending
  /\ gen.retained \in BOOLEAN  \* milan_retained_generation

\* stage: the last stage reported; print: the gallery print that was updated.
Silence ==
  [stage |-> 0, report |-> "none", match |-> 0, print |-> 0, result |-> "none"]

HeardState ==
  /\ DOMAIN heard = DOMAIN Silence
  /\ heard.stage \in 0 .. Samples
  /\ heard.report \in {"none", "match", "miss", "retry"}
  /\ {heard.match, heard.print} \subseteq Nat
  /\ heard.result \in {"none", "ok", "error"}

Fresh(held, all) == CHOOSE id \in all \ held : \A other \in all \ held : id <= other

NextEpoch == Fresh({job.epoch}, Epochs)

NextId == Fresh({gen.id, job.gen}, Ids)

Stopped == act.cancelled \/ token

-----------------------------------------------------------------------------
(* The reference generation *)

\* goodix_milan_generation_retain_process, with the hardware reference dropped.
Retain(g) ==
  [NoGen EXCEPT !.retained = g.retained \/ g.id # 0]

\* An initial or recovered base.
PublishBase(g, id) ==
  [NoGen EXCEPT !.id = id, !.hardware = id, !.process = g.retained,
                !.flags = IF g.retained THEN [NoFlags EXCEPT !.refresh = TRUE] ELSE NoFlags]

\* A forced refresh keeps the generation the engine has consumed; refreshes for
\* an invalid base do not mark it.
RefreshBase(g, id, marked) ==
  [(IF g.id = 0 THEN PublishBase(g, id) ELSE g)
     EXCEPT !.hardware = id, !.refresh = g.refresh \/ marked]

\* Mutant of Prepared: a setup that is only marked for refresh counts as done.
Prepared_Initialized(g, merged, saved) ==
  IF g.flags.initialized /\ ~g.refresh THEN g
  ELSE LET state == IF saved = {} THEN 0 ELSE CHOOSE snapshot \in saved : TRUE
           own == g.flags.initialized \/ g.process
       IN  [g EXCEPT !.id = IF g.hardware # 0 THEN g.hardware ELSE @,
                     !.flags.refresh = @ \/ g.refresh, !.refresh = FALSE,
                     !.packet = saved,
                     !.state = IF own /\ merged THEN Changed(state) ELSE state]

\* goodix_milan_generation_prepare_setup: the newest reference, a packet, and the
\* process's own state merged into what the packet holds.
Prepared(g, merged, saved) ==
  IF ~SetupRequired(g.flags) /\ ~g.refresh THEN g
  ELSE LET state == IF saved = {} THEN 0 ELSE CHOOSE snapshot \in saved : TRUE
           own == g.flags.initialized \/ g.process
       IN  [g EXCEPT !.id = IF g.hardware # 0 THEN g.hardware ELSE @,
                     !.flags.refresh = @ \/ g.refresh, !.refresh = FALSE,
                     !.packet = saved,
                     !.state = IF own /\ merged THEN Changed(state) ELSE state]

\* Bases are acquired by services, coordinators and the open sequence.
Base ==
  /\ frame # "out"
  /\ gen' \in {RefreshBase(gen, NextId, marked) : marked \in BOOLEAN}
              \cup IF gen.id = 0 THEN {PublishBase(gen, NextId)} ELSE {}
  /\ UNCHANGED <<job, token, disk, act, heard, frame, lifted, told>>

\* Between actions the device is closed, opened or reconstructed.
Reopen ==
  /\ act.phase = "idle" /\ frame = "none"
  /\ gen' = Retain(gen) /\ act' = [act EXCEPT !.epoch = NextEpoch]
  /\ UNCHANGED <<job, token, disk, heard, frame, lifted, told>>

-----------------------------------------------------------------------------
(* Starting: goodix_enroll_start, goodix_auth_start *)

Start ==
  /\ act.phase = "idle" /\ frame = "none"
  /\ \E kind \in Kinds, gallery \in Galleries :
       /\ kind = "verify" => Len(gallery) = 1
       /\ act' = [NoAct EXCEPT !.kind = kind, !.phase = "reinit",
                               !.gallery = IF kind = "enroll" THEN <<>> ELSE gallery,
                               !.epoch = NextEpoch]
  /\ token' = FALSE /\ heard' = Silence
  /\ UNCHANGED <<job, disk, gen, frame, lifted, told>>

\* The REINIT state: nothing to do, a reconstruction, or its failure.
Reinit ==
  /\ act.phase = "reinit"
  /\ \/ /\ act' = [act EXCEPT !.phase = "scan"] /\ UNCHANGED gen
        /\ IF told = "none" THEN UNCHANGED <<frame, lifted, told>> ELSE Cycle!Begin
     \/ /\ gen.id # 0 /\ gen' = Retain(gen)
        /\ act' \in {[act EXCEPT !.epoch = NextEpoch, !.phase = phase] :
                       phase \in {"reinit", "failed"}}
        /\ UNCHANGED <<frame, lifted, told>>
  /\ UNCHANGED <<job, token, disk, heard>>

-----------------------------------------------------------------------------
(* Frames: goodix_enroll_start_task, goodix_auth_start_task *)

Scanning == act.phase = "scan" /\ told = "none"

Readable == {i \in DOMAIN act.gallery : act.gallery[i] # "unreadable"}

\* The p-th readable print.
Nth(p) == CHOOSE i \in Readable : Cardinality({j \in Readable : j <= i}) = p

\* What the worker gets of the gallery: the readable prints, with their indexes.
WorkerGallery ==
  [p \in 1 .. Cardinality(Readable) |->
     [index |-> Nth(p), sound |-> act.gallery[Nth(p)] = "sound"]]

\* The task is refused without a readable print to compare with.
Refused == act.gallery # <<>> /\ Readable = {}

TaskInput(g, allowed) ==
  [NoJob EXCEPT !.kind = act.kind, !.epoch = act.epoch, !.gen = g.id,
                !.stage = act.stage, !.flags = g.flags, !.state = g.state,
                !.packet = g.packet, !.allowed = allowed,
                !.gallery = WorkerGallery, !.at = "setup"]

\* goodix_milan_persistence_restore: the state file, the defaults when it cannot
\* be read or is invalid, or no packet (no memory, no sensor identity).
Packets == {disk, {0}, {}}

\* The coordinator delivers the frame: the setup is prepared, the task takes
\* the setup packet with it.
Deliver ==
  /\ Scanning /\ gen.id # 0 /\ Cycle!Deliver
  /\ \E allowed, merged \in BOOLEAN, saved \in Packets :
       LET g == [Prepared(gen, merged, saved) EXCEPT !.refresh = FALSE]
       IN  IF Refused \/ job.at # "none"
           THEN frame' = "fatal" /\ gen' = g /\ UNCHANGED job
           ELSE /\ frame' = "out" /\ job' = TaskInput(g, allowed)
                /\ gen' = [g EXCEPT !.packet = {}]
  /\ UNCHANGED <<token, disk, act, heard>>

\* A stop keeps the frame from the worker, and the refresh marker is consumed.
Undelivered ==
  /\ Scanning /\ frame = "none" /\ gen.refresh
  /\ gen' = [gen EXCEPT !.refresh = FALSE]
  /\ UNCHANGED <<job, token, disk, act, heard, frame, lifted, told>>

-----------------------------------------------------------------------------
(* The worker's result: goodix_enroll_task_done, goodix_auth_task_done *)

Cancelled == Stopped \/ job.status = "cancelled"

Owned ==
  /\ act.kind = job.kind /\ (job.kind = "enroll" => act.stage = job.stage)
  /\ act.epoch = job.epoch \/ Cancelled

\* The live generation takes over the result; of a cancelled one only that its
\* setup was published.
Adopted ==
  IF ~Owned \/ gen.id # job.gen THEN gen
  ELSE IF job.stateValid /\ ~Cancelled
  THEN [gen EXCEPT !.flags = job.flags, !.state = job.state]
  ELSE IF job.setupValid THEN [gen EXCEPT !.flags = job.flags] ELSE gen

\* Rolls back a poor fit, at most three times in a row and five in all.
MayRollback == act.count > 2 /\ act.badRecord <= 4 /\ act.badContinue <= 2

Streak(n) == IF n < 3 THEN 0 ELSE n

\* The transaction's attempt: accepted, rolled back, or not combined.
Attempts ==
  LET a == [act EXCEPT !.badContinue = Streak(@)]
      accepted == [a EXCEPT !.count = @ + 1, !.stage = a.count + 1, !.progress = "stage",
                            !.persist = IF a.count + 1 = Samples THEN {job.state} ELSE {}]
  IN  {accepted, [a EXCEPT !.progress = "retry"]}
      \cup IF MayRollback
           THEN {[act EXCEPT !.badRecord = @ + 1, !.badContinue = @ + 1,
                             !.progress = "retry"]} ELSE {}

\* An image that never reaches the transaction breaks a streak only when its
\* sample had been admitted.
Enrolled ==
  IF job.probe THEN Attempts
  ELSE {[act EXCEPT !.badContinue = IF job.sampled THEN Streak(@) ELSE @,
                    !.progress = "retry"]}

EnrollVerdict(a) == IF a.stage >= Samples THEN "final" ELSE "continue"

\* Mutant of Authenticated: a retry queues no report.
Authenticated_NoRetryReport ==
  LET a == [act EXCEPT !.report = "none", !.match = 0, !.update = FALSE, !.persist = {}]
      update == job.study = "candidate"
  IN  IF job.status = "match"
      THEN [a EXCEPT !.report = "match", !.match = job.winner, !.update = update,
                     !.persist = IF update /\ job.stateValid THEN {job.state} ELSE {}]
      ELSE IF job.status = "nomatch" THEN [a EXCEPT !.report = "miss"]
      ELSE act

\* The result is queued; a match also queues the print's update, and with it
\* the state to save.
Authenticated ==
  LET a == [act EXCEPT !.report = "none", !.match = 0, !.update = FALSE, !.persist = {}]
      update == job.study = "candidate"
  IN  IF job.status = "match"
      THEN [a EXCEPT !.report = "match", !.match = job.winner, !.update = update,
                     !.persist = IF update /\ job.stateValid THEN {job.state} ELSE {}]
      ELSE IF job.status = "nomatch" THEN [a EXCEPT !.report = "miss"]
      ELSE IF job.status = "retry" THEN [a EXCEPT !.report = "retry"]
      ELSE act

AuthVerdict ==
  IF job.status = "match" THEN "success"
  ELSE IF job.status \in {"nomatch", "retry"} THEN "retry" ELSE "fatal"

\* The verdict may end the scan in the same main loop callback.
TaskDone ==
  /\ job.at = "done"
  /\ \/ /\ ~Owned \/ Cancelled
        /\ act' = act /\ frame' = "cancelled"
     \/ /\ Owned /\ ~Cancelled /\ job.kind = "enroll"
        /\ act' \in Enrolled /\ frame' = EnrollVerdict(act')
     \/ /\ Owned /\ ~Cancelled /\ job.kind # "enroll"
        /\ act' = Authenticated /\ frame' = AuthVerdict
  /\ Cycle!Answer \/ Cycle!End
  /\ gen' = Adopted /\ job' = NoJob
  /\ UNCHANGED <<token, disk, heard>>

-----------------------------------------------------------------------------
(* The scan's callbacks, and its end *)

\* goodix_enroll_cycle_settled; authentication has no such callback.
Reported ==
  IF act.progress = "none" THEN UNCHANGED <<act, heard>>
  ELSE /\ act' = [act EXCEPT !.progress = "none"]
       /\ heard' = [heard EXCEPT !.stage = act.stage]

Lift == Cycle!Lift /\ UNCHANGED <<job, token, disk, act, gen, heard>>

Settle == Cycle!Settle /\ Reported /\ UNCHANGED <<job, token, disk, gen>>

\* The last cycle of a scan is settled too, unless a stop comes first.
EndScan ==
  /\ Scanning /\ frame # "out" /\ Cycle!End
  /\ \/ lifted /\ frame \in {"retry", "continue", "final"} /\ Reported
     \/ /\ frame = frame' /\ (told' = "ok" => frame = "success")
        /\ UNCHANGED <<act, heard>>
  /\ UNCHANGED <<job, token, disk, gen>>

Leave == Cycle!Leave /\ UNCHANGED <<job, token, disk, act, gen, heard>>

-----------------------------------------------------------------------------
(* Completion: goodix_enroll_complete, goodix_verify_complete *)

Succeeded == act.phase = "scan" /\ told = "ok"

Ended == act.phase = "failed" \/ (act.phase = "scan" /\ told # "none")

\* The attempt's fields are reset by the next start, or dead until it.
Idle == [NoAct EXCEPT !.epoch = act.epoch]

\* The template is built and given to the application, then the state is saved;
\* building may fail, and a failed save is only warned of.
CompleteEnroll ==
  /\ Ended /\ act.kind = "enroll"
  /\ \/ /\ Succeeded /\ act.stage = Samples /\ act.count = Samples /\ act.persist # {}
        /\ disk' \in {disk, act.persist}
        /\ heard' = [heard EXCEPT !.result = "ok"]
     \/ disk' = disk /\ heard' = [heard EXCEPT !.result = "error"]
  /\ act' = Idle
  /\ UNCHANGED <<job, token, gen, frame, lifted, told>>

\* Mutant of CompleteAuth: only the scan's outcome is looked at.
CompleteAuth_NoRecheck ==
  /\ Ended /\ act.kind \in {"verify", "identify"}
  /\ IF Succeeded /\ act.report # "none"
     THEN /\ disk' \in {disk} \cup (IF act.update /\ act.persist # {} THEN {act.persist} ELSE {})
          /\ heard' = [heard EXCEPT !.report = act.report, !.match = act.match,
                                    !.print = IF act.update THEN act.match ELSE 0,
                                    !.result = "ok"]
     ELSE disk' = disk /\ heard' = [heard EXCEPT !.result = "error"]
  /\ act' = Idle
  /\ UNCHANGED <<job, token, gen, frame, lifted, told>>

\* Cancellation and removal are looked at once more; then the update, the state
\* and the report, in this order.
CompleteAuth ==
  /\ Ended /\ act.kind \in {"verify", "identify"}
  /\ \E removed \in BOOLEAN :
     IF Succeeded /\ ~Stopped /\ ~removed /\ act.report # "none"
     THEN /\ disk' \in {disk} \cup (IF act.update /\ act.persist # {} THEN {act.persist} ELSE {})
          /\ heard' = [heard EXCEPT !.report = act.report, !.match = act.match,
                                    !.print = IF act.update THEN act.match ELSE 0,
                                    !.result = "ok"]
     ELSE disk' = disk /\ heard' = [heard EXCEPT !.result = "error"]
  /\ act' = Idle
  /\ UNCHANGED <<job, token, gen, frame, lifted, told>>

-----------------------------------------------------------------------------
(* The application and the session *)

\* The application cancels; the driver hears of it from an idle callback.
Cancel ==
  /\ act.phase # "idle" /\ ~act.cancelled
  /\ act' = [act EXCEPT !.cancelled = TRUE]
  /\ UNCHANGED <<job, token, disk, gen, heard, frame, lifted, told>>

\* goodix_cancel: a worker that is running belongs to an earlier epoch from now on.
GoodixCancel ==
  /\ act.phase # "idle" /\ act.cancelled /\ ~token /\ token' = TRUE
  /\ act' = [act EXCEPT !.epoch = NextEpoch]
  /\ UNCHANGED <<job, disk, gen, heard, frame, lifted, told>>

\* A suspend, and the cleanup that joins the worker, keep the epoch.
CancelToken ==
  /\ act.phase # "idle" /\ ~token /\ token' = TRUE
  /\ UNCHANGED <<job, disk, act, gen, heard, frame, lifted, told>>

Init ==
  /\ job = NoJob /\ token = FALSE /\ disk = {}
  /\ act = NoAct /\ gen = NoGen /\ heard = Silence /\ Cycle!Init

Next ==
  \/ Worker /\ UNCHANGED <<act, gen, heard, frame, lifted, told>>
  \/ Base \/ Reopen \/ Start \/ Reinit
  \/ Deliver \/ Undelivered \/ TaskDone
  \/ Lift \/ Settle \/ EndScan \/ Leave
  \/ CompleteEnroll \/ CompleteAuth
  \/ Cancel \/ GoodixCancel \/ CancelToken

Spec == Init /\ [][Next]_vars

-----------------------------------------------------------------------------
(* Properties *)

\* Every field stays in its range.
TypeOK == JobState(job) /\ ActState /\ GenState /\ HeardState /\ Holds(disk)

\* A worker never outlives what it was started for: its action, stage and
\* generation are still the current ones, and only a cancellation has taken the
\* epoch away from it, so that the checks of task_done never throw the setup it
\* has published away.
JobCurrent ==
  /\ job.at # "none" <=> frame = "out"
  /\ frame = "out" => Owned /\ gen.id = job.gen /\ (act.epoch = job.epoch \/ token)

\* A worker that has to set up does so on the newest admitted reference, with
\* the packet that is on disk or the defaults: the setup-save never puts an
\* earlier snapshot over a later one.
SetupInput ==
  job.at = "setup" /\ SetupRequired(job.flags) =>
    job.gen = gen.hardware /\ job.packet \subseteq disk \cup {0}

\* Every job of the worker starts from what is current, and is judged by it.
JobGrounded == JobCurrent /\ SetupInput

\* A successful enrollment has all its samples in the template, has reported
\* every stage, and saves the state that is live ("action state is incomplete"
\* is unreachable).
EnrollmentComplete ==
  Succeeded /\ act.kind = "enroll" =>
    /\ act.stage = Samples /\ act.count = Samples
    /\ act.persist = {gen.state}
    /\ heard.stage = Samples /\ act.progress = "none"

\* A successful authentication has a result to report, and saves no other state
\* than the live one ("completed without a result" is unreachable).
AuthenticationComplete ==
  Succeeded /\ act.kind \in {"verify", "identify"} =>
    /\ act.report # "none"
    /\ act.update => act.report = "match" /\ act.persist = {gen.state}

\* Every answered frame of an enrollment owes the application one progress
\* report, which is made before the next frame is delivered.
ProgressPaired ==
  Scanning /\ act.kind = "enroll" =>
    (act.progress # "none" <=> frame \in {"continue", "final"})

\* The print that a match reports and updates is one the worker has compared,
\* also when unreadable prints before it never reached the worker.
MatchedPrint == act.report = "match" => act.gallery[act.match] = "sound"

\* What the application is told, and what is saved with it, is complete and of
\* the right print.
OutcomeComplete ==
  EnrollmentComplete /\ AuthenticationComplete /\ ProgressPaired /\ MatchedPrint

\* After a cancellation an authentication reports nothing, updates no print and
\* saves no state; only a setup that the worker is publishing reaches the disk.
CancelledLearnsNothing ==
  [][Stopped /\ act.kind \in {"verify", "identify"} =>
       /\ heard'.report = heard.report /\ heard'.print = heard.print
       /\ disk' # disk => job.at = "setup"]_vars

\* What the worker has done to the setup survives its cancellation, and nothing
\* else does: the next frame does not publish the same setup again.
SetupSurvives ==
  [][job.at = "done" /\ job'.at = "none" =>
       /\ job.setupValid => gen'.flags = job.flags
       /\ Stopped => gen'.state = gen.state]_vars

\* Accepted samples are never lost, not even to a rollback, and each frame adds
\* at most one.
SamplesKept ==
  [][act.kind = "enroll" /\ act'.kind = "enroll" =>
       act'.count \in {act.count, act.count + 1} /\ act'.stage = act'.count]_vars

\* What an interruption keeps and what it takes: the setup and the accepted
\* samples stay, anything learnt afterwards is thrown away.
InterruptionClean == CancelledLearnsNothing /\ SetupSurvives /\ SamplesKept

=============================================================================
