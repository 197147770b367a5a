-------------------------------- MODULE Store --------------------------------
(* The life of what preprocessing learns: delivered frames change it in a     *)
(* worker (milan/runtime.c), the engine's generation owns it (device/base.c), *)
(* a setup restores and publishes it, an action that changed a template saves *)
(* it (device/auth.c, device/enroll.c, device/persistence.c), and the process *)
(* or the machine may die at any step of a write.                             *)
EXTENDS Preprocess, StateFile

CONSTANTS MaxFaults, \* failing reads and writes, deaths and losses of power
          MaxFrames  \* frames that are installed

ASSUME StoreAssumption ==
  MaxFaults \in Nat /\ MaxFrames \in Nat /\ Record = LearningRecord

VARIABLES
  gen,     \* the engine's generation, or the one retained for its process state
  phase,   \* what the action does with the delivered frame
  setup,   \* the record this delivery's setup will publish
  pending, \* the snapshot the action saves when it completes
  blind,   \* the generation's samples come from a read that failed
  faults,
  frames

engineVars == <<gen, phase, setup, pending, blind, faults, frames>>
storeVars == <<fileVars, engineVars>>

NoPending == Unlearnt

EmptyGeneration ==
  [kind |-> "none", L |-> Unlearnt, init |-> FALSE, refresh |-> FALSE,
   notReady |-> FALSE, kept |-> FALSE]

StoreInit ==
  /\ FileInit
  /\ gen = EmptyGeneration /\ phase = "idle" /\ setup = DefaultRecord
  /\ pending = NoPending /\ blind = FALSE /\ faults = 0 /\ frames = 0

Fault == faults < MaxFaults /\ faults' = faults + 1

\* ---------------------------------------------------------------------------
\* The generation.

\* A cold base publishes a generation; process state comes from the last one.
Acquire_Fresh ==
  /\ phase = "idle" /\ gen.kind # "live"
  /\ gen' = [EmptyGeneration EXCEPT !.kind = "live"]
  /\ UNCHANGED <<fileVars, phase, setup, pending, blind, faults, frames>>

Acquire ==
  /\ phase = "idle" /\ gen.kind # "live"
  /\ gen' = IF gen.kind = "none" THEN [EmptyGeneration EXCEPT !.kind = "live"]
            ELSE [EmptyGeneration EXCEPT
                    !.kind = "live", !.L = TransferProcessState(Unlearnt, gen.L),
                    !.refresh = TRUE, !.kept = TRUE]
  /\ UNCHANGED <<fileVars, phase, setup, pending, blind, faults, frames>>

\* Close, reinitialization and a rejected base keep only the process state.
RetainProcessState ==
  /\ phase = "idle" /\ gen.kind = "live"
  /\ gen' = [EmptyGeneration EXCEPT !.kind = "retained",
                                 !.L = TransferProcessState(Unlearnt, gen.L)]
  /\ UNCHANGED <<fileVars, phase, setup, pending, blind, faults, frames>>

\* goodix_milan_persistence_restore: nothing to read, or something invalid,
\* yields the defaults, and so does a read that fails.
Restore(rec, marked, failed) ==
  /\ setup' = rec
  /\ gen' = [gen EXCEPT
               !.L = IF gen.init \/ gen.kept
                       THEN TransferProcessState(Restored(rec), gen.L)
                       ELSE Restored(rec),
               !.refresh = @ \/ marked]
  /\ blind' = failed

\* A frame is delivered: the setup is due the first time, after a refresh, and
\* when the hardware has published a base the engine has not consumed.
DeliverFrame(marked) ==
  /\ phase = "idle" /\ gen.kind = "live"
  /\ phase' = "setup"
  /\ IF gen.init /\ ~gen.refresh /\ ~marked
       THEN UNCHANGED <<gen, setup, blind, faults>>
       ELSE \/ /\ Restore(IF disk.file \in Record THEN disk.file ELSE DefaultRecord,
                          marked, FALSE)
               /\ UNCHANGED faults
            \/ /\ disk.file \in Record /\ Fault
               /\ Restore(DefaultRecord, marked, TRUE)
  /\ UNCHANGED <<fileVars, pending, frames>>

\* ---------------------------------------------------------------------------
\* The worker.

SetupRequired == ~gen.init \/ gen.refresh

\* Cancelled before it begins, or not required and not ready: nothing changes.
Skip ==
  /\ phase = "setup"
  /\ phase' = "idle" /\ setup' = DefaultRecord
  /\ UNCHANGED <<fileVars, gen, pending, blind, faults, frames>>

\* The setup frame is refused, twice.
SetupRefused ==
  /\ phase = "setup" /\ SetupRequired
  /\ gen' = [gen EXCEPT !.refresh = FALSE, !.notReady = gen.init]
  /\ phase' = "idle" /\ setup' = DefaultRecord
  /\ UNCHANGED <<fileVars, pending, blind, faults, frames>>

\* An admitted setup publishes its record, which no cancellation takes back.
SetupAdmitted ==
  /\ phase = "setup" /\ SetupRequired
  /\ gen' = [gen EXCEPT !.init = TRUE, !.refresh = FALSE, !.notReady = FALSE]
  /\ Begin(setup)
  /\ phase' = "publishing" /\ setup' = DefaultRecord
  /\ UNCHANGED <<pending, blind, faults, frames>>

SetupReady ==
  /\ phase = "setup" /\ ~SetupRequired /\ ~gen.notReady
  /\ phase' = "frame" /\ UNCHANGED <<fileVars, gen, setup, pending, blind, faults, frames>>

SetupPublished ==
  /\ phase = "publishing" /\ write.step = "none"
  /\ phase' = "frame" /\ UNCHANGED <<fileVars, gen, setup, pending, blind, faults, frames>>

\* The live frame is not admitted, may not enroll, or the action is cancelled.
FrameDropped ==
  /\ phase = "frame"
  /\ phase' = "idle" /\ UNCHANGED <<fileVars, gen, setup, pending, blind, faults, frames>>

\* The frame's learning is installed; a match that changed its template, or the
\* last stage of an enrollment, takes a snapshot.
FrameInstalled ==
  /\ phase = "frame"
  /\ frames < MaxFrames /\ frames' = frames + 1
  /\ \E L \in Preprocessed(gen.L) :
       /\ gen' = [gen EXCEPT !.L = L]
       /\ \/ phase' = "idle" /\ UNCHANGED pending
          \/ phase' = "ending" /\ pending' = L
  /\ UNCHANGED <<fileVars, setup, blind, faults>>

\* ---------------------------------------------------------------------------
\* The completion of the action.

ActionFails ==
  /\ phase = "ending"
  /\ phase' = "idle" /\ pending' = NoPending
  /\ UNCHANGED <<fileVars, gen, setup, blind, faults, frames>>

ActionSaves ==
  /\ phase = "ending"
  /\ IF WithinFormat(pending) THEN Begin(Saved(pending)) ELSE UNCHANGED fileVars
  /\ phase' = "saving" /\ pending' = NoPending
  /\ UNCHANGED <<gen, setup, blind, faults, frames>>

ActionSaved ==
  /\ phase = "saving" /\ write.step = "none"
  /\ phase' = "idle" /\ UNCHANGED <<fileVars, gen, setup, pending, blind, faults, frames>>

\* ---------------------------------------------------------------------------
\* The file, and the faults.

WriteStep == Writing /\ UNCHANGED engineVars

WriteFailed == WriteFails /\ Fault /\ UNCHANGED <<gen, phase, setup, pending, blind, frames>>

Forget ==
  /\ gen' = EmptyGeneration /\ phase' = "idle" /\ setup' = DefaultRecord
  /\ pending' = NoPending /\ blind' = FALSE

Crash == (Die \/ PowerLoss) /\ Fault /\ Forget /\ UNCHANGED frames

StoreNext ==
  \/ Acquire \/ RetainProcessState \/ (\E marked \in BOOLEAN : DeliverFrame(marked))
  \/ Skip \/ SetupRefused \/ SetupAdmitted \/ SetupReady \/ SetupPublished
  \/ FrameDropped \/ FrameInstalled
  \/ ActionFails \/ ActionSaves \/ ActionSaved
  \/ WriteStep \/ WriteFailed \/ Crash

StoreSpec == StoreInit /\ [][StoreNext]_storeVars

\* ---------------------------------------------------------------------------
\* Properties.

\* Every variable has its type, and a write runs exactly while somebody waits.
StoreTypeOK ==
  /\ gen \in [kind : {"none", "retained", "live"}, L : Learning, init : BOOLEAN,
              refresh : BOOLEAN, notReady : BOOLEAN, kept : BOOLEAN]
  /\ phase \in {"idle", "setup", "publishing", "frame", "ending", "saving"}
  /\ setup \in LearningRecord /\ pending \in Learning
  /\ blind \in BOOLEAN /\ faults \in 0 .. MaxFaults /\ frames \in 0 .. MaxFrames
  /\ disk.file \in Record \cup {Absent, Torn}
  /\ write.step # "none" => phase \in {"publishing", "saving"}

\* Over any sequence of frames, refreshes and reopenings, a snapshot is within
\* the limits of the file format, so that saving never refuses one, and no
\* component is older than the updates counted with it, in memory and on disk
\* (persistence.c:739-766, classification.c:1153-1166).
Saveable ==
  /\ WithinFormat(pending)
  /\ gen.L.age <= gen.L.upd
  /\ disk.file \in Record => disk.file.age <= disk.file.upd

\* A record never replaces one with more calibration samples, unless the one it
\* replaces could not be read (persistence.c:586-692).
RecordKept ==
  [][ /\ write.step # "renamed" /\ write'.step = "renamed"
      /\ disk.file \in Record /\ ~blind
      => disk'.file.samples >= disk.file.samples ]_storeVars

\* What the classifier has learnt in this process survives refreshes, failed
\* setups, closing and opening; only the process' death takes it (base.c:207).
HistorySurvives ==
  [][ gen.L.classifier /\ gen'.kind # "none"
      => /\ gen'.L.classifier
         /\ gen'.L.upd >= gen.L.upd /\ gen'.L.ring >= gen.L.ring ]_storeVars
=============================================================================
