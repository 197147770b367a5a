---------------------------- MODULE ActionProofs ----------------------------
(***************************************************************************)
(* The safety of Action, for every set of kinds and galleries, and every   *)
(* number of samples and snapshots: what a job starts from, what its       *)
(* outcome is told with, and what an interruption keeps.                   *)
(*                                                                         *)
(* First the worker, whose steps change only its job; then one lemma per   *)
(* action of the main loop, and the theorems.                              *)
(***************************************************************************)
EXTENDS Action, FiniteSetTheorems, SequenceTheorems, WellFoundedInduction, TLAPS

\* The shape of the records, and what arithmetic is done on.
Typed ==
  /\ DOMAIN job =
       {"kind", "epoch", "gen", "stage", "flags", "state", "packet", "allowed",
        "gallery", "at", "status", "setupValid", "stateValid", "metrics",
        "sampled", "probe", "pos", "valid", "winner", "study"}
  /\ DOMAIN act =
       {"kind", "phase", "cancelled", "gallery", "epoch", "stage", "count",
        "badRecord", "badContinue", "progress", "report", "match", "update",
        "persist"}
  /\ DOMAIN gen =
       {"id", "flags", "state", "packet", "process", "hardware", "refresh",
        "retained"}
  /\ DOMAIN heard = {"stage", "report", "match", "print", "result"}
  /\ frame \in {"none", "out"} \cup Cycle!Verdict
  /\ told \in {"none", "ok", "cancelled", "error"}
  /\ act.stage \in Nat
  /\ act.gallery \in Seq({"unreadable", "broken", "sound"})

\* Where the action is: no frame but in a scan, no result before one.
Phases ==
  /\ act.phase \in {"idle", "reinit", "failed", "scan"}
  /\ act.kind \in {"none", "enroll", "verify", "identify"}
  /\ act.phase = "idle" <=> act.kind = "none"
  /\ frame # "none" => act.phase \in {"idle", "scan"}
  /\ frame = "out" => act.phase = "scan" /\ told = "none"
  /\ act.phase # "scan" =>
       act.stage = 0 /\ act.count = 0 /\ act.persist = {} /\ act.progress = "none"
       /\ act.report = "none" /\ ~act.update

\* The job that is out is the current one, and how far it has got.
JobOut ==
  /\ job.at # "none" <=> frame = "out"
  /\ job.at = "none" => job = NoJob
  /\ frame = "out" =>
       /\ Owned /\ gen.id = job.gen /\ job.gen # 0
       /\ act.epoch = job.epoch \/ token
       /\ DOMAIN job.gallery = 1 .. Len(job.gallery) /\ Len(job.gallery) \in Nat
       /\ job.pos \in Nat \ {0}
       /\ \A p \in DOMAIN job.gallery :
            job.gallery[p].sound => act.gallery[job.gallery[p].index] = "sound"

\* How far the job has got, and what it has decided by then.
JobStage ==
  /\ job.at \in {"none", "setup", "live", "extract", "match", "study", "studied", "done"}
  /\ job.at \in {"setup", "live"} => ~job.probe
  /\ job.at \in {"setup", "live", "extract", "match"} =>
       job.status = "none" /\ job.study = "none"
  /\ job.at \in {"extract", "match", "study", "studied"} => job.stateValid
  /\ job.at \in {"study", "studied"} => job.status = "match"
  /\ job.status # "cancelled" /\ (job.probe \/ job.status = "match") => job.stateValid
  /\ job.study = "candidate" => job.status = "match"
  /\ job.status = "match" => act.gallery[job.winner] = "sound"

\* A generation is of a reference the hardware still has.
Reference == gen.id # 0 => gen.hardware # 0

\* What will be saved is what is live, and no other frame comes.
Persisted ==
  act.persist # {} =>
    /\ gen.id # 0 /\ act.persist = {gen.state}
    /\ told = "none" => frame \notin {"none", "out", "continue"}

\* A template is full when its last frame is answered, and not before; what is
\* owed to the application is what its frame has been answered with.
Enrolling ==
  act.phase = "scan" /\ act.kind = "enroll" =>
    /\ act.count = act.stage
    /\ frame \in {"none", "out", "continue", "final", "cancelled", "fatal"}
    /\ told = "none" /\ frame \in {"none", "out", "continue"} => act.stage < Samples
    /\ frame = "final" => act.stage = Samples
    /\ act.stage = Samples => act.persist # {}
    /\ told = "none" => (act.progress # "none" <=> frame \in {"continue", "final"})
    /\ told = "ok" =>
         act.stage = Samples /\ heard.stage = Samples /\ act.progress = "none"

\* A frame that may end the scan with success has queued its report.
Authenticating ==
  act.phase = "scan" /\ act.kind # "enroll" =>
    /\ frame \in {"none", "out", "success", "retry", "cancelled", "fatal"}
    /\ act.update => act.report = "match" /\ act.persist # {}
    /\ frame \in {"success", "retry"} \/ told = "ok" => act.report # "none"

IInv ==
  /\ Typed /\ Phases /\ JobOut /\ JobStage /\ SetupInput /\ Reference
  /\ Persisted /\ Enrolling /\ Authenticating /\ MatchedPrint

\* What is done beside its scan leaves an action its attempt.
KeepsAttempt ==
  /\ DOMAIN act' = DOMAIN act /\ act'.kind = act.kind /\ act'.phase = act.phase
  /\ act'.gallery = act.gallery /\ act'.stage = act.stage /\ act'.count = act.count
  /\ act'.report = act.report /\ act'.match = act.match /\ act'.update = act.update
  /\ act'.persist = act.persist

-----------------------------------------------------------------------------
(* The worker *)

\* The action's part of a job.
KeepsInput(j) ==
  /\ DOMAIN j = DOMAIN job /\ j.kind = job.kind /\ j.epoch = job.epoch
  /\ j.gen = job.gen /\ j.stage = job.stage /\ j.gallery = job.gallery

\* What every step of the worker leaves alone.
SameJob ==
  /\ KeepsInput(job')
  /\ job'.pos \in {job.pos, job.pos + 1}
  /\ job.at \notin {"none", "done"}
  /\ job'.at \in {"live", "extract", "match", "study", "studied", "done"}
  /\ UNCHANGED token

\* A step of the worker on its job disturbs nothing of the main loop's.
LEMMA WorkerInv ==
  ASSUME IInv, SameJob, JobStage', UNCHANGED <<act, gen, heard, frame, lifted, told>>
  PROVE  IInv'
<1> USE DEF IInv
<1>1. Typed'
  BY DEF SameJob, KeepsInput, Typed
<1>2. Phases' /\ Reference' /\ Persisted' /\ Enrolling' /\ Authenticating' /\ MatchedPrint'
  BY DEF Phases, Reference, Persisted, Enrolling, Authenticating, MatchedPrint
<1>3. JobOut'
  <2>1. frame = "out" /\ job'.at # "none"
    BY DEF SameJob, KeepsInput, JobOut
  <2>2. Owned' /\ (act.epoch = job'.epoch \/ token')
    BY <2>1 DEF SameJob, KeepsInput, JobOut, Owned, Cancelled, Stopped
  <2>3. job'.pos \in Nat \ {0}
    BY <2>1 DEF SameJob, KeepsInput, JobOut
  <2> QED
    BY <2>1, <2>2, <2>3 DEF SameJob, KeepsInput, JobOut
<1>4. SetupInput'
  BY DEF SameJob, KeepsInput, SetupInput
<1> QED
  BY <1>1, <1>2, <1>3, <1>4

\* A checkpoint that finds the token cancelled drops what is live.
LEMMA CutInv ==
  ASSUME IInv, Cut
  PROVE  SameJob /\ JobStage'
<1>1. job' = [Done(job, "cancelled") EXCEPT !.stateValid = FALSE, !.study = "none"]
  BY DEF Cut
<1>2. /\ KeepsInput(job')
      /\ job'.pos = job.pos /\ job'.study = "none"
      /\ job'.at = "done" /\ job'.status = "cancelled"
  BY <1>1 DEF Done, IInv, Typed, KeepsInput
<1> QED
  BY <1>2 DEF Cut, SameJob, JobStage

\* A setup that has been published, or had to wait, is behind the worker.
LEMMA SetupInv ==
  ASSUME IInv, Setup
  PROVE  SameJob /\ JobStage'
<1>1. job.at = "setup" /\ ~job.probe /\ job.status = "none" /\ job.study = "none"
      /\ UNCHANGED token
  BY DEF Setup, At, IInv, JobStage
<1>2. PICK j :
        /\ \/ j = job
           \/ \E flags : j = [job EXCEPT !.setupValid = TRUE, !.flags = flags]
        /\ job' \in {Retry(j), [j EXCEPT !.at = "live"]}
  <2>1. CASE ~SetupRequired(job.flags)
    BY <2>1, Zenon DEF Setup, LiveAdmission
  <2>2. CASE SetupRequired(job.flags)
    <3>1. PICK admitted \in BOOLEAN :
            LET saved == admitted /\ job.packet # {}
                flags == InitializeSetup(job.flags, admitted)
                j == [job EXCEPT !.setupValid = TRUE,
                                 !.flags = IF saved THEN flags
                                   ELSE [flags EXCEPT !.initialized = job.flags.initialized]]
            IN  job' = IF saved THEN LiveAdmission(j) ELSE Retry(j)
      BY <2>2 DEF Setup
    <3> DEFINE saved == admitted /\ job.packet # {}
               flags == InitializeSetup(job.flags, admitted)
               live == IF saved THEN flags
                       ELSE [flags EXCEPT !.initialized = job.flags.initialized]
               k == [job EXCEPT !.setupValid = TRUE, !.flags = live]
    <3>2. job' \in {Retry(k), [k EXCEPT !.at = "live"]}
      BY <3>1, Zenon DEF LiveAdmission
    <3> HIDE DEF live
    <3>3. \E f : k = [job EXCEPT !.setupValid = TRUE, !.flags = f]
      OBVIOUS
    <3> HIDE DEF k
    <3> QED
      BY ZenonT(40), <3>2, <3>3, Zenon
  <2> QED
    BY <2>1, <2>2, Zenon
<1>3. /\ KeepsInput(j)
      /\ j.pos = job.pos /\ j.status = "none" /\ j.probe = job.probe
      /\ j.study = "none" /\ j.winner = job.winner
  BY <1>1, <1>2, ZenonT(30) DEF IInv, Typed, KeepsInput
<1>4. /\ KeepsInput(job')
      /\ job'.pos = job.pos /\ job'.probe = job.probe
      /\ job'.study = "none" /\ job'.winner = job.winner
      /\ \/ job'.at = "live" /\ job'.status = "none"
         \/ job'.at = "done" /\ job'.status = "retry"
  <2>1. CASE job' = [j EXCEPT !.at = "live"]
    BY <1>3, <2>1 DEF IInv, Typed, KeepsInput
  <2>2. CASE job' = Retry(j)
    BY <1>3, <2>2 DEF IInv, Typed, Retry, Done, KeepsInput
  <2> QED
    BY <1>2, <2>1, <2>2
<1>5. SameJob
  BY <1>1, <1>4 DEF SameJob
<1>6. JobStage'
  BY <1>1, <1>4 DEF JobStage, IInv
<1> QED
  BY ZenonT(40), <1>5, <1>6, Zenon

\* A late retry has a state, a hard one has no probe either.
LEMMA LiveInv ==
  ASSUME IInv, Live
  PROVE  SameJob /\ JobStage'
<1>1. job.at = "live" /\ ~job.probe /\ job.status = "none" /\ job.study = "none"
      /\ UNCHANGED token
  BY DEF Live, IInv, JobStage
<1>2. CASE job' = Done(job, "retry")
  <2>1. /\ KeepsInput(job')
        /\ job'.pos = job.pos /\ job'.probe = job.probe
        /\ job'.study = "none" /\ job'.at = "done" /\ job'.status = "retry"
    BY <1>1, <1>2 DEF IInv, Typed, Done, KeepsInput
  <2> QED
    BY <1>1, <2>1 DEF SameJob, JobStage
<1>3. CASE \E state, metrics :
             LET j == [job EXCEPT !.state = state, !.metrics = metrics, !.stateValid = TRUE]
             IN  job' \in {Done(j, "retry"), [j EXCEPT !.at = "extract"]}
  <2>1. PICK j :
          /\ \E state, metrics : j = [job EXCEPT !.state = state, !.metrics = metrics,
                                                 !.stateValid = TRUE]
          /\ job' \in {Done(j, "retry"), [j EXCEPT !.at = "extract"]}
    BY <1>3
  <2>2. /\ KeepsInput(j)
        /\ j.pos = job.pos /\ j.status = "none" /\ j.stateValid = TRUE
        /\ j.study = "none"
    BY <1>1, <2>1, ZenonT(30) DEF IInv, Typed, KeepsInput
  <2>3. /\ KeepsInput(job')
        /\ job'.pos = job.pos /\ job'.study = "none" /\ job'.stateValid = TRUE
        /\ job'.at \in {"extract", "done"} /\ job'.status \in {"none", "retry"}
        /\ job'.at = "extract" => job'.status = "none"
    <3>1. CASE job' = Done(j, "retry")
      BY <2>2, <3>1 DEF IInv, Typed, Done, KeepsInput
    <3>2. CASE job' = [j EXCEPT !.at = "extract"]
      BY <2>2, <3>2 DEF IInv, Typed, KeepsInput
    <3> QED
      BY <2>1, <3>1, <3>2
  <2> QED
    BY <1>1, <2>3 DEF SameJob, JobStage
<1> QED
  BY <1>2, <1>3 DEF Live

\* A probe is made from a state that is kept with it.
LEMMA ExtractInv ==
  ASSUME IInv, Extract
  PROVE  SameJob /\ JobStage'
<1>1. job.at = "extract" /\ job.status = "none" /\ job.study = "none" /\ job.stateValid
      /\ UNCHANGED token
  BY DEF Extract, At, IInv, JobStage
<1>2. PICK j :
        /\ \/ j = job
           \/ \E sampled, state : j = [job EXCEPT !.sampled = sampled, !.state = state]
        /\ job' \in {Done(j, "retry"), [j EXCEPT !.probe = TRUE, !.at = "match"]}
  <2>1. CASE job.kind = "enroll" /\ job.metrics = "low"
    BY <2>1 DEF Extract
  <2>2. CASE ~(job.kind = "enroll" /\ job.metrics = "low")
    <3>1. PICK state : LET j == [job EXCEPT !.sampled = job.kind = "enroll", !.state = state]
            IN  job' \in {Done(j, "retry"), [j EXCEPT !.probe = TRUE, !.at = "match"]}
      BY <2>2 DEF Extract
    <3> QED
      BY <3>1, Zenon
  <2> QED
    BY <2>1, <2>2, Zenon
<1>3. /\ KeepsInput(j)
      /\ j.pos = job.pos /\ j.status = "none" /\ j.stateValid = job.stateValid
      /\ j.study = "none"
  BY <1>1, <1>2, ZenonT(30) DEF IInv, Typed, KeepsInput
<1>4. /\ KeepsInput(job')
      /\ job'.pos = job.pos /\ job'.study = "none" /\ job'.stateValid = job.stateValid
      /\ job'.at \in {"match", "done"} /\ job'.status \in {"none", "retry"}
      /\ job'.at = "match" => job'.status = "none"
  <2>1. CASE job' = Done(j, "retry")
    BY <1>3, <2>1 DEF IInv, Typed, Done, KeepsInput
  <2>2. CASE job' = [j EXCEPT !.probe = TRUE, !.at = "match"]
    BY <1>3, <2>2 DEF IInv, Typed, KeepsInput
  <2> QED
    BY <1>2, <2>1, <2>2
<1> QED
  BY <1>1, <1>4 DEF SameJob, JobStage

\* The winner is an entry the worker has found sound.
LEMMA MatchInv ==
  ASSUME IInv, Match, UNCHANGED act
  PROVE  SameJob /\ JobStage'
<1>1. job.at = "match" /\ job.status = "none" /\ job.study = "none" /\ job.stateValid
      /\ UNCHANGED token
  BY DEF Match, At, IInv, JobStage
<1>2. frame = "out" /\ DOMAIN job.gallery = 1 .. Len(job.gallery)
      /\ Len(job.gallery) \in Nat /\ job.pos \in Nat \ {0}
      /\ \A p \in DOMAIN job.gallery :
           job.gallery[p].sound => act.gallery[job.gallery[p].index] = "sound"
  BY <1>1 DEF IInv, JobOut
<1>3. CASE job.pos > Len(job.gallery)
  <2>1. PICK status : job' = Done(job, status) /\ status \in {"invalid", "nomatch"}
    BY <1>3 DEF Match
  <2>2. /\ KeepsInput(job')
        /\ job'.pos = job.pos /\ job'.study = "none" /\ job'.stateValid = job.stateValid
        /\ job'.at = "done" /\ job'.status \in {"invalid", "nomatch"}
    BY <1>1, <2>1 DEF IInv, Typed, Done, KeepsInput
  <2> QED
    BY <1>1, <2>2 DEF SameJob, JobStage
<1>4. CASE ~(job.pos > Len(job.gallery))
  <2>0. job.pos \in DOMAIN job.gallery
    BY <1>2, <1>4
  <2>1. CASE job' = [job EXCEPT !.pos = @ + 1]
             \/ job' = [[job EXCEPT !.pos = @ + 1] EXCEPT !.valid = TRUE]
    <3>1. /\ KeepsInput(job')
          /\ job'.pos = job.pos + 1 /\ job'.study = "none"
          /\ job'.stateValid = job.stateValid
          /\ job'.at = "match" /\ job'.status = "none"
      <4>1. CASE job' = [job EXCEPT !.pos = @ + 1]
        BY <1>1, <4>1 DEF IInv, Typed, KeepsInput
      <4>2. CASE job' = [[job EXCEPT !.pos = @ + 1] EXCEPT !.valid = TRUE]
        BY <1>1, <4>2 DEF IInv, Typed, KeepsInput
      <4> QED
        BY <2>1, <4>1, <4>2
    <3> QED
      BY <1>1, <3>1 DEF SameJob, JobStage
  <2>2. CASE /\ job.gallery[job.pos].sound
             /\ job' = [job EXCEPT !.valid = TRUE, !.status = "match",
                                   !.winner = job.gallery[job.pos].index, !.at = "study"]
    <3>1. /\ KeepsInput(job')
          /\ job'.pos = job.pos /\ job'.study = "none"
          /\ job'.stateValid = job.stateValid
          /\ job'.at = "study" /\ job'.status = "match"
          /\ job'.winner = job.gallery[job.pos].index
      BY <1>1, <2>2 DEF IInv, Typed, KeepsInput
    <3>2. act.gallery[job'.winner] = "sound"
      BY <1>2, <2>0, <2>2, <3>1
    <3> QED
      BY <1>1, <3>1, <3>2 DEF SameJob, JobStage
  <2> QED
    BY <1>4, <2>1, <2>2 DEF Match
<1> QED
  BY <1>3, <1>4

\* Learning keeps the match, whatever becomes of it.
LEMMA StudyInv ==
  ASSUME IInv, Study \/ Studied, UNCHANGED act
  PROVE  SameJob /\ JobStage'
<1>1. job.at \in {"study", "studied"} /\ job.status = "match" /\ job.stateValid
      /\ act.gallery[job.winner] = "sound" /\ UNCHANGED token
  BY DEF Study, Studied, At, IInv, JobStage
<1>2. /\ KeepsInput(job')
      /\ job'.pos = job.pos /\ job'.stateValid = job.stateValid
      /\ job'.at \in {"studied", "done"} /\ job'.status = "match"
      /\ job'.winner = job.winner
  <2>1. CASE job' = [job EXCEPT !.at = "studied"]
    BY <1>1, <2>1 DEF IInv, Typed, KeepsInput
  <2>2. CASE \E result : job' = [job EXCEPT !.study = result, !.at = "done"]
    <3>1. PICK result : job' = [job EXCEPT !.study = result, !.at = "done"]
      BY <2>2
    <3> QED
      BY <1>1, <3>1, Zenon DEF IInv, Typed, KeepsInput
  <2> QED
    BY <2>1, <2>2 DEF Study, Studied
<1> QED
  BY <1>1, <1>2 DEF SameJob, JobStage, IInv

\* Every step of the worker keeps the invariant.
LEMMA WorkerKeeps ==
  ASSUME IInv, Worker, UNCHANGED <<act, gen, heard, frame, lifted, told>>
  PROVE  IInv'
<1>1. SameJob /\ JobStage'
  BY CutInv, SetupInv, LiveInv, ExtractInv, MatchInv, StudyInv DEF Worker
<1> QED
  BY <1>1, WorkerInv

-----------------------------------------------------------------------------
(* The reference *)

\* Two identities can be in use: a third is always left.
LEMMA NextIdFresh == NextId \in Ids
<1> DEFINE free == Ids \ {gen.id, job.gen}
<1>1. \E id \in free : \A other \in free : id <= other
  <2>1. CASE 1 \in free
    BY <2>1 DEF Ids
  <2>2. CASE 1 \notin free /\ 2 \in free
    BY <2>2 DEF Ids
  <2>3. CASE 1 \notin free /\ 2 \notin free
    BY <2>3 DEF Ids
  <2> QED
    BY <2>1, <2>2, <2>3
<1> QED
  BY <1>1 DEF NextId, Fresh

\* What changes only the generation, with no frame out.
LEMMA GenInv ==
  ASSUME IInv, frame # "out", DOMAIN gen' = DOMAIN gen, Reference', Persisted',
         UNCHANGED <<job, token, disk, act, heard, frame, lifted, told>>
  PROVE  IInv'
<1> USE DEF IInv
<1>1. Typed' /\ Phases' /\ Enrolling' /\ Authenticating' /\ MatchedPrint' /\ JobStage'
  BY DEF Typed, Phases, Enrolling, Authenticating, MatchedPrint, JobStage
<1>2. JobOut'
  BY DEF JobOut
<1>3. SetupInput'
  BY DEF SetupInput, JobOut
<1> QED
  BY <1>1, <1>2, <1>3

\* A new base keeps the generation that there is, and with it what is to be saved.
LEMMA BaseInv ==
  ASSUME IInv, Base
  PROVE  IInv'
<1>0. NextId # 0
  BY NextIdFresh DEF Ids
<1>1. /\ DOMAIN gen' = DOMAIN gen /\ gen'.id # 0 /\ gen'.hardware # 0
      /\ gen.id # 0 => gen'.state = gen.state
  <2>1. ASSUME NEW id, id # 0
        PROVE  LET g == PublishBase(gen, id)
               IN  DOMAIN g = DOMAIN gen /\ g.id # 0 /\ g.hardware # 0
    BY <2>1 DEF PublishBase, NoGen, IInv, Typed
  <2>2. ASSUME NEW id, id # 0, NEW marked
        PROVE  LET g == RefreshBase(gen, id, marked)
               IN  DOMAIN g = DOMAIN gen /\ g.id # 0 /\ g.hardware # 0
                   /\ (gen.id # 0 => g.state = gen.state)
    <3>1. CASE gen.id = 0
      BY <2>1, <2>2, <3>1 DEF RefreshBase, IInv, Typed
    <3>2. CASE gen.id # 0
      BY <2>2, <3>2 DEF RefreshBase, IInv, Typed
    <3> QED
      BY <3>1, <3>2
  <2>3. \/ gen' = PublishBase(gen, NextId) /\ gen.id = 0
        \/ \E marked \in BOOLEAN : gen' = RefreshBase(gen, NextId, marked)
    BY DEF Base
  <2> QED
    BY <1>0, <2>1, <2>2, <2>3
<1>2. Reference' /\ Persisted'
  BY <1>1 DEF Base, Reference, Persisted, IInv
<1> QED
  BY <1>1, <1>2, GenInv DEF Base

\* A refresh marker that a stop consumes is the only thing that goes.
LEMMA UndeliveredInv ==
  ASSUME IInv, Undelivered
  PROVE  IInv'
<1>1. /\ DOMAIN gen' = DOMAIN gen /\ gen'.id = gen.id /\ gen'.hardware = gen.hardware
      /\ gen'.state = gen.state
  BY DEF Undelivered, IInv, Typed
<1>2. Reference' /\ Persisted'
  BY <1>1 DEF Undelivered, Reference, Persisted, IInv
<1> QED
  BY <1>1, <1>2, GenInv DEF Undelivered

\* A generation that is dropped takes no reference and nothing to save with it.
LEMMA RetainInv ==
  ASSUME IInv, gen' = Retain(gen), act.phase # "scan"
  PROVE  DOMAIN gen' = DOMAIN gen /\ gen'.id = 0 /\ act.persist = {}
BY DEF Retain, NoGen, IInv, Typed, Phases

\* Between actions nothing depends on the generation.
LEMMA ReopenInv ==
  ASSUME IInv, Reopen
  PROVE  IInv'
<1> USE DEF IInv
<1>1. DOMAIN gen' = DOMAIN gen /\ gen'.id = 0 /\ act.persist = {}
  BY RetainInv DEF KeepsAttempt, Reopen
<1>2. /\ KeepsAttempt /\ act'.progress = act.progress
  BY DEF KeepsAttempt, Reopen, Typed
<1>3. Typed' /\ Phases'
  BY <1>1, <1>2 DEF KeepsAttempt, Reopen, Typed, Phases
<1>4. JobOut' /\ JobStage' /\ SetupInput'
  BY <1>1, <1>2 DEF KeepsAttempt, Reopen, JobOut, JobStage, SetupInput
<1>5. Reference' /\ Persisted' /\ Enrolling' /\ Authenticating' /\ MatchedPrint'
  BY <1>1, <1>2 DEF KeepsAttempt, Reopen, Reference, Persisted, Enrolling, Authenticating,
                    MatchedPrint
<1> QED
  BY <1>3, <1>4, <1>5

\* An action starts with nothing of the last one's.
LEMMA StartInv ==
  ASSUME IInv, Start
  PROVE  IInv'
<1> USE DEF IInv
<1>1. PICK kind \in Kinds, gallery \in Galleries :
        act' = [NoAct EXCEPT !.kind = kind, !.phase = "reinit",
                             !.gallery = IF kind = "enroll" THEN <<>> ELSE gallery,
                             !.epoch = NextEpoch]
  BY DEF Start
<1>2. /\ DOMAIN act' = DOMAIN NoAct /\ act'.kind = kind /\ act'.phase = "reinit"
      /\ act'.gallery = (IF kind = "enroll" THEN <<>> ELSE gallery)
      /\ act'.stage = 0 /\ act'.count = 0 /\ act'.persist = {}
      /\ act'.progress = "none" /\ act'.report = "none" /\ ~act'.update
  BY <1>1 DEF NoAct
<1>3. act'.gallery \in Seq({"unreadable", "broken", "sound"})
  BY <1>2, ActionAssumption
<1>4. Typed' /\ Phases'
  BY <1>2, <1>3, ActionAssumption DEF Start, Typed, Phases, NoAct, Silence
<1>5. JobOut' /\ JobStage' /\ SetupInput'
  BY <1>2 DEF Start, JobOut, JobStage, SetupInput, NoJob
<1>6. Reference' /\ Persisted' /\ Enrolling' /\ Authenticating' /\ MatchedPrint'
  BY <1>2 DEF Start, Reference, Persisted, Enrolling, Authenticating, MatchedPrint
<1> QED
  BY <1>4, <1>5, <1>6

\* A reconstruction comes before the first frame, so it takes nothing away.
LEMMA ReinitInv ==
  ASSUME IInv, Reinit
  PROVE  IInv'
<1> USE DEF IInv
<1>0. /\ act.stage = 0 /\ act.count = 0 /\ act.persist = {}
      /\ act.progress = "none" /\ act.report = "none" /\ ~act.update
      /\ act.kind # "none"
  BY DEF Reinit, Phases
<1>1. /\ DOMAIN act' = DOMAIN act /\ act'.kind = act.kind
      /\ act'.phase \in {"reinit", "failed", "scan"} /\ act'.gallery = act.gallery
      /\ act'.stage = 0 /\ act'.count = 0 /\ act'.persist = {}
      /\ act'.progress = "none" /\ act'.report = "none" /\ ~act'.update
  <2>1. PICK phase \in {"reinit", "failed", "scan"} :
          act' = [act EXCEPT !.phase = phase]
          \/ act' = [act EXCEPT !.epoch = NextEpoch, !.phase = phase]
    BY DEF Reinit
  <2>2. CASE act' = [act EXCEPT !.phase = phase]
    BY <1>0, <2>2 DEF Typed
  <2>3. CASE act' = [act EXCEPT !.epoch = NextEpoch, !.phase = phase]
    BY <1>0, <2>3 DEF Typed
  <2> QED
    BY <2>1, <2>2, <2>3
<1>2. /\ DOMAIN gen' = DOMAIN gen
      /\ gen'.id = 0 \/ (gen'.id = gen.id /\ gen'.hardware = gen.hardware)
  BY RetainInv DEF Reinit
<1>3. /\ frame = "none" /\ frame' = "none" /\ UNCHANGED <<job, heard>>
      /\ told' \in {"none", told} /\ (act'.phase = "scan" => told' = "none")
  <2>1. frame = "none" /\ UNCHANGED <<job, heard>>
    BY DEF Reinit, Phases
  <2>2. CASE \E phase \in {"reinit", "failed"} :
               act' = [act EXCEPT !.epoch = NextEpoch, !.phase = phase]
               /\ UNCHANGED <<frame, lifted, told>>
    BY <2>1, <2>2 DEF Typed
  <2>3. CASE IF told = "none" THEN UNCHANGED <<frame, lifted, told>> ELSE Cycle!Begin
    BY <2>1, <2>3 DEF Cycle!Begin
  <2> QED
    BY <2>1, <2>2, <2>3 DEF Reinit
<1>4. Typed' /\ Phases'
  BY <1>0, <1>1, <1>2, <1>3 DEF Typed, Phases
<1>5. JobOut' /\ JobStage' /\ SetupInput'
  BY <1>3 DEF JobOut, JobStage, SetupInput, NoJob
<1>6. Reference' /\ Persisted' /\ Authenticating' /\ MatchedPrint'
  BY <1>1, <1>2, <1>3 DEF Reference, Persisted, Authenticating, MatchedPrint
<1>7. Enrolling'
  BY <1>1, <1>3, ActionAssumption DEF Enrolling
<1> QED
  BY <1>4, <1>5, <1>6, <1>7

-----------------------------------------------------------------------------
(* Cancellation *)

\* Whoever is cancelled keeps everything but the right to its epoch.
LEMMA CancelInv ==
  ASSUME IInv, Cancel \/ GoodixCancel \/ CancelToken
  PROVE  IInv'
<1> USE DEF IInv
<1>1. /\ KeepsAttempt /\ act'.progress = act.progress
      /\ token' \/ (token' = token /\ act'.epoch = act.epoch)
      /\ UNCHANGED <<job, disk, gen, heard, frame, lifted, told>>
  BY DEF KeepsAttempt, Cancel, GoodixCancel, CancelToken, Typed
<1>2. Typed' /\ Phases'
  BY <1>1 DEF KeepsAttempt, Typed, Phases
<1>3. JobOut'
  <2>1. CASE token'
    BY <1>1, <2>1 DEF KeepsAttempt, JobOut, Owned, Cancelled, Stopped
  <2>2. CASE token' = token /\ act'.epoch = act.epoch
    <3>1. CASE act.epoch = job.epoch
      BY <1>1, <2>2, <3>1 DEF KeepsAttempt, JobOut, Owned
    <3>2. CASE token
      BY <1>1, <2>2, <3>2 DEF KeepsAttempt, JobOut, Owned, Cancelled, Stopped
    <3> QED
      BY <1>1, <3>1, <3>2 DEF KeepsAttempt, JobOut
  <2> QED
    BY <1>1, <2>1, <2>2
<1>4. JobStage' /\ SetupInput'
  BY <1>1 DEF KeepsAttempt, JobStage, SetupInput
<1>5. Reference' /\ Persisted' /\ Enrolling' /\ Authenticating' /\ MatchedPrint'
  BY <1>1 DEF KeepsAttempt, Reference, Persisted, Enrolling, Authenticating, MatchedPrint
<1> QED
  BY <1>2, <1>3, <1>4, <1>5

-----------------------------------------------------------------------------
(* The scan *)

\* The finger's lift is the scan's own affair.
LEMMA LiftInv ==
  ASSUME IInv, Lift
  PROVE  IInv'
<1> USE DEF IInv
<1>1. UNCHANGED <<job, token, disk, act, gen, heard, frame, told>>
  BY DEF Lift, Cycle!Lift
<1>2. Typed' /\ Phases' /\ Reference' /\ MatchedPrint' /\ JobStage' /\ SetupInput'
  BY <1>1 DEF Typed, Phases, Reference, MatchedPrint, JobStage, SetupInput
<1>3. JobOut'
  BY <1>1 DEF JobOut, Owned, Cancelled, Stopped
<1>4. Enrolling' /\ Authenticating' /\ Persisted'
  BY <1>1 DEF Enrolling, Authenticating, Persisted
<1> QED
  BY <1>2, <1>3, <1>4

\* What was told stays so when the owner is released.
LEMMA LeaveInv ==
  ASSUME IInv, Leave
  PROVE  IInv'
<1>1. /\ told # "none" /\ frame' = "none" /\ UNCHANGED told
      /\ UNCHANGED <<job, token, disk, act, gen, heard>>
  BY DEF Leave, Cycle!Leave
<1>2. frame # "out" /\ told \in {"none", "ok", "cancelled", "error"}
  BY <1>1 DEF IInv, Phases, Typed
<1>3. Enrolling' /\ Authenticating' /\ Persisted'
  BY <1>1 DEF Enrolling, Authenticating, Persisted, IInv
<1>4. Typed' /\ Phases' /\ Reference' /\ MatchedPrint' /\ JobStage'
  BY <1>1, <1>2 DEF Typed, Phases, Reference, MatchedPrint, JobStage, IInv
<1>5. JobOut' /\ SetupInput'
  BY <1>1, <1>2 DEF JobOut, SetupInput, IInv
<1> QED
  BY <1>3, <1>4, <1>5 DEF IInv

\* A completion leaves an idle action.
LEMMA CompleteInv ==
  ASSUME IInv, CompleteEnroll \/ CompleteAuth
  PROVE  IInv'
<1> USE DEF IInv
<1>1. act' = Idle /\ UNCHANGED <<job, token, gen, frame, lifted, told>> /\ Ended
  BY DEF CompleteEnroll, CompleteAuth
<1>2. /\ DOMAIN act' = DOMAIN act /\ act'.kind = "none" /\ act'.phase = "idle"
      /\ act'.gallery = <<>> /\ act'.stage = 0 /\ act'.count = 0 /\ act'.persist = {}
      /\ act'.progress = "none" /\ act'.report = "none" /\ ~act'.update
  BY <1>1 DEF Idle, NoAct, Typed
<1>3. frame # "out"
  BY <1>1 DEF Ended, Phases
<1>4. DOMAIN heard' = DOMAIN heard
  BY DEF CompleteEnroll, CompleteAuth
<1>5. Typed' /\ Phases'
  BY <1>1, <1>2, <1>3, <1>4 DEF Typed, Phases
<1>6. JobOut' /\ JobStage' /\ SetupInput'
  BY <1>1, <1>3 DEF JobOut, JobStage, SetupInput, NoJob
<1>7. Reference' /\ Persisted' /\ Enrolling' /\ Authenticating' /\ MatchedPrint'
  BY <1>1, <1>2 DEF Reference, Persisted, Enrolling, Authenticating, MatchedPrint
<1> QED
  BY <1>5, <1>6, <1>7

\* What the report of a progress leaves.
LEMMA ReportedKeeps ==
  ASSUME IInv, Reported
  PROVE  /\ KeepsAttempt /\ act'.progress = "none"
         /\ DOMAIN heard' = DOMAIN heard
         /\ act.progress # "none" => heard'.stage = act.stage
         /\ act.progress = "none" => heard' = heard
<1>1. CASE act.progress = "none"
  BY <1>1 DEF KeepsAttempt, Reported
<1>2. CASE act.progress # "none"
  BY <1>2 DEF KeepsAttempt, Reported, IInv, Typed
<1> QED
  BY <1>1, <1>2

\* A settled frame has its progress reported before the next one.
LEMMA SettleInv ==
  ASSUME IInv, Settle
  PROVE  IInv'
<1> USE DEF IInv
<1>1. /\ frame = "continue" /\ frame' = "none" /\ UNCHANGED <<job, token, disk, gen, told>>
  BY DEF KeepsAttempt, Settle, Cycle!Settle
<1>2. /\ KeepsAttempt /\ act'.progress = "none"
      /\ DOMAIN heard' = DOMAIN heard
      /\ act.progress # "none" => heard'.stage = act.stage
      /\ act.progress = "none" => heard' = heard
  BY ReportedKeeps DEF KeepsAttempt, Settle
<1>3. Typed' /\ Phases'
  BY <1>1, <1>2 DEF KeepsAttempt, Typed, Phases
<1>4. JobOut' /\ JobStage' /\ SetupInput'
  BY <1>1, <1>2 DEF KeepsAttempt, JobOut, JobStage, SetupInput, NoJob
<1>5. Reference' /\ Authenticating' /\ MatchedPrint'
  BY <1>1, <1>2 DEF KeepsAttempt, Reference, Authenticating, MatchedPrint
<1>6. Persisted'
  BY <1>1, <1>2 DEF KeepsAttempt, Persisted
<1>7. Enrolling'
  BY <1>1, <1>2 DEF KeepsAttempt, Enrolling
<1> QED
  BY <1>3, <1>4, <1>5, <1>6, <1>7

\* A scan that ends well has settled its last frame, or matched.
LEMMA EndScanInv ==
  ASSUME IInv, EndScan
  PROVE  IInv'
<1> USE DEF IInv
<1>1. /\ act.phase = "scan" /\ told = "none" /\ frame # "out"
      /\ frame' \in {frame, "none"} /\ told' \in {"ok", "cancelled", "error"}
      /\ told' = "ok" => frame \in {"success", "retry", "final"}
      /\ UNCHANGED <<job, token, disk, gen>>
  BY DEF EndScan, Scanning, Cycle!End, Cycle!Tell
<1>2. /\ KeepsAttempt
      /\ DOMAIN heard' = DOMAIN heard
      /\ told' = "ok" /\ act.progress # "none" /\ frame # "success" =>
           act'.progress = "none" /\ heard'.stage = act.stage
  <2>1. CASE lifted /\ frame \in {"retry", "continue", "final"} /\ Reported
    BY <2>1, ReportedKeeps
  <2>2. CASE (told' = "ok" => frame = "success") /\ UNCHANGED <<act, heard>>
    BY <2>2 DEF KeepsAttempt
  <2> QED
    BY <2>1, <2>2 DEF EndScan
<1>3. Typed' /\ Phases'
  BY <1>1, <1>2 DEF KeepsAttempt, Typed, Phases
<1>4. JobOut' /\ JobStage' /\ SetupInput'
  BY <1>1, <1>2 DEF KeepsAttempt, JobOut, JobStage, SetupInput, NoJob
<1>5. Reference' /\ MatchedPrint' /\ Persisted'
  BY <1>1, <1>2 DEF KeepsAttempt, Reference, MatchedPrint, Persisted
<1>6. Authenticating'
  BY <1>1, <1>2 DEF KeepsAttempt, Authenticating
<1>7. Enrolling'
  BY <1>1, <1>2 DEF KeepsAttempt, Enrolling
<1> QED
  BY <1>3, <1>4, <1>5, <1>6, <1>7

-----------------------------------------------------------------------------
(* Frames *)

\* What the worker gets of a gallery is a sequence, whose sound entries are
\* sound prints.
LEMMA WorkerGallerySound ==
  ASSUME act.gallery \in Seq({"unreadable", "broken", "sound"})
  PROVE  /\ DOMAIN WorkerGallery = 1 .. Len(WorkerGallery)
         /\ Len(WorkerGallery) \in Nat
         /\ \A p \in DOMAIN WorkerGallery :
              WorkerGallery[p].sound => act.gallery[WorkerGallery[p].index] = "sound"
<1> DEFINE n == Cardinality(Readable)
           e(p) == [index |-> Nth(p), sound |-> act.gallery[Nth(p)] = "sound"]
<1>1. n \in Nat
  <2>1. IsFiniteSet(1 .. Len(act.gallery))
    BY FS_Interval
  <2>2. Readable \subseteq 1 .. Len(act.gallery)
    BY DEF Readable
  <2> QED
    BY <2>1, <2>2, FS_Subset, FS_CardinalityType
<1>2. WorkerGallery = [p \in 1 .. n |-> e(p)]
  BY DEF WorkerGallery
<1> HIDE DEF n
<1>3. /\ DOMAIN WorkerGallery = 1 .. n
      /\ WorkerGallery \in Seq({e(p) : p \in 1 .. n})
  BY <1>1, <1>2
<1>4. Len(WorkerGallery) \in Nat /\ DOMAIN WorkerGallery = 1 .. Len(WorkerGallery)
  BY <1>3
<1>5. ASSUME NEW p \in 1 .. n, WorkerGallery[p].sound
      PROVE  act.gallery[WorkerGallery[p].index] = "sound"
  BY <1>2, <1>5
<1> QED
  BY <1>3, <1>4, <1>5

\* A setup that is still required starts on the newest reference.
LEMMA PreparedKeeps ==
  ASSUME IInv, gen.id # 0, NEW merged, NEW saved
  PROVE  LET g == Prepared(gen, merged, saved)
         IN  /\ DOMAIN g = DOMAIN gen /\ g.id # 0 /\ g.hardware = gen.hardware
             /\ g.hardware # 0
             /\ SetupRequired(g.flags) => g.id = gen.hardware /\ g.packet = saved
<1>0. gen.hardware # 0
  BY DEF IInv, Reference
<1>1. CASE ~SetupRequired(gen.flags) /\ ~gen.refresh
  BY <1>0, <1>1 DEF Prepared
<1>2. CASE SetupRequired(gen.flags) \/ gen.refresh
  <2>1. PICK refresh, state :
          Prepared(gen, merged, saved) =
            [gen EXCEPT !.id = IF gen.hardware # 0 THEN gen.hardware ELSE @,
                        !.flags.refresh = refresh, !.refresh = FALSE,
                        !.packet = saved, !.state = state]
    BY <1>2 DEF Prepared
  <2> QED
    BY <1>0, <2>1 DEF IInv, Typed
<1> QED
  BY <1>1, <1>2

\* The job that goes out is made of what is current.
LEMMA DeliverInv ==
  ASSUME IInv, Deliver
  PROVE  IInv'
<1> USE DEF IInv
<1>1. /\ act.phase = "scan" /\ told = "none" /\ frame = "none" /\ gen.id # 0
      /\ job = NoJob /\ UNCHANGED <<token, disk, act, heard, told>>
  BY DEF Deliver, Scanning, Cycle!Deliver, JobOut
<1>2. PICK allowed \in BOOLEAN, merged \in BOOLEAN, saved \in Packets :
        LET g == [Prepared(gen, merged, saved) EXCEPT !.refresh = FALSE]
        IN  IF Refused \/ job.at # "none"
            THEN frame' = "fatal" /\ gen' = g /\ UNCHANGED job
            ELSE /\ frame' = "out" /\ job' = TaskInput(g, allowed)
                 /\ gen' = [g EXCEPT !.packet = {}]
  BY DEF Deliver
<1> DEFINE g == [Prepared(gen, merged, saved) EXCEPT !.refresh = FALSE]
<1>3. /\ DOMAIN g = DOMAIN gen /\ g.id # 0 /\ g.hardware = gen.hardware
      /\ g.hardware # 0
      /\ SetupRequired(g.flags) => g.id = gen.hardware /\ g.packet = saved
  <2> DEFINE p == Prepared(gen, merged, saved)
  <2>1. /\ DOMAIN p = DOMAIN gen /\ p.id # 0 /\ p.hardware = gen.hardware
        /\ p.hardware # 0
        /\ SetupRequired(p.flags) => p.id = gen.hardware /\ p.packet = saved
    BY <1>1, PreparedKeeps
  <2> HIDE DEF p
  <2>2. g = [p EXCEPT !.refresh = FALSE]
    BY DEF p
  <2> HIDE DEF g
  <2>3. g.flags = p.flags /\ g.id = p.id /\ g.hardware = p.hardware
        /\ g.packet = p.packet /\ DOMAIN g = DOMAIN p
    BY <2>1, <2>2 DEF Typed
  <2> QED
    BY <2>1, <2>3
<1>4. CASE frame' = "fatal" /\ gen' = g /\ UNCHANGED job
  <2> HIDE DEF g
  <2>1. Typed' /\ Phases'
    BY <1>1, <1>3, <1>4 DEF Typed, Phases, Cycle!Verdict
  <2>2. JobOut' /\ JobStage' /\ SetupInput'
    BY <1>1, <1>4 DEF JobOut, JobStage, SetupInput, NoJob
  <2>3. Reference' /\ Persisted' /\ Enrolling' /\ Authenticating' /\ MatchedPrint'
    BY <1>1, <1>3, <1>4
    DEF Reference, Persisted, Enrolling, Authenticating, MatchedPrint
  <2> QED
    BY <2>1, <2>2, <2>3
<1>5. CASE /\ frame' = "out" /\ job' = TaskInput(g, allowed)
           /\ gen' = [g EXCEPT !.packet = {}]
  <2> HIDE DEF g
  <2>1. /\ DOMAIN gen' = DOMAIN gen /\ gen'.id = g.id /\ gen'.hardware = gen.hardware
    BY <1>3, <1>5 DEF Typed
  <2>2. /\ DOMAIN job' = DOMAIN job /\ job'.kind = act.kind /\ job'.epoch = act.epoch
        /\ job'.gen = g.id /\ job'.stage = act.stage /\ job'.flags = g.flags
        /\ job'.packet = g.packet /\ job'.gallery = WorkerGallery
        /\ job'.at = "setup" /\ job'.status = "none" /\ job'.pos = 1
        /\ job'.probe = FALSE /\ job'.study = "none"
    BY <1>1, <1>5 DEF TaskInput, NoJob
  <2>3. Typed' /\ Phases'
    BY <1>1, <1>5, <2>1, <2>2 DEF Typed, Phases
  <2>4. JobOut'
    <3>1. Owned' /\ act'.epoch = job'.epoch
      BY <1>1, <2>2 DEF Owned
    <3>2. /\ DOMAIN job'.gallery = 1 .. Len(job'.gallery) /\ Len(job'.gallery) \in Nat
          /\ \A p \in DOMAIN job'.gallery :
               job'.gallery[p].sound => act.gallery[job'.gallery[p].index] = "sound"
      BY <2>2, WorkerGallerySound DEF Typed
    <3> QED
      BY <1>1, <1>3, <1>5, <2>1, <2>2, <3>1, <3>2 DEF JobOut
  <2>5. JobStage'
    BY <2>2 DEF JobStage
  <2>6. SetupInput'
    BY <1>1, <1>3, <2>1, <2>2 DEF SetupInput, Packets
  <2>7. Reference' /\ Persisted' /\ Enrolling' /\ Authenticating' /\ MatchedPrint'
    BY <1>1, <1>3, <1>5, <2>1
    DEF Reference, Persisted, Enrolling, Authenticating, MatchedPrint
  <2> QED
    BY <2>3, <2>4, <2>5, <2>6, <2>7
<1> QED
  BY <1>2, <1>4, <1>5

\* What is live after a job: its state, unless it was cancelled, and its setup.
LEMMA AdoptedKeeps ==
  ASSUME IInv
  PROVE  /\ DOMAIN Adopted = DOMAIN gen
         /\ Adopted.id = gen.id /\ Adopted.hardware = gen.hardware
         /\ Owned /\ gen.id = job.gen /\ job.stateValid /\ ~Cancelled =>
              Adopted.state = job.state
         /\ Owned /\ gen.id = job.gen /\ job.setupValid => Adopted.flags = job.flags
         /\ Cancelled => Adopted.state = gen.state
<1>1. CASE ~Owned \/ gen.id # job.gen
  BY <1>1 DEF Adopted
<1>2. CASE ~(~Owned \/ gen.id # job.gen) /\ job.stateValid /\ ~Cancelled
  <2>1. Adopted = [gen EXCEPT !.flags = job.flags, !.state = job.state]
    BY <1>2 DEF Adopted
  <2> QED
    BY <1>2, <2>1 DEF IInv, Typed
<1>3. CASE ~(~Owned \/ gen.id # job.gen) /\ ~(job.stateValid /\ ~Cancelled)
  <2>1. Adopted = IF job.setupValid THEN [gen EXCEPT !.flags = job.flags] ELSE gen
    BY <1>3 DEF Adopted
  <2> QED
    BY <1>3, <2>1 DEF IInv, Typed
<1> QED
  BY <1>1, <1>2, <1>3

\* An attempt counts at most one sample more, and saves what it leaves live.
LEMMA EnrolledKeeps ==
  ASSUME IInv, act' \in Enrolled, act.persist = {}, act.count = act.stage,
         act.stage < Samples, job.probe => job.stateValid
  PROVE  /\ DOMAIN act' = DOMAIN act /\ act'.kind = act.kind /\ act'.phase = act.phase
         /\ act'.gallery = act.gallery /\ act'.report = act.report
         /\ act'.match = act.match /\ act'.progress # "none"
         /\ act'.count = act'.stage /\ act'.stage \in {act.stage, act.stage + 1}
         /\ act'.stage = Samples => act'.persist # {}
         /\ act'.persist # {} => act'.persist = {job.state} /\ job.stateValid
                               /\ act'.stage = Samples
<1> DEFINE n == act.count + 1
           kept(a) ==
             /\ DOMAIN a = DOMAIN act /\ a.kind = act.kind /\ a.phase = act.phase
             /\ a.gallery = act.gallery /\ a.report = act.report
             /\ a.match = act.match
           poor(a) ==
             /\ kept(a) /\ a.progress = "retry" /\ a.count = act.count
             /\ a.stage = act.stage /\ a.persist = act.persist
<1>1. act.stage \in Nat /\ act.count \in Nat
  BY DEF IInv, Typed
<1>2. ASSUME NEW v, act' = [act EXCEPT !.badContinue = v, !.progress = "retry"]
      PROVE  poor(act')
  BY <1>2 DEF IInv, Typed
<1>3. ASSUME NEW v, NEW w,
             act' = [act EXCEPT !.badRecord = w, !.badContinue = v, !.progress = "retry"]
      PROVE  poor(act')
  BY <1>3 DEF IInv, Typed
<1> DEFINE a == [act EXCEPT !.badContinue = Streak(@)]
<1>4. ASSUME act' = [a EXCEPT !.count = @ + 1, !.stage = a.count + 1, !.progress = "stage",
                              !.persist = IF a.count + 1 = Samples THEN {job.state} ELSE {}]
      PROVE  /\ kept(act') /\ act'.progress = "stage" /\ act'.count = n /\ act'.stage = n
             /\ act'.persist = IF n = Samples THEN {job.state} ELSE {}
  <2>1. a.count + 1 = n
    BY DEF IInv, Typed
  <2>2. act' = [[act EXCEPT !.badContinue = Streak(@)]
                  EXCEPT !.count = n, !.stage = n, !.progress = "stage",
                         !.persist = IF n = Samples THEN {job.state} ELSE {}]
    BY <1>4, <2>1
  <2> HIDE DEF n
  <2> QED
    BY <2>2 DEF IInv, Typed
<1>5. \/ poor(act')
      \/ /\ kept(act') /\ act'.progress = "stage" /\ act'.count = n /\ act'.stage = n
         /\ act'.persist = (IF n = Samples THEN {job.state} ELSE {}) /\ job.probe
  <2>1. CASE job.probe
    <3>1. CASE act' = [a EXCEPT !.progress = "retry"]
      BY <1>2, <3>1
    <3>2. CASE act' = [act EXCEPT !.badRecord = @ + 1, !.badContinue = @ + 1,
                                  !.progress = "retry"]
      BY <1>3, <3>2
    <3> DEFINE b == [a EXCEPT !.count = @ + 1, !.stage = a.count + 1, !.progress = "stage",
                              !.persist = IF a.count + 1 = Samples THEN {job.state} ELSE {}]
    <3>3. CASE act' = b
      BY <1>4, <2>1, <3>3
    <3>4. act' \in {b, [a EXCEPT !.progress = "retry"]}
          \/ act' = [act EXCEPT !.badRecord = @ + 1, !.badContinue = @ + 1,
                                !.progress = "retry"]
      BY <2>1 DEF Enrolled, Attempts
    <3> QED
      BY <3>1, <3>2, <3>3, <3>4
  <2>2. CASE ~job.probe
    BY <1>2, <2>2 DEF Enrolled
  <2> QED
    BY <2>1, <2>2
<1>6. CASE poor(act')
  BY <1>1, <1>6
<1>7. CASE /\ kept(act') /\ act'.progress = "stage" /\ act'.count = n /\ act'.stage = n
           /\ act'.persist = (IF n = Samples THEN {job.state} ELSE {}) /\ job.probe
  BY <1>1, <1>7
<1> QED
  BY <1>5, <1>6, <1>7

\* A result is queued with what it needs: a match its sound print, an update
\* the state that becomes live.
LEMMA AuthenticatedKeeps ==
  ASSUME IInv, Authenticated = act', act.persist = {}, job.status # "cancelled"
  PROVE  /\ DOMAIN act' = DOMAIN act /\ act'.kind = act.kind /\ act'.phase = act.phase
         /\ act'.gallery = act.gallery /\ act'.stage = act.stage
         /\ act'.count = act.count /\ act'.progress = act.progress
         /\ job.status \in {"match", "nomatch", "retry"} => act'.report # "none"
         /\ act'.report = "match" => act.gallery[act'.match] = "sound"
         /\ job.status \in {"match", "nomatch", "retry"} /\ act'.update =>
              act'.report = "match" /\ act'.persist # {}
         /\ job.status \notin {"match", "nomatch", "retry"} => act' = act
         /\ act'.persist # {} =>
              act'.persist = {job.state} /\ job.stateValid /\ job.status = "match"
<1> DEFINE a == [act EXCEPT !.report = "none", !.match = 0, !.update = FALSE, !.persist = {}]
<1>0. act.report = "match" => act.gallery[act.match] = "sound"
  BY DEF IInv, MatchedPrint
<1>1. CASE job.status = "match"
  <2>1. act.gallery[job.winner] = "sound" /\ job.stateValid
    BY <1>1 DEF IInv, JobStage
  <2> DEFINE update == job.study = "candidate"
             saved == IF update /\ job.stateValid THEN {job.state} ELSE {}
  <2>2. act' = [a EXCEPT !.report = "match", !.match = job.winner, !.update = update,
                         !.persist = saved]
    BY <1>1 DEF Authenticated
  <2>3. saved = IF update THEN {job.state} ELSE {}
    BY <2>1
  <2> HIDE DEF update, saved
  <2>4. /\ DOMAIN act' = DOMAIN act /\ act'.kind = act.kind /\ act'.phase = act.phase
        /\ act'.gallery = act.gallery /\ act'.stage = act.stage
        /\ act'.count = act.count /\ act'.progress = act.progress
        /\ act'.report = "match" /\ act'.match = job.winner
        /\ act'.update = update /\ act'.persist = saved
    BY <2>2, ZenonT(30) DEF IInv, Typed
  <2> QED
    BY <1>1, <2>1, <2>3, <2>4
<1>2. CASE job.status \in {"nomatch", "retry"}
  <2>1. PICK report \in {"miss", "retry"} : act' = [a EXCEPT !.report = report]
    BY <1>2 DEF Authenticated
  <2> QED
    BY <1>2, <2>1 DEF IInv, Typed
<1>3. CASE job.status \notin {"match", "nomatch", "retry"}
  BY <1>0, <1>3 DEF Authenticated
<1> QED
  BY <1>1, <1>2, <1>3

\* The verdict on a frame, and what it leaves live, go together.
LEMMA TaskDoneInv ==
  ASSUME IInv, TaskDone
  PROVE  IInv'
<1> USE DEF IInv
<1>1. frame = "out" /\ act.phase = "scan" /\ told = "none"
  BY DEF TaskDone, JobOut, Phases
<1>2. Owned /\ gen.id = job.gen /\ gen.id # 0
  BY <1>1 DEF JobOut
<1>3. act.persist = {} /\ act.kind # "none"
  BY <1>1 DEF Persisted, Phases
<1>4. act.kind = "enroll" =>
        act.progress = "none" /\ act.count = act.stage /\ act.stage < Samples
  BY <1>1 DEF Enrolling
<1>5. act.kind # "enroll" /\ act.update => act.report = "match" /\ act.persist # {}
  BY <1>1 DEF Authenticating
<1>6. /\ job' = NoJob /\ gen' = Adopted /\ UNCHANGED <<token, disk, heard>>
      /\ frame' \in Cycle!Verdict /\ told' \in {"none", "ok", "cancelled", "error"}
      /\ told' = "ok" => frame' = "success"
      /\ frame' # "out"
  BY <1>1 DEF TaskDone, Cycle!Answer, Cycle!End, Cycle!Tell, Cycle!Verdict
<1>7. /\ DOMAIN gen' = DOMAIN gen /\ gen'.id = gen.id /\ gen'.hardware = gen.hardware
      /\ job.stateValid /\ ~Cancelled => gen'.state = job.state
  BY <1>2, <1>6, AdoptedKeeps
<1>8. JobOut' /\ JobStage' /\ SetupInput' /\ Reference'
  BY <1>6, <1>7 DEF JobOut, JobStage, SetupInput, Reference, NoJob
<1>9. SUFFICES Typed' /\ Phases' /\ Persisted' /\ Enrolling' /\ Authenticating'
               /\ MatchedPrint'
  BY <1>8
<1>10. CASE act' = act /\ frame' = "cancelled"
  <2>1. Typed' /\ Phases'
    BY <1>1, <1>6, <1>7, <1>10 DEF Typed, Phases, NoJob
  <2>2. Persisted' /\ Authenticating' /\ MatchedPrint'
    BY <1>1, <1>3, <1>5, <1>6, <1>10 DEF Persisted, Authenticating, MatchedPrint
  <2>3. Enrolling'
    BY <1>1, <1>3, <1>4, <1>6, <1>10 DEF Enrolling
  <2> QED
    BY <2>1, <2>2, <2>3
<1>11. CASE /\ ~Cancelled /\ job.kind = "enroll"
            /\ act' \in Enrolled /\ frame' = EnrollVerdict(act')
  <2>0. act.kind = "enroll" /\ job.status # "cancelled"
    BY <1>2, <1>11 DEF Owned, Cancelled
  <2>1. job.probe => job.stateValid
    BY <2>0 DEF JobStage
  <2>2. /\ DOMAIN act' = DOMAIN act /\ act'.kind = act.kind /\ act'.phase = act.phase
        /\ act'.gallery = act.gallery /\ act'.report = act.report
        /\ act'.match = act.match /\ act'.progress # "none"
        /\ act'.count = act'.stage /\ act'.stage \in {act.stage, act.stage + 1}
        /\ act'.stage = Samples => act'.persist # {}
        /\ act'.persist # {} => act'.persist = {job.state} /\ job.stateValid
                              /\ act'.stage = Samples
    BY <1>3, <1>4, <1>11, <2>0, <2>1, EnrolledKeeps
  <2>3. act'.stage \in Nat /\ act'.stage <= Samples
    BY <1>4, <2>0, <2>2, ActionAssumption DEF Typed
  <2>4. /\ act'.stage = Samples => frame' = "final"
        /\ act'.stage # Samples => frame' = "continue" /\ act'.stage < Samples
    BY <1>11, <2>3, ActionAssumption DEF EnrollVerdict
  <2>5. Typed' /\ Phases'
    BY <1>1, <1>3, <1>6, <1>7, <2>2, <2>3, <2>4 DEF Typed, Phases, NoJob
  <2>6. Persisted'
    BY <1>2, <1>6, <1>7, <1>11, <2>2, <2>4 DEF Persisted
  <2>7. Enrolling'
    BY <1>6, <2>2, <2>4 DEF Enrolling
  <2>8. Authenticating' /\ MatchedPrint'
    BY <2>0, <2>2 DEF Authenticating, MatchedPrint
  <2> QED
    BY <2>5, <2>6, <2>7, <2>8
<1>12. CASE /\ ~Cancelled /\ job.kind # "enroll"
            /\ act' = Authenticated /\ frame' = AuthVerdict
  <2>0. act.kind # "enroll" /\ job.status # "cancelled"
    BY <1>2, <1>12 DEF Owned, Cancelled
  <2>1. /\ DOMAIN act' = DOMAIN act /\ act'.kind = act.kind /\ act'.phase = act.phase
        /\ act'.gallery = act.gallery /\ act'.stage = act.stage
        /\ act'.count = act.count /\ act'.progress = act.progress
        /\ job.status \in {"match", "nomatch", "retry"} => act'.report # "none"
        /\ act'.report = "match" => act.gallery[act'.match] = "sound"
        /\ job.status \in {"match", "nomatch", "retry"} /\ act'.update =>
             act'.report = "match" /\ act'.persist # {}
        /\ job.status \notin {"match", "nomatch", "retry"} => act' = act
        /\ act'.persist # {} =>
             act'.persist = {job.state} /\ job.stateValid /\ job.status = "match"
    BY <1>3, <1>12, <2>0, AuthenticatedKeeps
  <2>2. /\ job.status = "match" => frame' = "success"
        /\ job.status \in {"nomatch", "retry"} => frame' = "retry"
        /\ job.status \notin {"match", "nomatch", "retry"} => frame' = "fatal"
    BY <1>12 DEF AuthVerdict
  <2>3. Typed' /\ Phases'
    BY <1>1, <1>3, <1>6, <1>7, <2>1, <2>2 DEF Typed, Phases, NoJob
  <2>4. Persisted'
    BY <1>2, <1>6, <1>7, <1>12, <2>1, <2>2 DEF Persisted
  <2>5. Enrolling' /\ MatchedPrint'
    BY <2>0, <2>1 DEF Enrolling, MatchedPrint
  <2>6. Authenticating'
    BY <1>5, <1>6, <2>0, <2>1, <2>2 DEF Authenticating
  <2> QED
    BY <2>3, <2>4, <2>5, <2>6
<1> QED
  BY <1>10, <1>11, <1>12 DEF TaskDone

-----------------------------------------------------------------------------
(* The invariant, and what follows from it *)

\* The driver starts with nothing out.
LEMMA InitInv == Init => IInv
<1> SUFFICES ASSUME Init
             PROVE  IInv
  OBVIOUS
<1>1. Typed /\ Phases
  BY DEF Init, Cycle!Init, Typed, Phases, NoJob, NoAct, NoGen, Silence
<1>2. JobOut /\ JobStage /\ SetupInput
  BY DEF Init, Cycle!Init, JobOut, JobStage, SetupInput, NoJob
<1>3. Reference /\ Persisted /\ Enrolling /\ Authenticating /\ MatchedPrint
  BY DEF Init, Reference, Persisted, Enrolling, Authenticating, MatchedPrint, NoAct, NoGen
<1> QED
  BY <1>1, <1>2, <1>3 DEF IInv

\* Every step keeps the invariant.
LEMMA NextInv == IInv /\ [Next]_vars => IInv'
<1> SUFFICES ASSUME IInv, [Next]_vars
             PROVE  IInv'
  OBVIOUS
<1>1. CASE UNCHANGED vars
  <2>1. UNCHANGED <<job, token, disk, act, gen, heard, frame, lifted, told>>
    BY <1>1 DEF vars
  <2>2. Typed' /\ Phases' /\ JobStage' /\ SetupInput' /\ Reference'
    BY <2>1 DEF IInv, Typed, Phases, JobStage, SetupInput, Reference
  <2>3. JobOut'
    BY <2>1 DEF IInv, JobOut, Owned, Cancelled, Stopped
  <2>4. Persisted' /\ Enrolling' /\ Authenticating' /\ MatchedPrint'
    BY <2>1 DEF IInv, Persisted, Enrolling, Authenticating, MatchedPrint
  <2> QED
    BY <2>2, <2>3, <2>4 DEF IInv
<1>2. CASE Worker /\ UNCHANGED <<act, gen, heard, frame, lifted, told>>
  BY <1>2, WorkerKeeps
<1>3. CASE Base \/ Reopen \/ Start \/ Reinit
  BY <1>3, BaseInv, ReopenInv, StartInv, ReinitInv
<1>4. CASE Deliver \/ Undelivered \/ TaskDone
  BY <1>4, DeliverInv, UndeliveredInv, TaskDoneInv
<1>5. CASE Lift \/ Settle \/ EndScan \/ Leave
  BY <1>5, LiftInv, SettleInv, EndScanInv, LeaveInv
<1>6. CASE CompleteEnroll \/ CompleteAuth \/ Cancel \/ GoodixCancel \/ CancelToken
  BY <1>6, CompleteInv, CancelInv
<1> QED
  BY <1>1, <1>2, <1>3, <1>4, <1>5, <1>6 DEF Next

\* The invariant holds throughout.
LEMMA InvariantHolds == Spec => []IInv
BY InitInv, NextInv, PTL DEF Spec

\* Every job of the worker starts from what is current and is judged by it, so
\* that task_done never throws a published setup away and a setup-save never puts
\* an earlier snapshot over a later one.
THEOREM JobsGrounded == Spec => []JobGrounded
<1>1. IInv => JobGrounded
  BY DEF IInv, JobOut, SetupInput, JobGrounded, JobCurrent
<1> QED
  BY <1>1, InvariantHolds, PTL

\* What the application is told, and what is saved with it, is complete and of the
\* right print: the errors for incomplete action state in enroll.c and auth.c are
\* unreachable, whatever the gallery and the number of samples.
THEOREM OutcomesComplete == Spec => []OutcomeComplete
<1>1. IInv => OutcomeComplete
  <2> SUFFICES ASSUME IInv
               PROVE  OutcomeComplete
    OBVIOUS
  <2>1. EnrollmentComplete
    BY DEF IInv, Enrolling, Persisted, EnrollmentComplete, Succeeded
  <2>2. AuthenticationComplete
    BY DEF IInv, Authenticating, Persisted, AuthenticationComplete, Succeeded
  <2>3. ProgressPaired
    BY DEF IInv, Enrolling, ProgressPaired, Scanning
  <2> QED
    BY <2>1, <2>2, <2>3 DEF IInv, OutcomeComplete
<1> QED
  BY <1>1, InvariantHolds, PTL

-----------------------------------------------------------------------------
(* What an interruption keeps *)

\* What is told of a result, and what is saved, changes with the worker's setup
\* and with a completion that looks at the cancellation again.
LEMMA NothingLearnt ==
  ASSUME IInv, Next, Stopped, act.kind \in {"verify", "identify"}
  PROVE  /\ heard'.report = heard.report /\ heard'.print = heard.print
         /\ disk' # disk => job.at = "setup"
<1>1. CASE Worker /\ UNCHANGED <<act, gen, heard, frame, lifted, told>>
  <2>1. disk' # disk => job.at = "setup"
    BY <1>1 DEF Worker, Cut, Setup, Live, Extract, Match, Study, Studied, At
  <2>2. UNCHANGED heard
    BY <1>1
  <2> QED
    BY ZenonT(40), <2>1, <2>2, Zenon
<1>2. CASE Base \/ Reopen \/ Reinit \/ Deliver \/ Undelivered \/ TaskDone
           \/ Lift \/ Leave \/ Cancel \/ GoodixCancel \/ CancelToken
  <2>1. UNCHANGED <<heard, disk>>
    BY <1>2 DEF Base, Reopen, Reinit, Deliver, Undelivered, TaskDone, Lift, Leave,
                Cancel, GoodixCancel, CancelToken
  <2> QED
    BY <2>1
<1>3. CASE Settle \/ EndScan
  <2>1. UNCHANGED disk
    BY <1>3 DEF Settle, EndScan
  <2>2. heard' = heard \/ heard' = [heard EXCEPT !.stage = act.stage]
    BY <1>3 DEF Settle, EndScan, Reported
  <2> QED
    BY <2>1, <2>2 DEF IInv, Typed
<1>4. CASE CompleteAuth
  <2>1. UNCHANGED disk /\ heard' = [heard EXCEPT !.result = "error"]
    BY <1>4 DEF CompleteAuth
  <2> QED
    BY <2>1 DEF IInv, Typed
<1>5. CASE Start \/ CompleteEnroll
  BY <1>5 DEF Start, CompleteEnroll, IInv, Phases
<1> QED
  BY <1>1, <1>2, <1>3, <1>4, <1>5 DEF Next

\* A job that is done goes only by its result being taken over.
LEMMA SetupKept ==
  ASSUME IInv, Next, job.at = "done", job'.at = "none"
  PROVE  /\ job.setupValid => gen'.flags = job.flags
         /\ Stopped => gen'.state = gen.state
<1>1. TaskDone
  <2>1. ~Worker
    BY CutInv, SetupInv, LiveInv, ExtractInv
    DEF Worker, SameJob, Cut, Setup, Live, Extract, Match, Study, Studied, At
  <2>2. ~Deliver
    BY DEF Deliver, Scanning, Cycle!Deliver, IInv, JobOut
  <2>3. job' # job
    OBVIOUS
  <2> QED
    BY <2>1, <2>2, <2>3
    DEF Next, Base, Reopen, Start, Reinit, Undelivered, Lift, Settle, EndScan, Leave,
        CompleteEnroll, CompleteAuth, Cancel, GoodixCancel, CancelToken
<1>2. frame = "out"
  BY DEF IInv, JobOut
<1>3. Owned /\ gen.id = job.gen /\ gen' = Adopted
  BY <1>1, <1>2 DEF TaskDone, IInv, JobOut
<1> QED
  BY <1>3, AdoptedKeeps DEF Cancelled

\* Each frame adds a sample or none, and none is taken back.
LEMMA CountKept ==
  ASSUME IInv, Next, act.kind = "enroll", act'.kind = "enroll"
  PROVE  act'.count \in {act.count, act.count + 1} /\ act'.stage = act'.count
<1>0. act.count = act.stage
  BY DEF IInv, Phases, Enrolling
<1>1. CASE UNCHANGED act
  BY <1>0, <1>1
<1>2. CASE \/ Worker /\ UNCHANGED <<act, gen, heard, frame, lifted, told>>
           \/ Base \/ Deliver \/ Undelivered \/ Lift \/ Leave \/ CancelToken
  BY <1>1, <1>2 DEF Base, Deliver, Undelivered, Lift, Leave, CancelToken
<1>3. CASE Reopen \/ Start
  BY <1>3 DEF Reopen, Start, IInv, Phases
<1>4. CASE Reinit \/ Cancel \/ GoodixCancel
  <2>1. PICK phase, epoch, cancelled :
          act' = [act EXCEPT !.phase = phase]
          \/ act' = [act EXCEPT !.epoch = epoch, !.phase = phase]
          \/ act' = [act EXCEPT !.epoch = epoch]
          \/ act' = [act EXCEPT !.cancelled = cancelled]
    BY <1>4 DEF Reinit, Cancel, GoodixCancel
  <2>2. act'.count = act.count /\ act'.stage = act.stage
    BY <2>1 DEF IInv, Typed
  <2> QED
    BY <1>0, <2>2
<1>5. CASE Settle \/ EndScan
  <2>1. Reported \/ UNCHANGED act
    BY <1>5 DEF Settle, EndScan
  <2> QED
    BY <1>0, <1>1, <2>1, ReportedKeeps DEF KeepsAttempt
<1>6. CASE CompleteEnroll \/ CompleteAuth
  <2>1. act'.kind = "none"
    BY <1>6 DEF CompleteEnroll, CompleteAuth, Idle, NoAct
  <2> QED
    BY <2>1
<1>7. CASE TaskDone
  <2>1. frame = "out" /\ act.phase = "scan" /\ told = "none"
    BY <1>7 DEF TaskDone, IInv, JobOut, Phases
  <2>2. act.persist = {} /\ act.stage < Samples /\ job.kind = "enroll" /\ act.stage \in Nat
    BY <2>1 DEF IInv, JobOut, Owned, Persisted, Enrolling, Typed
  <2>3. CASE Owned /\ ~Cancelled /\ act' \in Enrolled
    <3>1. job.probe => job.stateValid
      BY <2>3 DEF Cancelled, IInv, JobStage
    <3> QED
      BY <1>0, <2>2, <2>3, <3>1, EnrolledKeeps
  <2> QED
    BY <1>1, <1>7, <2>2, <2>3 DEF TaskDone
<1> QED
  BY <1>2, <1>3, <1>4, <1>5, <1>6, <1>7 DEF Next

\* An interruption keeps the setup and the accepted samples, and throws away
\* what was learnt after it.
THEOREM InterruptionsClean == Spec => InterruptionClean
<1>1. IInv /\ [Next]_vars =>
        [Stopped /\ act.kind \in {"verify", "identify"} =>
           /\ heard'.report = heard.report /\ heard'.print = heard.print
           /\ disk' # disk => job.at = "setup"]_vars
  BY NothingLearnt
<1>2. IInv /\ [Next]_vars =>
        [job.at = "done" /\ job'.at = "none" =>
           /\ job.setupValid => gen'.flags = job.flags
           /\ Stopped => gen'.state = gen.state]_vars
  BY SetupKept
<1>3. IInv /\ [Next]_vars =>
        [act.kind = "enroll" /\ act'.kind = "enroll" =>
           act'.count \in {act.count, act.count + 1} /\ act'.stage = act'.count]_vars
  BY CountKept
<1>4. Spec => CancelledLearnsNothing
  BY <1>1, InvariantHolds, PTL DEF Spec, CancelledLearnsNothing
<1>5. Spec => SetupSurvives
  BY <1>2, InvariantHolds, PTL DEF Spec, SetupSurvives
<1>6. Spec => SamplesKept
  BY <1>3, InvariantHolds, PTL DEF Spec, SamplesKept
<1> QED
  BY <1>4, <1>5, <1>6 DEF InterruptionClean

-----------------------------------------------------------------------------
(* The types, which the steps keep under the invariant *)

Copies == {{}} \cup {{state} : state \in Snapshot}

Status == {"none", "retry", "match", "nomatch", "invalid", "cancelled"}

Jobs ==
  [kind : {"none", "enroll", "verify", "identify"}, epoch : Epochs \cup {0},
   gen : Ids \cup {0}, stage : 0 .. Samples, flags : Flags, state : Snapshot,
   packet : Copies, allowed : BOOLEAN, gallery : Seq([index : Nat, sound : BOOLEAN]),
   at : {"none", "setup", "live", "extract", "match", "study", "studied", "done"},
   status : Status, setupValid : BOOLEAN, stateValid : BOOLEAN,
   metrics : {"none", "zero", "low", "good"}, sampled : BOOLEAN, probe : BOOLEAN,
   pos : Nat, valid : BOOLEAN, winner : Nat, study : {"none", "candidate", "error"}]

Acts ==
  [kind : {"none", "enroll", "verify", "identify"},
   phase : {"idle", "reinit", "failed", "scan"}, cancelled : BOOLEAN,
   gallery : Seq({"unreadable", "broken", "sound"}), epoch : Epochs,
   stage : 0 .. Samples, count : 0 .. Samples, badRecord : 0 .. 5, badContinue : 0 .. 3,
   progress : {"none", "stage", "retry"}, report : {"none", "match", "miss", "retry"},
   match : Nat, update : BOOLEAN, persist : Copies]

Gens ==
  [id : Ids \cup {0}, flags : Flags, state : Snapshot, packet : Copies,
   process : BOOLEAN, hardware : Ids \cup {0}, refresh : BOOLEAN, retained : BOOLEAN]

Tellings ==
  [stage : 0 .. Samples, report : {"none", "match", "miss", "retry"}, match : Nat,
   print : Nat, result : {"none", "ok", "error"}]

\* The entry a job is at, the one that has won, and the prints they stand for.
Entries(j) ==
  /\ j.pos \in 1 .. Len(j.gallery) + 1
  /\ j.winner = 0 \/ \E i \in DOMAIN j.gallery : j.winner = j.gallery[i].index

Indexed(j, a) == \A i \in DOMAIN j.gallery : j.gallery[i].index <= Len(a.gallery)

Within(a) == a.match <= Len(a.gallery)

TypeInv ==
  /\ job \in Jobs /\ act \in Acts /\ gen \in Gens /\ heard \in Tellings /\ disk \in Copies
  /\ Entries(job) /\ Indexed(job, act) /\ Within(act)

\* At most one snapshot, as a set of sets.
LEMMA CopiesHold == \A saved : Holds(saved) <=> saved \in Copies
  BY DEF Holds, Copies

\* The empty records are of their types.
LEMMA NoneTyped ==
  /\ 0 \in Snapshot /\ {} \in Copies /\ NoFlags \in Flags /\ NoJob \in Jobs
  /\ NoAct \in Acts /\ NoGen \in Gens /\ Silence \in Tellings
<1>1. 0 \in Snapshot
  BY RuntimeAssumption DEF Snapshot
<1>2. {} \in Copies
  BY DEF Copies
<1>3. NoFlags \in Flags
  BY DEF NoFlags, Flags
<1>4. NoJob \in Jobs
  BY <1>1, <1>2, <1>3, ActionAssumption DEF NoJob, Jobs, Status
<1>5. NoAct \in Acts
  BY <1>2, ActionAssumption DEF NoAct, Acts, Epochs
<1>6. NoGen \in Gens
  BY <1>1, <1>2, <1>3 DEF NoGen, Gens
<1>7. Silence \in Tellings
  BY ActionAssumption DEF Silence, Tellings
<1> QED
  BY <1>1, <1>2, <1>3, <1>4, <1>5, <1>6, <1>7

\* A changed state is a snapshot again.
LEMMA ChangedIs == \A state \in Snapshot : Changed(state) \in Snapshot
  BY RuntimeAssumption DEF Snapshot, Changed

\* There always is an epoch that the job does not hold.
LEMMA NextEpochIs == NextEpoch \in Epochs
<1> DEFINE free == Epochs \ {job.epoch}
<1>1. \E id \in free : \A other \in free : id <= other
  <2>1. CASE 1 \in free
    BY <2>1 DEF Epochs
  <2>2. CASE 1 \notin free
    BY <2>2 DEF Epochs
  <2> QED
    BY <2>1, <2>2
<1> QED
  BY <1>1 DEF NextEpoch, Fresh

\* What the types come to is the type invariant of the runs.
LEMMA TypesAre == TypeInv => TypeOK
<1> SUFFICES ASSUME TypeInv
             PROVE  TypeOK
  OBVIOUS
<1>1. JobState(job)
  <2>1. DOMAIN job = DOMAIN NoJob
    BY NoneTyped DEF TypeInv, Jobs
  <2>2. /\ job.kind \in {"none", "enroll", "verify", "identify"}
        /\ job.flags \in Flags /\ job.state \in Snapshot /\ job.packet \in Copies
        /\ job.at \in {"none", "setup", "live", "extract", "match", "study", "studied", "done"}
        /\ job.status \in Status
        /\ job.metrics \in {"none", "zero", "low", "good"}
        /\ job.study \in {"none", "candidate", "error"}
    BY DEF TypeInv, Jobs
  <2>3. {job.allowed, job.setupValid, job.stateValid, job.sampled, job.probe, job.valid}
          \subseteq BOOLEAN
    BY DEF TypeInv, Jobs
  <2> QED
    BY <2>1, <2>2, <2>3, CopiesHold DEF JobState, TypeInv, Entries, Status
<1>2. ActState
  <2>1. DOMAIN act = DOMAIN NoAct
    BY NoneTyped DEF TypeInv, Acts
  <2>2. /\ act.kind \in {"none", "enroll", "verify", "identify"}
        /\ act.phase \in {"idle", "reinit", "failed", "scan"}
        /\ act.epoch \in Epochs /\ act.stage \in 0 .. Samples /\ act.count \in 0 .. Samples
        /\ act.badRecord \in 0 .. 5 /\ act.badContinue \in 0 .. 3
        /\ act.progress \in {"none", "stage", "retry"}
        /\ act.report \in {"none", "match", "miss", "retry"} /\ act.persist \in Copies
    BY DEF TypeInv, Acts
  <2>3. {act.cancelled, act.update} \subseteq BOOLEAN
    BY DEF TypeInv, Acts
  <2>4. act.match \in 0 .. Len(act.gallery)
    BY DEF TypeInv, Acts, Within
  <2> QED
    BY <2>1, <2>2, <2>3, <2>4, CopiesHold DEF ActState
<1>3. GenState
  <2>1. DOMAIN gen = DOMAIN NoGen
    BY NoneTyped DEF TypeInv, Gens
  <2> QED
    BY <2>1, CopiesHold DEF GenState, TypeInv, Gens
<1>4. HeardState
  <2>1. DOMAIN heard = DOMAIN Silence
    BY NoneTyped DEF TypeInv, Tellings
  <2> QED
    BY <2>1 DEF HeardState, TypeInv, Tellings
<1> QED
  BY <1>1, <1>2, <1>3, <1>4, CopiesHold DEF TypeOK, TypeInv

\* What the worker does to a job leaves its gallery and packet alone.
Worked(j, k) == k \in Jobs /\ k.gallery = j.gallery /\ k.packet = j.packet

\* It is at the same entry, and none has won but that one.
Stays(j, k) == Worked(j, k) /\ k.pos = j.pos /\ k.winner = j.winner

\* The ends of a job: with a status, as a retry, cut off.
LEMMA DoneIs ==
  ASSUME NEW j \in Jobs, NEW status \in Status
  PROVE  Stays(j, Done(j, status))
  BY DEF Stays, Worked, Done, Jobs

LEMMA RetryIs ==
  ASSUME NEW j \in Jobs
  PROVE  Stays(j, Retry(j))
<1> DEFINE yes == TRUE
           d == Done(j, "retry")
           k == [d EXCEPT !.stateValid = yes]
<1>1. Retry(j) = k /\ yes \in BOOLEAN
  BY DEF Retry
<1> HIDE DEF yes
<1>2. Stays(j, d)
  BY DoneIs DEF Status
<1> HIDE DEF d
<1>3. Stays(d, k)
  BY <1>1, <1>2 DEF Stays, Worked, Jobs
<1> QED
  BY <1>1, <1>2, <1>3 DEF Stays, Worked

\* A finished setup goes on at the same entry.
LEMMA LiveIs ==
  ASSUME NEW j \in Jobs
  PROVE  Stays(j, LiveAdmission(j))
<1>1. Stays(j, [j EXCEPT !.at = "live"])
  BY DEF Stays, Worked, Jobs
<1> QED
  BY <1>1, RetryIs DEF LiveAdmission

LEMMA UnstudiedTyped ==
  ASSUME NEW j \in Jobs
  PROVE  [j EXCEPT !.study = "none"] \in Jobs
<1> DEFINE k == [j EXCEPT !.study = "none"]
<1>1. PICK result \in {"none", "candidate", "error"} : k = [j EXCEPT !.study = result]
  OBVIOUS
<1> HIDE DEF k
<1>2. k \in Jobs
  BY <1>1 DEF Jobs
<1> QED
  BY <1>2 DEF k

\* A job that is cut off drops its study and keeps the rest.
LEMMA CutTyped ==
  ASSUME job \in Jobs, Cut
  PROVE  Stays(job, job') /\ disk' = disk
<1> DEFINE no == FALSE
           d == Done(job, "cancelled")
           k == [d EXCEPT !.stateValid = no, !.study = "none"]
<1>1. job' = k /\ no \in BOOLEAN /\ disk' = disk
  BY DEF Cut
<1> HIDE DEF no
<1>2. Stays(job, d)
  BY DoneIs DEF Status
<1> HIDE DEF d
<1>3. Stays(d, k)
  <2>1. k \in Jobs
    <3>1. d \in Jobs /\ no \in BOOLEAN
      BY <1>1, <1>2 DEF Stays, Worked
    <3> DEFINE c == [d EXCEPT !.stateValid = no]
    <3>2. c \in Jobs
      BY <3>1 DEF Jobs
    <3> HIDE DEF c
    <3>3. [c EXCEPT !.study = "none"] \in Jobs
      BY <3>2, UnstudiedTyped
    <3>4. k = [c EXCEPT !.study = "none"]
      BY DEF c
    <3> QED
      BY <3>3, <3>4
  <2>2. /\ k.gallery = d.gallery /\ k.packet = d.packet /\ k.pos = d.pos
        /\ k.winner = d.winner
    BY <1>1, <1>2 DEF Stays, Worked, Jobs
  <2> QED
    BY <2>1, <2>2 DEF Stays, Worked
<1> QED
  BY <1>1, <1>2, <1>3 DEF Stays, Worked

\* The admissions of a setup leave flags.
LEMMA FlagsAre ==
  ASSUME NEW flags \in Flags, NEW admitted \in BOOLEAN
  PROVE  InitializeSetup(flags, admitted) \in Flags
<1> DEFINE no == FALSE
           ready == flags.initialized
           f == [flags EXCEPT !.refresh = no, !.notReady = ready]
<1>1. no \in BOOLEAN /\ ready \in BOOLEAN
  BY DEF Flags
<1> HIDE DEF no, ready
<1>2. f \in Flags
  BY <1>1 DEF Flags
<1>3. [initialized |-> TRUE, refresh |-> FALSE, notReady |-> FALSE] \in Flags
  BY DEF Flags
<1> QED
  BY <1>2, <1>3 DEF InitializeSetup, no, ready

\* A setup changes flags and the state file, never the gallery.
LEMMA SetupTyped ==
  ASSUME job \in Jobs, disk \in Copies, Setup
  PROVE  Stays(job, job') /\ disk' \in Copies
<1>1. CASE ~SetupRequired(job.flags)
  <2>1. job' \in {Retry(job), LiveAdmission(job)} /\ disk' = disk
    BY <1>1 DEF Setup
  <2> QED
    BY <2>1, RetryIs, LiveIs
<1>2. CASE SetupRequired(job.flags)
  <2>1. PICK admitted \in BOOLEAN :
          LET saved == admitted /\ job.packet # {}
              flags == InitializeSetup(job.flags, admitted)
              j == [job EXCEPT !.setupValid = TRUE,
                               !.flags = IF saved THEN flags
                                 ELSE [flags EXCEPT !.initialized = job.flags.initialized]]
          IN  /\ job' = IF saved THEN LiveAdmission(j) ELSE Retry(j)
              /\ disk' \in IF saved THEN {disk, job.packet} ELSE {disk}
    BY <1>2 DEF Setup
  <2> DEFINE yes == TRUE
             saved == admitted /\ job.packet # {}
             flags == InitializeSetup(job.flags, admitted)
             own == job.flags.initialized
             late == [flags EXCEPT !.initialized = own]
             live == IF saved THEN flags ELSE late
             j == [job EXCEPT !.setupValid = yes, !.flags = live]
  <2>2. /\ job' = IF saved THEN LiveAdmission(j) ELSE Retry(j)
        /\ disk' \in IF saved THEN {disk, job.packet} ELSE {disk}
    BY <2>1
  <2>3. flags \in Flags /\ own \in BOOLEAN /\ yes \in BOOLEAN
    BY FlagsAre DEF Jobs, Flags
  <2> HIDE DEF flags, own, yes, saved
  <2>4. late \in Flags
    BY <2>3 DEF Flags
  <2>5. live \in Flags
    BY <2>3, <2>4
  <2> HIDE DEF live
  <2>6. Stays(job, j)
    BY <2>3, <2>5 DEF Stays, Worked, Jobs
  <2> HIDE DEF j
  <2>7. Stays(j, job')
    BY <2>2, <2>6, LiveIs, RetryIs DEF Stays, Worked
  <2>8. job.packet \in Copies
    BY DEF Jobs
  <2> QED
    BY SMTT(30), <2>2, <2>6, <2>7, <2>8 DEF Stays, Worked
<1> QED
  BY <1>1, <1>2

\* Neither does what comes before the first match.
LEMMA ProcessedTyped ==
  ASSUME job \in Jobs, Live \/ Extract
  PROVE  Stays(job, job') /\ disk' = disk
<1>0. job.state \in Snapshot /\ Changed(job.state) \in Snapshot
  BY ChangedIs DEF Jobs
<1>1. CASE job' = Done(job, "retry")
  BY <1>1, DoneIs DEF Live, Extract, Status
<1>2. CASE Live /\ job' # Done(job, "retry")
  <2>1. PICK state \in {job.state, Changed(job.state)}, metrics \in {"zero", "low", "good"} :
          LET j == [job EXCEPT !.state = state, !.metrics = metrics, !.stateValid = TRUE]
          IN  job' \in {Done(j, "retry"), [j EXCEPT !.at = "extract"]}
    BY <1>2, Zenon DEF Live
  <2> DEFINE yes == TRUE
             j == [job EXCEPT !.state = state, !.metrics = metrics, !.stateValid = yes]
  <2>2. job' \in {Done(j, "retry"), [j EXCEPT !.at = "extract"]} /\ yes \in BOOLEAN
    BY <2>1
  <2> HIDE DEF yes
  <2>3. Stays(job, j)
    <3>1. state \in Snapshot
      BY <1>0
    <3>2. j \in Jobs
      BY <2>2, <3>1 DEF Jobs
    <3>3. /\ j.gallery = job.gallery /\ j.packet = job.packet /\ j.pos = job.pos
          /\ j.winner = job.winner
      BY DEF Jobs
    <3> QED
      BY <3>2, <3>3 DEF Stays, Worked
  <2> HIDE DEF j
  <2>4. Stays(j, [j EXCEPT !.at = "extract"])
    BY <2>3 DEF Stays, Worked, Jobs
  <2>5. Stays(j, Done(j, "retry"))
    BY <2>3, DoneIs DEF Stays, Worked, Status
  <2> QED
    BY <1>2, <2>2, <2>3, <2>4, <2>5 DEF Live, Stays, Worked
<1>3. CASE Extract /\ job' # Done(job, "retry")
  <2>1. PICK state \in {job.state, Changed(job.state)} :
          LET j == [job EXCEPT !.sampled = job.kind = "enroll", !.state = state]
          IN  job' \in {Done(j, "retry"), [j EXCEPT !.probe = TRUE, !.at = "match"]}
    BY <1>3, Zenon DEF Extract
  <2> DEFINE yes == TRUE
             sampled == job.kind = "enroll"
             j == [job EXCEPT !.sampled = sampled, !.state = state]
  <2>2. /\ job' \in {Done(j, "retry"), [j EXCEPT !.probe = yes, !.at = "match"]}
        /\ yes \in BOOLEAN /\ sampled \in BOOLEAN
    BY <2>1
  <2> HIDE DEF yes, sampled
  <2>3. Stays(job, j)
    BY <1>0, <2>2 DEF Stays, Worked, Jobs
  <2> HIDE DEF j
  <2>4. Stays(j, [j EXCEPT !.probe = yes, !.at = "match"])
    <3> DEFINE k == [j EXCEPT !.probe = yes, !.at = "match"]
    <3>1. j \in Jobs /\ yes \in BOOLEAN
      BY <2>2, <2>3 DEF Stays, Worked
    <3>2. k \in Jobs
      BY ZenonT(40), <3>1 DEF Jobs
    <3>3. /\ k.gallery = j.gallery /\ k.packet = j.packet /\ k.pos = j.pos
          /\ k.winner = j.winner
      BY <3>1 DEF Jobs
    <3> QED
      BY <3>2, <3>3 DEF Stays, Worked
  <2>5. Stays(j, Done(j, "retry"))
    BY <2>3, DoneIs DEF Stays, Worked, Status
  <2> QED
    BY <1>3, <2>2, <2>3, <2>4, <2>5 DEF Extract, Stays, Worked
<1> QED
  BY <1>1, <1>2, <1>3

\* An entry is looked at while there is one.
LEMMA MatchTyped ==
  ASSUME job \in Jobs, Entries(job), Match
  PROVE  Worked(job, job') /\ Entries(job') /\ disk' = disk
<1> DEFINE yes == TRUE
           n == Len(job.gallery)
           entry == job.gallery[job.pos]
           next == [job EXCEPT !.pos = job.pos + 1]
           found == [next EXCEPT !.valid = yes]
           won == [job EXCEPT !.valid = yes, !.status = "match", !.winner = entry.index,
                              !.at = "study"]
<1>1. n \in Nat /\ DOMAIN job.gallery = 1 .. n /\ job.pos \in 1 .. n + 1 /\ yes \in BOOLEAN
  BY DEF Jobs, Entries
<1>2. \/ job.pos > n /\ \E status \in Status : job' = Done(job, status)
      \/ job.pos <= n /\ job' \in {next, found, won}
  BY <1>1 DEF Match, Status
<1> HIDE DEF yes
<1>3. CASE \E status \in Status : job' = Done(job, status)
  <2>1. Stays(job, job')
    BY <1>3, DoneIs
  <2> QED
    BY <2>1 DEF Match, Stays, Worked, Entries
<1>4. CASE job.pos <= n /\ job' \in {next, found}
  <2>1. Worked(job, next) /\ next.pos = job.pos + 1 /\ next.winner = job.winner
    <3>1. job.pos + 1 \in Nat
      BY <1>1
    <3>2. next \in Jobs
      BY <3>1 DEF Jobs
    <3> QED
      BY <3>2 DEF Worked, Jobs
  <2> HIDE DEF next
  <2>2. Stays(next, found)
    BY <1>1, <2>1 DEF Stays, Worked, Jobs
  <2> HIDE DEF found
  <2>3. Worked(job, job') /\ job'.pos = job.pos + 1 /\ job'.winner = job.winner
    BY <1>4, <2>1, <2>2 DEF Stays, Worked
  <2>4. job'.pos \in 1 .. n + 1
    BY <1>1, <1>4, <2>3
  <2> QED
    BY <2>3, <2>4 DEF Match, Worked, Entries
<1>5. CASE job.pos <= n /\ job' = won
  <2>1. job.pos \in DOMAIN job.gallery
    BY <1>1, <1>5
  <2>2. entry \in [index : Nat, sound : BOOLEAN]
    <3>1. job.gallery \in Seq([index : Nat, sound : BOOLEAN])
      BY DEF Jobs
    <3> QED
      BY <2>1, <3>1, ElementOfSeq, <1>1
  <2>3. entry.index \in Nat
    BY <2>2
  <2>4. Worked(job, won) /\ won.pos = job.pos /\ won.winner = entry.index
    BY ZenonT(40), <1>1, <2>3 DEF Worked, Jobs, Status
  <2> HIDE DEF won
  <2> QED
    BY <1>5, <2>1, <2>4 DEF Match, Worked, Entries
<1> QED
  BY <1>2, <1>3, <1>4, <1>5

\* A study leaves the winner alone.
LEMMA StudyTyped ==
  ASSUME job \in Jobs, Study \/ Studied
  PROVE  Stays(job, job') /\ disk' = disk
<1>1. disk' = disk
  BY DEF Study, Studied
<1>2. CASE job' = [job EXCEPT !.at = "studied"]
  BY <1>1, <1>2 DEF Stays, Worked, Jobs
<1>3. CASE \E result \in {"none", "candidate", "error"} :
             job' = [job EXCEPT !.study = result, !.at = "done"]
  <2>1. PICK result \in {"none", "candidate", "error"} :
          job' = [job EXCEPT !.study = result, !.at = "done"]
    BY <1>3
  <2>2. job' \in Jobs
    BY <2>1 DEF Jobs
  <2>3. /\ job'.gallery = job.gallery /\ job'.packet = job.packet /\ job'.pos = job.pos
        /\ job'.winner = job.winner
    BY <2>1 DEF Jobs
  <2> QED
    BY <1>1, <2>2, <2>3 DEF Stays, Worked
<1> QED
  BY <1>2, <1>3 DEF Study, Studied

\* Every step of the worker is typed.
LEMMA WorkerTyped ==
  ASSUME TypeInv, Worker, UNCHANGED <<act, gen, heard>>
  PROVE  TypeInv'
<1>1. Worked(job, job') /\ Entries(job') /\ disk' \in Copies
  <2>1. CASE Match
    BY <2>1, MatchTyped DEF TypeInv
  <2>2. CASE Stays(job, job') /\ disk' \in Copies
    BY <2>2 DEF TypeInv, Stays, Worked, Entries
  <2> QED
    BY <2>1, <2>2, CutTyped, SetupTyped, ProcessedTyped, StudyTyped DEF Worker, TypeInv
<1> QED
  BY <1>1 DEF TypeInv, Worked, Indexed, Entries, Within

-----------------------------------------------------------------------------
(* The types of the main loop's records *)

\* What makes a generation of a generation.
LEMMA RetainTyped ==
  ASSUME gen \in Gens
  PROVE  Retain(gen) \in Gens
<1> DEFINE r == gen.retained \/ gen.id # 0
<1>1. r \in BOOLEAN
  BY DEF Gens
<1> HIDE DEF r
<1>2. [NoGen EXCEPT !.retained = r] \in Gens
  BY <1>1, NoneTyped DEF Gens
<1> QED
  BY <1>2 DEF Retain, r

LEMMA PublishBaseTyped ==
  ASSUME gen \in Gens, NEW id \in Ids
  PROVE  PublishBase(gen, id) \in Gens
<1> DEFINE flags == IF gen.retained THEN [NoFlags EXCEPT !.refresh = TRUE] ELSE NoFlags
           process == gen.retained
           hardware == id
           g == [NoGen EXCEPT !.id = id, !.hardware = hardware]
<1>1. PublishBase(gen, id) = [g EXCEPT !.process = process, !.flags = flags]
  BY DEF PublishBase
<1>2. [NoFlags EXCEPT !.refresh = TRUE] \in Flags
  BY DEF NoFlags, Flags
<1>3. flags \in Flags /\ process \in BOOLEAN
  BY <1>2, NoneTyped DEF Gens
<1> HIDE DEF flags, process
<1>4. g \in Gens
  BY NoneTyped DEF Gens
<1> HIDE DEF g
<1>5. [g EXCEPT !.process = process, !.flags = flags] \in Gens
  BY <1>3, <1>4 DEF Gens
<1> QED
  BY <1>1, <1>5

LEMMA RefreshBaseTyped ==
  ASSUME gen \in Gens, NEW id \in Ids, NEW marked \in BOOLEAN
  PROVE  RefreshBase(gen, id, marked) \in Gens
<1> DEFINE g == IF gen.id = 0 THEN PublishBase(gen, id) ELSE gen
           refresh == gen.refresh \/ marked
<1>1. g \in Gens /\ refresh \in BOOLEAN
  BY PublishBaseTyped DEF Gens
<1> HIDE DEF g, refresh
<1>2. [g EXCEPT !.hardware = id, !.refresh = refresh] \in Gens
  BY <1>1 DEF Gens
<1> QED
  BY <1>2 DEF RefreshBase, g, refresh

\* Steps that change the generation only.
LEMMA GenTyped ==
  ASSUME TypeInv, gen' \in Gens, UNCHANGED <<job, disk, act, heard>>
  PROVE  TypeInv'
  BY DEF TypeInv, Entries, Indexed, Within

LEMMA BaseTyped == TypeInv /\ Base => TypeInv'
<1> SUFFICES ASSUME TypeInv, Base
             PROVE  TypeInv'
  OBVIOUS
<1>1. gen' \in Gens
  BY NextIdFresh, PublishBaseTyped, RefreshBaseTyped DEF Base, TypeInv
<1> QED
  BY <1>1, GenTyped DEF Base

LEMMA UndeliveredTyped == TypeInv /\ Undelivered => TypeInv'
<1> SUFFICES ASSUME TypeInv, Undelivered
             PROVE  TypeInv'
  OBVIOUS
<1>1. gen' \in Gens
  BY DEF Undelivered, TypeInv, Gens
<1> QED
  BY <1>1, GenTyped DEF Undelivered

\* What else than its attempt an action may change.
LEMMA ActTyped ==
  ASSUME TypeInv, act' \in Acts, act'.gallery = act.gallery, act'.match = act.match,
         gen' \in Gens, heard' \in Tellings, UNCHANGED <<job, disk>>
  PROVE  TypeInv'
  BY DEF TypeInv, Entries, Indexed, Within

\* Steps that take the epoch, the phase or the token.
LEMMA EpochTyped ==
  ASSUME act \in Acts, NEW phase \in {"idle", "reinit", "failed", "scan"}
  PROVE  LET a == [act EXCEPT !.epoch = NextEpoch, !.phase = phase]
         IN  a \in Acts /\ a.gallery = act.gallery /\ a.match = act.match
<1> DEFINE e == NextEpoch
<1>1. e \in Epochs
  BY NextEpochIs
<1> HIDE DEF e
<1> DEFINE a == [act EXCEPT !.epoch = e, !.phase = phase]
<1>2. a \in Acts /\ a.gallery = act.gallery /\ a.match = act.match
  BY <1>1 DEF Acts
<1> QED
  BY <1>2 DEF e

LEMMA ReopenTyped == TypeInv /\ Reopen => TypeInv'
<1> SUFFICES ASSUME TypeInv, Reopen
             PROVE  TypeInv'
  OBVIOUS
<1> DEFINE e == NextEpoch
<1>1. act' = [act EXCEPT !.epoch = e] /\ gen' \in Gens /\ act \in Acts
  BY RetainTyped DEF Reopen, TypeInv
<1>2. e \in Epochs
  BY NextEpochIs
<1> HIDE DEF e
<1>3. act' \in Acts /\ act'.gallery = act.gallery /\ act'.match = act.match
  BY <1>1, <1>2 DEF Acts
<1> QED
  BY <1>1, <1>3, ActTyped DEF Reopen, TypeInv

\* A new action has its gallery and no job.
LEMMA StartTyped == IInv /\ TypeInv /\ Start => TypeInv'
<1> SUFFICES ASSUME IInv, TypeInv, Start
             PROVE  TypeInv'
  OBVIOUS
<1>1. PICK kind \in Kinds, gallery \in Galleries :
        act' = [NoAct EXCEPT !.kind = kind, !.phase = "reinit",
                             !.gallery = IF kind = "enroll" THEN <<>> ELSE gallery,
                             !.epoch = NextEpoch]
  BY DEF Start
<1> DEFINE shown == IF kind = "enroll" THEN <<>> ELSE gallery
           e == NextEpoch
           a == [NoAct EXCEPT !.kind = kind, !.phase = "reinit"]
           b == [a EXCEPT !.gallery = shown, !.epoch = e]
<1>2. /\ act' = b /\ e \in Epochs
      /\ shown \in Seq({"unreadable", "broken", "sound"})
      /\ kind \in {"enroll", "verify", "identify"}
  BY <1>1, NextEpochIs, ActionAssumption
<1> HIDE DEF shown, e
<1>3. a \in Acts /\ a.match = 0
  <2>1. a \in Acts
    BY <1>2, NoneTyped DEF Acts
  <2> QED
    BY <2>1 DEF NoAct
<1> HIDE DEF a
<1>4. b \in Acts /\ b.match = 0 /\ b.gallery = shown
  BY <1>2, <1>3 DEF Acts
<1>5. job = NoJob
  BY DEF Start, IInv, JobOut
<1>6. job.gallery = <<>>
  BY <1>5 DEF NoJob
<1>7. Within(act') /\ Indexed(job, act')
  BY <1>2, <1>4, <1>6 DEF Within, Indexed
<1> QED
  BY <1>2, <1>4, <1>7, NoneTyped DEF Start, TypeInv, Entries

\* Before the scan.
LEMMA ReinitTyped == TypeInv /\ Reinit => TypeInv'
<1> SUFFICES ASSUME TypeInv, Reinit
             PROVE  TypeInv'
  OBVIOUS
<1>1. CASE act' = [act EXCEPT !.phase = "scan"] /\ UNCHANGED gen
  <2>1. act' \in Acts /\ act'.gallery = act.gallery /\ act'.match = act.match
    BY <1>1 DEF TypeInv, Acts
  <2> QED
    BY <1>1, <2>1, ActTyped DEF Reinit, TypeInv
<1>2. CASE gen' = Retain(gen) /\ \E phase \in {"reinit", "failed"} :
             act' = [act EXCEPT !.epoch = NextEpoch, !.phase = phase]
  <2>1. act' \in Acts /\ act'.gallery = act.gallery /\ act'.match = act.match
    BY <1>2, EpochTyped DEF TypeInv
  <2> QED
    BY <1>2, <2>1, RetainTyped, ActTyped DEF Reinit, TypeInv
<1> QED
  BY <1>1, <1>2 DEF Reinit

\* Cancellations.
LEMMA CancelTyped == TypeInv /\ (Cancel \/ GoodixCancel \/ CancelToken) => TypeInv'
<1> SUFFICES ASSUME TypeInv, Cancel \/ GoodixCancel \/ CancelToken
             PROVE  TypeInv'
  OBVIOUS
<1>1. act' \in Acts /\ act'.gallery = act.gallery /\ act'.match = act.match
  <2>1. CASE Cancel
    <3> DEFINE yes == TRUE
    <3>1. act' = [act EXCEPT !.cancelled = yes] /\ yes \in BOOLEAN /\ act \in Acts
      BY <2>1 DEF Cancel, TypeInv
    <3> HIDE DEF yes
    <3> QED
      BY <3>1 DEF Acts
  <2>2. CASE GoodixCancel
    <3> DEFINE e == NextEpoch
    <3>1. act' = [act EXCEPT !.epoch = e] /\ e \in Epochs /\ act \in Acts
      BY <2>2, NextEpochIs DEF GoodixCancel, TypeInv
    <3> HIDE DEF e
    <3> QED
      BY <3>1 DEF Acts
  <2>3. CASE CancelToken
    BY <2>3 DEF CancelToken, TypeInv
  <2> QED
    BY <2>1, <2>2, <2>3
<1> QED
  BY <1>1, ActTyped DEF Cancel, GoodixCancel, CancelToken, TypeInv

\* Reports, and the callbacks that make them.
LEMMA ReportedTyped ==
  ASSUME TypeInv, Reported, UNCHANGED <<job, disk, gen>>
  PROVE  TypeInv'
<1>1. CASE UNCHANGED <<act, heard>>
  BY <1>1, ActTyped DEF TypeInv
<1>2. CASE /\ act' = [act EXCEPT !.progress = "none"]
           /\ heard' = [heard EXCEPT !.stage = act.stage]
  <2>1. act' \in Acts /\ act'.gallery = act.gallery /\ act'.match = act.match
    BY <1>2 DEF TypeInv, Acts
  <2>2. act.stage \in 0 .. Samples
    BY DEF TypeInv, Acts
  <2>3. heard' \in Tellings
    BY <1>2, <2>2 DEF TypeInv, Tellings
  <2> QED
    BY <2>1, <2>3, ActTyped DEF TypeInv
<1> QED
  BY <1>1, <1>2 DEF Reported

LEMMA ScanTyped == TypeInv /\ (Lift \/ Settle \/ EndScan \/ Leave) => TypeInv'
<1> SUFFICES ASSUME TypeInv, Lift \/ Settle \/ EndScan \/ Leave
             PROVE  TypeInv'
  OBVIOUS
<1>1. CASE Reported /\ UNCHANGED <<job, disk, gen>>
  BY <1>1, ReportedTyped
<1>2. CASE UNCHANGED <<job, disk, act, gen, heard>>
  BY <1>2, ActTyped DEF TypeInv
<1> QED
  BY <1>1, <1>2, Zenon DEF Lift, Settle, EndScan, Leave

\* Completions.
LEMMA IdleTyped ==
  ASSUME act \in Acts
  PROVE  Idle \in Acts /\ Within(Idle)
<1> DEFINE e == act.epoch
           a == [NoAct EXCEPT !.epoch = e]
<1>1. e \in Epochs /\ NoAct.match = 0
  BY DEF Acts, NoAct
<1> HIDE DEF e
<1>2. a \in Acts /\ a.match = NoAct.match
  BY <1>1, NoneTyped DEF Acts
<1> HIDE DEF a
<1>3. Len(a.gallery) \in Nat
  BY <1>2 DEF Acts
<1> QED
  BY <1>1, <1>2, <1>3 DEF Idle, a, e, Within

LEMMA CompleteTyped == IInv /\ TypeInv /\ (CompleteEnroll \/ CompleteAuth) => TypeInv'
<1> SUFFICES ASSUME IInv, TypeInv, CompleteEnroll \/ CompleteAuth
             PROVE  TypeInv'
  OBVIOUS
<1>1. /\ act \in Acts /\ heard \in Tellings /\ act.persist \in Copies /\ act.match \in Nat
      /\ act.report \in {"none", "match", "miss", "retry"}
  BY DEF TypeInv, Acts
<1>2. act' = Idle /\ UNCHANGED <<job, gen>>
  BY DEF CompleteEnroll, CompleteAuth
<1>3. frame # "out"
  BY DEF CompleteEnroll, CompleteAuth, Ended, IInv, Phases
<1>4. job = NoJob
  BY <1>3 DEF IInv, JobOut
<1>5. Indexed(job, act')
  BY <1>4 DEF NoJob, Indexed
<1>6. disk' \in Copies
  BY <1>1 DEF CompleteEnroll, CompleteAuth, TypeInv
<1>7. heard' \in Tellings
  <2>1. CASE \E result \in {"ok", "error"} : heard' = [heard EXCEPT !.result = result]
    BY <1>1, <2>1 DEF Tellings
  <2>2. CASE heard' = [heard EXCEPT !.report = act.report, !.match = act.match,
                                    !.print = IF act.update THEN act.match ELSE 0,
                                    !.result = "ok"]
    <3> DEFINE print == IF act.update THEN act.match ELSE 0
               h == [heard EXCEPT !.report = act.report, !.match = act.match]
    <3>1. print \in Nat
      BY <1>1
    <3>2. heard' = [h EXCEPT !.print = print, !.result = "ok"]
      BY <2>2
    <3> HIDE DEF print
    <3>3. h \in Tellings
      BY <1>1 DEF Tellings
    <3> HIDE DEF h
    <3> QED
      BY <3>1, <3>2, <3>3 DEF Tellings
  <2> QED
    BY <2>1, <2>2 DEF CompleteEnroll, CompleteAuth
<1>8. act' \in Acts /\ Within(act')
  BY <1>1, <1>2, IdleTyped
<1> QED
  BY <1>2, <1>5, <1>6, <1>7, <1>8 DEF TypeInv, Entries

-----------------------------------------------------------------------------
(* The types of a frame's delivery and of its answer *)

\* A prepared setup has a packet that is on disk, the defaults, or none.
LEMMA PreparedTyped ==
  ASSUME gen \in Gens, NEW merged \in BOOLEAN, NEW saved \in Copies
  PROVE  Prepared(gen, merged, saved) \in Gens
<1> DEFINE state == IF saved = {} THEN 0 ELSE CHOOSE snapshot \in saved : TRUE
           own == gen.flags.initialized \/ gen.process
           live == IF own /\ merged THEN Changed(state) ELSE state
           id == IF gen.hardware # 0 THEN gen.hardware ELSE gen.id
           refresh == gen.flags.refresh \/ gen.refresh
           flags == [gen.flags EXCEPT !.refresh = refresh]
           no == FALSE
           g == [gen EXCEPT !.id = id, !.flags = flags, !.refresh = no]
           h == [g EXCEPT !.packet = saved, !.state = live]
<1>1. state \in Snapshot
  BY NoneTyped DEF Copies
<1>2. live \in Snapshot
  BY <1>1, ChangedIs
<1>3. id \in Ids \cup {0}
  BY DEF Gens
<1>4. gen.flags \in Flags /\ gen.refresh \in BOOLEAN /\ no \in BOOLEAN
  BY DEF Gens
<1>5. refresh \in BOOLEAN
  BY <1>4 DEF Flags
<1>6. Prepared(gen, merged, saved) \in {gen, h}
  <2>1. [gen EXCEPT !.id = IF gen.hardware # 0 THEN gen.hardware ELSE @,
                    !.flags.refresh = @ \/ gen.refresh, !.refresh = FALSE,
                    !.packet = saved, !.state = live] = h
    BY <1>4 DEF Gens
  <2> QED
    BY <2>1 DEF Prepared
<1> HIDE DEF live, id, refresh, no
<1>7. flags \in Flags
  BY <1>4, <1>5 DEF Flags
<1> HIDE DEF flags
<1>8. g \in Gens
  BY <1>3, <1>4, <1>7 DEF Gens
<1> HIDE DEF g
<1>9. h \in Gens
  BY <1>2, <1>8 DEF Gens
<1> QED
  BY <1>6, <1>9

\* Each rank among a set's members is that of one of them.
LEMMA RankExists ==
  ASSUME NEW n \in Nat, NEW T \in SUBSET (1 .. n), NEW p \in 1 .. Cardinality(T)
  PROVE  \E i \in T : Cardinality({j \in T : j <= i}) = p
<1> DEFINE upTo(m) == {j \in T : j <= m}
           far == {m \in Nat : Cardinality(upTo(m)) >= p}
           less == {q \in Nat \X Nat : q[1] < q[2]}
<1>0. \A i \in T : i \in Nat /\ 0 < i /\ i <= n
  OBVIOUS
<1>1. IsFiniteSet(T) /\ Cardinality(T) \in Nat
  <2>1. IsFiniteSet(1 .. n)
    BY FS_Interval
  <2> QED
    BY <2>1, FS_Subset, FS_CardinalityType
<1>2. ASSUME NEW m
      PROVE  IsFiniteSet(upTo(m)) /\ Cardinality(upTo(m)) \in Nat
  BY <1>1, FS_Subset, FS_CardinalityType
<1>3. n \in far
  <2>1. upTo(n) = T
    BY <1>0
  <2> HIDE DEF upTo
  <2> QED
    BY <1>1, <2>1
<1>4. \E m \in far : \A k \in far : m <= k
  <2>1. IsWellFoundedOn(less, Nat)
    BY NatLessThanWellFounded DEF OpToRel
  <2>2. far \subseteq Nat /\ far # {}
    BY <1>3
  <2> HIDE DEF far, less
  <2>3. PICK m \in far : \A k \in far : ~(<<k, m>> \in less)
    BY <2>1, <2>2, WFMin
  <2>4. \A k \in far : ~(k < m)
    BY <2>2, <2>3 DEF less
  <2> QED
    BY <2>2, <2>4
<1>5. PICK m \in far : \A k \in far : m <= k
  BY <1>4
<1>6. m \in Nat /\ Cardinality(upTo(m)) >= p
  BY <1>5
<1>7. m # 0
  <2>1. ASSUME NEW j \in upTo(0)
        PROVE  FALSE
    BY <1>0
  <2>2. upTo(0) = {}
    BY <2>1, Zenon
  <2>3. Cardinality(upTo(0)) = 0
    BY <2>2, FS_EmptySet
  <2> HIDE DEF upTo
  <2> QED
    BY <1>6, <2>3
<1>8. m - 1 \in Nat /\ ~(Cardinality(upTo(m - 1)) >= p)
  <2>1. m - 1 \in Nat /\ ~(m <= m - 1)
    BY <1>6, <1>7
  <2>2. m - 1 \notin far
    BY <1>5, <2>1, Zenon
  <2> HIDE DEF upTo
  <2> QED
    BY <2>1, <2>2
<1>9. m \in T
  <2>1. CASE m \notin T
    <3>1. \A j \in T : j <= m <=> j <= m - 1
      BY <1>0, <1>6, <2>1
    <3>2. upTo(m) = upTo(m - 1)
      BY <3>1, Zenon
    <3> HIDE DEF upTo
    <3> QED
      BY <1>6, <1>8, <3>2
  <2> QED
    BY <2>1
<1>10. upTo(m) = upTo(m - 1) \cup {m} /\ m \notin upTo(m - 1)
  <2>1. \A j \in T : j <= m <=> j <= m - 1 \/ j = m
    BY <1>0, <1>6
  <2>2. m <= m /\ ~(m <= m - 1)
    BY <1>6
  <2> QED
    BY <1>9, <2>1, <2>2, Zenon
<1> HIDE DEF upTo
<1>11. Cardinality(upTo(m)) = Cardinality(upTo(m - 1)) + 1
  BY <1>2, <1>10, FS_AddElement
<1>12. Cardinality(upTo(m)) = p
  BY <1>2, <1>6, <1>8, <1>11
<1> QED
  BY <1>9, <1>12 DEF upTo

\* The worker gets prints of the gallery, each with its own index.
LEMMA WorkerGalleryTyped ==
  ASSUME act.gallery \in Seq({"unreadable", "broken", "sound"})
  PROVE  /\ WorkerGallery \in Seq([index : Nat, sound : BOOLEAN])
         /\ \A i \in DOMAIN WorkerGallery : WorkerGallery[i].index <= Len(act.gallery)
<1> DEFINE n == Cardinality(Readable)
           e(p) == [index |-> Nth(p), sound |-> act.gallery[Nth(p)] = "sound"]
<1>1. Len(act.gallery) \in Nat /\ Readable \in SUBSET (1 .. Len(act.gallery))
  BY DEF Readable
<1>2. n \in Nat
  <2>1. IsFiniteSet(1 .. Len(act.gallery))
    BY <1>1, FS_Interval
  <2> QED
    BY <1>1, <2>1, FS_Subset, FS_CardinalityType
<1>3. ASSUME NEW p \in 1 .. n
      PROVE  Nth(p) \in Readable
  <2>1. \E i \in Readable : Cardinality({j \in Readable : j <= i}) = p
    BY <1>1, RankExists
  <2> QED
    BY <2>1 DEF Nth
<1>4. WorkerGallery = [p \in 1 .. n |-> e(p)]
  BY DEF WorkerGallery
<1> HIDE DEF n
<1>5. ASSUME NEW p \in 1 .. n
      PROVE  /\ e(p) \in [index : Nat, sound : BOOLEAN]
             /\ e(p).index <= Len(act.gallery)
  <2> DEFINE i == Nth(p)
             sound == act.gallery[i] = "sound"
  <2>0. i \in Readable /\ sound \in BOOLEAN
    BY <1>3, Zenon
  <2>1. i \in Nat /\ i <= Len(act.gallery) /\ sound \in BOOLEAN
    <3> HIDE DEF i, sound
    <3> QED
      BY <1>1, <2>0
  <2> HIDE DEF i, sound
  <2>2. /\ [index |-> i, sound |-> sound] \in [index : Nat, sound : BOOLEAN]
        /\ [index |-> i, sound |-> sound].index <= Len(act.gallery)
    BY <2>1
  <2> QED
    BY <2>2 DEF i, sound
<1> HIDE DEF e
<1>6. WorkerGallery \in Seq([index : Nat, sound : BOOLEAN]) /\ DOMAIN WorkerGallery = 1 .. n
  BY <1>2, <1>4, <1>5
<1>7. ASSUME NEW p \in 1 .. n
      PROVE  WorkerGallery[p].index <= Len(act.gallery)
  BY <1>4, <1>5
<1> QED
  BY <1>6, <1>7

\* The job that goes out is made of typed parts.
LEMMA DeliverTyped == IInv /\ TypeInv /\ Deliver => TypeInv'
<1> SUFFICES ASSUME IInv, TypeInv, Deliver
             PROVE  TypeInv'
  OBVIOUS
<1>1. PICK allowed \in BOOLEAN, merged \in BOOLEAN, saved \in Packets :
        LET g == [Prepared(gen, merged, saved) EXCEPT !.refresh = FALSE]
        IN  IF Refused \/ job.at # "none"
            THEN frame' = "fatal" /\ gen' = g /\ UNCHANGED job
            ELSE /\ frame' = "out" /\ job' = TaskInput(g, allowed)
                 /\ gen' = [g EXCEPT !.packet = {}]
  BY DEF Deliver
<1> DEFINE p == Prepared(gen, merged, saved)
           no == FALSE
           g == [p EXCEPT !.refresh = no]
<1>2. /\ \/ gen' = g /\ UNCHANGED job
         \/ job' = TaskInput(g, allowed) /\ gen' = [g EXCEPT !.packet = {}]
      /\ no \in BOOLEAN /\ UNCHANGED <<disk, act, heard>>
  BY <1>1 DEF Deliver
<1>3. saved \in Copies
  BY NoneTyped DEF Packets, TypeInv, Copies
<1>4. p \in Gens
  BY <1>3, PreparedTyped DEF TypeInv
<1> HIDE DEF p, no
<1>5. g \in Gens
  BY <1>2, <1>4 DEF Gens
<1> HIDE DEF g
<1>6. CASE gen' = g /\ UNCHANGED job
  BY <1>2, <1>5, <1>6, GenTyped
<1>7. CASE job' = TaskInput(g, allowed) /\ gen' = [g EXCEPT !.packet = {}]
  <2>1. gen' \in Gens
    BY <1>5, <1>7, NoneTyped DEF Gens
  <2>2. /\ act.kind \in {"none", "enroll", "verify", "identify"} /\ act.epoch \in Epochs
        /\ act.stage \in 0 .. Samples
        /\ act.gallery \in Seq({"unreadable", "broken", "sound"})
    BY DEF TypeInv, Acts
  <2>3. /\ g.id \in Ids \cup {0} /\ g.flags \in Flags /\ g.state \in Snapshot
        /\ g.packet \in Copies
    BY <1>5 DEF Gens
  <2> DEFINE w == WorkerGallery
             a == [NoJob EXCEPT !.kind = act.kind, !.epoch = act.epoch, !.gen = g.id]
             b == [a EXCEPT !.stage = act.stage, !.flags = g.flags, !.state = g.state]
             packed == [b EXCEPT !.packet = g.packet]
             c == [packed EXCEPT !.allowed = allowed]
             d == [c EXCEPT !.gallery = w, !.at = "setup"]
  <2>4. /\ w \in Seq([index : Nat, sound : BOOLEAN])
        /\ \A i \in DOMAIN w : w[i].index <= Len(act.gallery)
    BY <2>2, WorkerGalleryTyped
  <2>5. job' = d
    BY <1>7 DEF TaskInput
  <2>6. NoJob.pos = 1 /\ NoJob.winner = 0
    BY DEF NoJob
  <2> HIDE DEF w
  <2>7. a \in Jobs /\ a.pos = 1 /\ a.winner = 0
    BY ZenonT(40), <2>2, <2>3, <2>6, NoneTyped DEF Jobs
  <2> HIDE DEF a
  <2>8. b \in Jobs /\ b.pos = 1 /\ b.winner = 0
    BY ZenonT(40), <2>2, <2>3, <2>7 DEF Jobs
  <2> HIDE DEF b
  <2>9. c \in Jobs /\ c.pos = 1 /\ c.winner = 0
    <3>1. packed \in Jobs /\ packed.pos = 1 /\ packed.winner = 0
      BY ZenonT(40), <2>3, <2>8 DEF Jobs
    <3> HIDE DEF packed
    <3>2. allowed \in BOOLEAN
      BY <1>1
    <3> QED
      BY ZenonT(40), <3>1, <3>2 DEF Jobs
  <2> HIDE DEF c
  <2>10. d \in Jobs /\ d.pos = 1 /\ d.winner = 0 /\ d.gallery = w
    BY ZenonT(40), <2>4, <2>9 DEF Jobs
  <2>11. Entries(d) /\ Indexed(d, act)
    BY <2>4, <2>10 DEF Entries, Indexed
  <2> QED
    BY <1>2, <2>1, <2>5, <2>10, <2>11 DEF TypeInv, Entries, Indexed, Within
<1> QED
  BY <1>2, <1>6, <1>7

\* The live generation stays one, whatever it takes over.
LEMMA AdoptedTyped ==
  ASSUME gen \in Gens, job \in Jobs
  PROVE  Adopted \in Gens
<1>1. job.flags \in Flags /\ job.state \in Snapshot
  BY DEF Jobs
<1>2. [gen EXCEPT !.flags = job.flags] \in Gens
  BY <1>1 DEF Gens
<1>3. [gen EXCEPT !.flags = job.flags, !.state = job.state] \in Gens
  BY <1>1 DEF Gens
<1>4. Adopted \in {gen, [gen EXCEPT !.flags = job.flags],
                   [gen EXCEPT !.flags = job.flags, !.state = job.state]}
  BY Zenon DEF Adopted
<1> QED
  BY <1>2, <1>3, <1>4

\* The counters of an attempt stay within what the code lets them reach.
LEMMA EnrolledTyped ==
  ASSUME act \in Acts, job \in Jobs, act' \in Enrolled,
         act.count = act.stage, act.stage < Samples
  PROVE  act' \in Acts /\ act'.gallery = act.gallery /\ act'.match = act.match
<1>1. /\ act.badContinue \in 0 .. 3 /\ act.badRecord \in 0 .. 5 /\ act.count \in 0 .. Samples
      /\ act.stage \in 0 .. Samples /\ job.state \in Snapshot
  BY DEF Acts, Jobs
<1> DEFINE streak == Streak(act.badContinue)
           kept(b) == b \in Acts /\ b.gallery = act.gallery /\ b.match = act.match
<1>2. streak \in 0 .. 3
  BY <1>1 DEF Streak
<1>3. ASSUME NEW v \in 0 .. 3
      PROVE  kept([act EXCEPT !.badContinue = v, !.progress = "retry"])
  BY <1>3 DEF Acts
<1> DEFINE a == [act EXCEPT !.badContinue = streak]
           rolled == [act EXCEPT !.badRecord = @ + 1, !.badContinue = @ + 1,
                                 !.progress = "retry"]
           accepted == [a EXCEPT !.count = @ + 1, !.stage = a.count + 1,
                                 !.progress = "stage",
                                 !.persist = IF a.count + 1 = Samples THEN {job.state} ELSE {}]
<1>4. kept([a EXCEPT !.progress = "retry"])
  <2>1. [a EXCEPT !.progress = "retry"]
          = [act EXCEPT !.badContinue = streak, !.progress = "retry"]
    OBVIOUS
  <2> QED
    BY <1>2, <1>3, <2>1
<1>5. MayRollback => kept(rolled)
  <2> SUFFICES ASSUME MayRollback
               PROVE  kept(rolled)
    OBVIOUS
  <2> DEFINE record == act.badRecord + 1
             again == act.badContinue + 1
  <2>1. record \in 0 .. 5 /\ again \in 0 .. 3
    BY <1>1 DEF MayRollback
  <2>2. rolled = [act EXCEPT !.badRecord = record, !.badContinue = again,
                             !.progress = "retry"]
    OBVIOUS
  <2> HIDE DEF record, again
  <2>3. kept([act EXCEPT !.badRecord = record, !.badContinue = again, !.progress = "retry"])
    BY <2>1 DEF Acts
  <2> QED
    BY <2>2, <2>3
<1>6. kept(accepted)
  <2> DEFINE n == act.count + 1
             saved == IF n = Samples THEN {job.state} ELSE {}
  <2>1. n \in 0 .. Samples /\ saved \in Copies
    BY <1>1, ActionAssumption DEF Copies
  <2>2. a.count = act.count
    BY DEF Acts
  <2>3. accepted = [a EXCEPT !.count = n, !.stage = n, !.progress = "stage",
                             !.persist = saved]
    BY <2>2 DEF Acts
  <2>4. kept(a)
    BY <1>2 DEF Acts
  <2> HIDE DEF n, saved, a
  <2> DEFINE b == [a EXCEPT !.count = n, !.stage = n]
             c == [b EXCEPT !.progress = "stage", !.persist = saved]
  <2>5. kept(b)
    BY <2>1, <2>4 DEF Acts
  <2> HIDE DEF b
  <2>6. kept(c)
    BY <2>1, <2>5 DEF Acts
  <2>7. accepted = c
    BY <2>3 DEF b
  <2> QED
    BY <2>6, <2>7
<1>7. CASE job.probe
  <2>1. Enrolled = {accepted, [a EXCEPT !.progress = "retry"]}
                     \cup IF MayRollback THEN {rolled} ELSE {}
    BY <1>7 DEF Enrolled, Attempts
  <2> HIDE DEF accepted, rolled, a, kept
  <2>2. \/ act' \in {accepted, [a EXCEPT !.progress = "retry"]}
        \/ MayRollback /\ act' = rolled
    BY <2>1
  <2> QED
    BY <1>4, <1>5, <1>6, <2>2 DEF kept
<1>8. CASE ~job.probe
  <2>1. PICK v \in 0 .. 3 : act' = [act EXCEPT !.badContinue = v, !.progress = "retry"]
    BY <1>1, <1>2, <1>8 DEF Enrolled
  <2> QED
    BY <1>3, <2>1
<1> QED
  BY <1>7, <1>8

\* The match a result reports is of a print in the gallery.
LEMMA AuthenticatedTyped ==
  ASSUME TypeInv
  PROVE  Authenticated \in Acts /\ Authenticated.gallery = act.gallery /\ Within(Authenticated)
<1>1. act \in Acts /\ job \in Jobs /\ Within(act) /\ Len(act.gallery) \in Nat
  BY DEF TypeInv, Acts
<1>2. job.winner \in Nat /\ job.winner <= Len(act.gallery) /\ job.state \in Snapshot
  <2>1. job.winner = 0 \/ job.winner <= Len(act.gallery)
    BY DEF TypeInv, Entries, Indexed
  <2> QED
    BY <1>1, <2>1 DEF Jobs
<1> DEFINE no == FALSE
           a == [act EXCEPT !.report = "none", !.match = 0, !.update = no, !.persist = {}]
           update == job.study = "candidate"
           saved == IF update /\ job.stateValid THEN {job.state} ELSE {}
           m == [a EXCEPT !.report = "match", !.match = job.winner, !.update = update,
                          !.persist = saved]
           kept(b) == b \in Acts /\ b.gallery = act.gallery /\ b.match <= Len(act.gallery)
<1>3. no \in BOOLEAN /\ update \in BOOLEAN /\ saved \in Copies
  BY <1>2 DEF Copies
<1>4. Authenticated \in {m, act} \cup {[a EXCEPT !.report = report] : report \in {"miss", "retry"}}
  BY Zenon DEF Authenticated
<1> HIDE DEF no, update, saved
<1>5. kept(a)
  <2> DEFINE b == [act EXCEPT !.report = "none", !.match = 0]
  <2>0. b \in Acts /\ b.gallery = act.gallery /\ b.match = 0
    BY <1>1 DEF Acts
  <2>1. kept(b)
    BY <1>1, <2>0
  <2>2. a = [b EXCEPT !.update = no, !.persist = {}]
    BY DEF a
  <2> HIDE DEF b, a
  <2>3. kept([b EXCEPT !.update = no, !.persist = {}])
    BY <1>3, <2>1, NoneTyped DEF Acts
  <2> QED
    BY <2>2, <2>3
<1> HIDE DEF a
<1>6. ASSUME NEW report \in {"miss", "retry"}
      PROVE  kept([a EXCEPT !.report = report])
  BY <1>5 DEF Acts
<1>7. kept(m)
  <2> DEFINE b == [a EXCEPT !.report = "match", !.match = job.winner]
  <2>1. kept(b)
    BY <1>2, <1>5 DEF Acts
  <2>2. m = [b EXCEPT !.update = update, !.persist = saved]
    OBVIOUS
  <2> HIDE DEF b, m
  <2>3. kept([b EXCEPT !.update = update, !.persist = saved])
    BY <1>3, <2>1 DEF Acts
  <2> QED
    BY <2>2, <2>3
<1>8. kept(act)
  BY <1>1 DEF Within
<1> HIDE DEF m
<1>9. kept(Authenticated)
  BY <1>4, <1>6, <1>7, <1>8
<1> QED
  BY <1>9 DEF Within

\* A result leaves typed records.
LEMMA TaskDoneTyped == IInv /\ TypeInv /\ TaskDone => TypeInv'
<1> SUFFICES ASSUME IInv, TypeInv, TaskDone
             PROVE  TypeInv'
  OBVIOUS
<1>1. /\ act \in Acts /\ job \in Jobs /\ job' = NoJob /\ gen' \in Gens /\ Within(act)
      /\ UNCHANGED <<disk, heard>>
  BY AdoptedTyped DEF TaskDone, TypeInv
<1>2. frame = "out" /\ act.phase = "scan" /\ told = "none" /\ Owned
  BY DEF TaskDone, IInv, JobOut, Phases
<1>3. act' \in Acts /\ Within(act')
  <2>1. CASE act' = act
    BY <1>1, <2>1 DEF Within
  <2>2. CASE job.kind = "enroll" /\ act' \in Enrolled
    <3>1. act.count = act.stage /\ act.stage < Samples
      BY <1>2, <2>2 DEF IInv, Enrolling, Owned
    <3>2. act' \in Acts /\ act'.gallery = act.gallery /\ act'.match = act.match
      BY <1>1, <2>2, <3>1, EnrolledTyped
    <3> QED
      BY <1>1, <3>2 DEF Within
  <2>3. CASE act' = Authenticated
    BY <2>3, AuthenticatedTyped
  <2> QED
    BY <2>1, <2>2, <2>3 DEF TaskDone
<1>4. Entries(NoJob) /\ Indexed(NoJob, act')
  BY DEF NoJob, Entries, Indexed
<1> QED
  BY <1>1, <1>3, <1>4, NoneTyped DEF TypeInv, Entries, Indexed

\* The types hold throughout.
LEMMA InitTyped == Init => TypeInv
<1> SUFFICES ASSUME Init
             PROVE  TypeInv
  OBVIOUS
<1>1. Entries(NoJob) /\ Indexed(NoJob, NoAct) /\ Within(NoAct)
  BY DEF NoJob, NoAct, Entries, Indexed, Within
<1> QED
  BY <1>1, NoneTyped DEF Init, TypeInv

LEMMA NextTyped == IInv /\ TypeInv /\ [Next]_vars => TypeInv'
<1> SUFFICES ASSUME IInv, TypeInv, [Next]_vars
             PROVE  TypeInv'
  OBVIOUS
<1>1. CASE UNCHANGED vars
  BY <1>1 DEF vars, TypeInv, Entries, Indexed, Within
<1>2. CASE Worker /\ UNCHANGED <<act, gen, heard, frame, lifted, told>>
  BY <1>2, WorkerTyped
<1>3. CASE Base \/ Reopen \/ Start \/ Reinit
  BY <1>3, BaseTyped, ReopenTyped, StartTyped, ReinitTyped
<1>4. CASE Deliver \/ Undelivered \/ TaskDone
  BY <1>4, DeliverTyped, UndeliveredTyped, TaskDoneTyped
<1>5. CASE Lift \/ Settle \/ EndScan \/ Leave
  BY <1>5, ScanTyped
<1>6. CASE CompleteEnroll \/ CompleteAuth \/ Cancel \/ GoodixCancel \/ CancelToken
  BY <1>6, CompleteTyped, CancelTyped
<1> QED
  BY <1>1, <1>2, <1>3, <1>4, <1>5, <1>6 DEF Next

\* Every field stays in its range: the counters of an enrollment's rollbacks
\* never pass what goodix_enroll_task_done allows, and the print a match names
\* is one of the gallery it was started with.
THEOREM TypeCorrect == Spec => []TypeOK
<1>1. Spec => []TypeInv
  BY InitTyped, NextTyped, InvariantHolds, PTL DEF Spec
<1> QED
  BY <1>1, TypesAre, PTL
=============================================================================
