------------------------------ MODULE Runtime ------------------------------
(***************************************************************************)
(* The worker thread's transaction on one frame.                           *)
(*                                                                         *)
(* Source: drivers/goodix53x5/milan/runtime.c, runtime.h.  The input is a  *)
(* snapshot the main loop made at submission; the worker shares with the   *)
(* main loop only the action's cancellable, which it polls at checkpoints, *)
(* and the state file, which the setup publication writes.  One action is  *)
(* the work from one checkpoint to the next.  A preprocessing state is a   *)
(* number that changes whenever its saved part does, modulo Snapshots.     *)
(***************************************************************************)

EXTENDS Naturals, Sequences

CONSTANT Snapshots   \* distinguished preprocessing states

ASSUME RuntimeAssumption == Snapshots \in Nat \ {0}

VARIABLES
  job,    \* GoodixMilanRuntimeInput and, at the end, its output
  token,  \* self->cancel: the action's cancellable is cancelled
  disk    \* the state file: at most one snapshot

Snapshot == 0 .. Snapshots - 1

Changed(state) == (state + 1) % Snapshots

\* At most one snapshot: a file, a packet, a pending copy.
Holds(saved) == saved = {} \/ \E state \in Snapshot : saved = {state}

\* setup_initialized, setup_refresh_pending, setup_not_ready
Flags == [initialized : BOOLEAN, refresh : BOOLEAN, notReady : BOOLEAN]

NoFlags == [initialized |-> FALSE, refresh |-> FALSE, notReady |-> FALSE]

NoJob ==
  [kind |-> "none", epoch |-> 0, gen |-> 0, stage |-> 0, flags |-> NoFlags,
   state |-> 0, packet |-> {}, allowed |-> FALSE, gallery |-> <<>>,
   at |-> "none", status |-> "none", setupValid |-> FALSE, stateValid |-> FALSE,
   metrics |-> "none", sampled |-> FALSE, probe |-> FALSE, pos |-> 1,
   valid |-> FALSE, winner |-> 0, study |-> "none"]

JobState(j) ==
  /\ DOMAIN j = DOMAIN NoJob
  /\ j.kind \in {"none", "enroll", "verify", "identify"}
  /\ j.flags \in Flags /\ j.state \in Snapshot /\ Holds(j.packet)
  /\ j.at \in {"none", "setup", "live", "extract", "match", "study", "studied", "done"}
  \* GoodixMilanRuntimeStatus
  /\ j.status \in {"none", "retry", "match", "nomatch", "invalid", "cancelled"}
  /\ {j.allowed, j.setupValid, j.stateValid, j.sampled, j.probe, j.valid} \subseteq BOOLEAN
  /\ j.metrics \in {"none", "zero", "low", "good"}   \* quality and coverage
  /\ j.pos \in 1 .. Len(j.gallery) + 1
  /\ j.winner = 0 \/ \E i \in DOMAIN j.gallery : j.winner = j.gallery[i].index
  \* final_candidate or learning_error
  /\ j.study \in {"none", "candidate", "error"}

SetupRequired(flags) == ~flags.initialized \/ flags.refresh

\* The outcome of the two admissions of the retained frame.
InitializeSetup(flags, admitted) ==
  IF admitted THEN [initialized |-> TRUE, refresh |-> FALSE, notReady |-> FALSE]
  ELSE [flags EXCEPT !.refresh = FALSE, !.notReady = flags.initialized]

Done(j, status) == [j EXCEPT !.status = status, !.at = "done"]

Retry(j) == [Done(j, "retry") EXCEPT !.stateValid = TRUE]

\* goodix_milan_runtime_cancelled: live processing and learning are dropped.
Cut ==
  /\ job.at \in {"setup", "extract", "match", "study", "studied"} /\ token
  /\ job' = [Done(job, "cancelled") EXCEPT !.stateValid = FALSE, !.study = "none"]
  /\ UNCHANGED <<token, disk>>

At(position) == job.at = position /\ ~token /\ UNCHANGED token

\* A finished setup: an unhealthy sensor enrolls nothing.
LiveAdmission(j) ==
  IF j.kind = "enroll" /\ ~j.allowed THEN Retry(j) ELSE [j EXCEPT !.at = "live"]

\* The setup-save writes its packet before live processing starts; a failed
\* write is only warned of, a missing packet withholds the context.
Setup ==
  /\ At("setup")
  /\ \/ /\ ~SetupRequired(job.flags)
        /\ job' = IF job.flags.notReady THEN Retry(job) ELSE LiveAdmission(job)
        /\ UNCHANGED disk
     \/ /\ SetupRequired(job.flags)
        /\ \E admitted \in BOOLEAN :
             LET saved == admitted /\ job.packet # {}
                 flags == InitializeSetup(job.flags, admitted)
                 j == [job EXCEPT !.setupValid = TRUE,
                                  !.flags = IF saved THEN flags
                                    ELSE [flags EXCEPT !.initialized = job.flags.initialized]]
             IN  /\ job' = IF saved THEN LiveAdmission(j) ELSE Retry(j)
                 /\ disk' \in IF saved THEN {disk, job.packet} ELSE {disk}

\* Preprocessing: "late" is a retry status with a completed image, "hard" none.
\* Identification admits late retries.
Live ==
  /\ job.at = "live" /\ UNCHANGED <<token, disk>>
  /\ \/ job' = Done(job, "retry")
     \/ \E status \in {"ok", "late"}, state \in {job.state, Changed(job.state)},
           metrics \in {"zero", "low", "good"} :
          LET j == [job EXCEPT !.state = state, !.metrics = metrics, !.stateValid = TRUE]
          IN  job' = IF metrics = "zero" \/ (job.kind = "enroll" /\ status = "late")
                     THEN Done(j, "retry") ELSE [j EXCEPT !.at = "extract"]

\* The sample's admission to the enrollment, then the probe, whose extraction
\* may change the state too.
Extract ==
  /\ At("extract") /\ UNCHANGED disk
  /\ IF job.kind = "enroll" /\ job.metrics = "low"
     THEN job' = Done(job, "retry")
     ELSE \E state \in {job.state, Changed(job.state)} :
            LET j == [job EXCEPT !.sampled = job.kind = "enroll", !.state = state]
            IN  job' \in {Done(j, "retry"), [j EXCEPT !.probe = TRUE, !.at = "match"]}

\* Mutant of Match: the winner is named by its position among the readable ones.
Match_ByPosition ==
  /\ At("match") /\ UNCHANGED disk
  /\ IF job.pos > Len(job.gallery)
     THEN job' = Done(job, IF Len(job.gallery) > 0 /\ ~job.valid
                           THEN "invalid" ELSE "nomatch")
     ELSE LET next == [job EXCEPT !.pos = @ + 1]
          IN  \/ job' = next
              \/ /\ job.gallery[job.pos].sound
                 /\ job' \in {[next EXCEPT !.valid = TRUE],
                              [job EXCEPT !.valid = TRUE, !.status = "match",
                                          !.winner = job.pos, !.at = "study"]}

\* The gallery in order: the first positive entry wins.  An entry found broken
\* (its template, its queue, or its match failing) is passed over.
Match ==
  /\ At("match") /\ UNCHANGED disk
  /\ IF job.pos > Len(job.gallery)
     THEN job' = Done(job, IF Len(job.gallery) > 0 /\ ~job.valid
                           THEN "invalid" ELSE "nomatch")
     ELSE LET next == [job EXCEPT !.pos = @ + 1]
              entry == job.gallery[job.pos]
          IN  \/ job' = next
              \/ /\ entry.sound
                 /\ job' \in {[next EXCEPT !.valid = TRUE],
                              [job EXCEPT !.valid = TRUE, !.status = "match",
                                          !.winner = entry.index, !.at = "study"]}

\* A failed study keeps the match.
Study ==
  /\ At("study") /\ UNCHANGED disk
  /\ job' \in {[job EXCEPT !.study = "error", !.at = "done"],
               [job EXCEPT !.at = "studied"]}

Studied ==
  /\ At("studied") /\ UNCHANGED disk
  /\ \E result \in {"none", "candidate", "error"} :
       job' = [job EXCEPT !.study = result, !.at = "done"]

Worker == Cut \/ Setup \/ Live \/ Extract \/ Match \/ Study \/ Studied

=============================================================================
