------------------------------ MODULE Preprocess ------------------------------
(* What the preprocessing of frames learns and keeps between them             *)
(* (milan/core.c, milan/preprocess/classification.c, the classification ring  *)
(* of milan/match/info.c).  The pixels are gone: a plane of ages is one pixel *)
(* of it, a plane of the ring is its presence, and what the image decides     *)
(* (admission, coverage, activity, gradient) is an argument.                  *)
EXTENDS Naturals

CONSTANTS MaxSamples,    \* calibration samples that are counted, 400
          Trusted,       \* from here on a frame is never rendered again, 100
          NestedSamples, \* the count a second rendering pretends, 5
          HistorySeed,   \* most calibration samples a history starts from, 21
          HistoryMax,    \* most frames in the history, 50
          UpdateMax,     \* most component updates, and the oldest age, 5
          RingMax        \* planes in the classification ring, 3

ASSUME PreprocessAssumption ==
  /\ {MaxSamples, Trusted, NestedSamples, HistorySeed, HistoryMax, UpdateMax, RingMax}
       \subseteq Nat \ {0}
  /\ HistorySeed <= HistoryMax /\ NestedSamples < Trusted /\ Trusted <= MaxSamples

\* kept is the ring's length when the last classifier completed: what is saved.
Learning ==
  [samples : 0 .. MaxSamples, hist : 0 .. HistoryMax, upd : 0 .. UpdateMax,
   age : 0 .. UpdateMax, ring : 0 .. RingMax, kept : 0 .. RingMax,
   classifier : BOOLEAN]

\* goodix_milan_preprocess_reset.
Unlearnt ==
  [samples |-> 0, hist |-> 0, upd |-> 0, age |-> 0, ring |-> 0, kept |-> 0,
   classifier |-> FALSE]

Capped(n, most) == IF n > most THEN most ELSE n

\* ---------------------------------------------------------------------------
\* The steps of one frame, in order.

\* An image close to the last ones adds no sample.
UpdateCalibration(L, admitted) ==
  IF admitted THEN [L EXCEPT !.samples = Capped(@ + 1, MaxSamples)] ELSE L

\* A rendering that disagrees is repeated with few samples pretended; the count
\* is restored, whatever the repetition admits.
PostRender_Pretending(L, disagrees, admitted) ==
  IF disagrees /\ L.samples < Trusted
    THEN UpdateCalibration([L EXCEPT !.samples = NestedSamples], admitted)
    ELSE L

PostRender(L, disagrees, admitted) ==
  IF disagrees /\ L.samples < Trusted
    THEN [UpdateCalibration([L EXCEPT !.samples = NestedSamples], admitted)
            EXCEPT !.samples = L.samples]
    ELSE L

\* A calibration of less than two samples restarts the history.
UpdateHistory(L, masked) ==
  LET l == IF L.samples < 2 THEN [L EXCEPT !.hist = 0] ELSE L
  IN IF masked THEN [l EXCEPT !.hist = Capped(@ + 1, HistoryMax)] ELSE l

PrepareHistory(L, masked) ==
  IF L.hist = 0 /\ L.samples > 1
    THEN [L EXCEPT !.hist = Capped(L.samples, HistorySeed)]
    ELSE UpdateHistory(L, masked)

\* An active frame ages the components its gradient shows, and the others down.
ComponentClass1_Forgetful(L, active, gradient) ==
  IF ~active THEN L
  ELSE [L EXCEPT
          !.age = CASE gradient = "high" /\ @ < UpdateMax -> @ + 1
                    [] gradient = "low" /\ @ # 0 -> @ - 1
                    [] OTHER -> @]

ComponentClass1(L, active, gradient) ==
  IF ~active THEN L
  ELSE [L EXCEPT
          !.age = CASE gradient = "high" /\ @ < UpdateMax -> @ + 1
                    [] gradient = "low" /\ @ # 0 -> @ - 1
                    [] OTHER -> @,
          !.upd = Capped(@ + 1, UpdateMax)]

\* The classifier completes: before extraction appends a plane of this frame.
Classify(L) == [L EXCEPT !.kept = L.ring, !.classifier = TRUE]

\* Mutant of UpdateExtraction: nothing bounds the ring.
UpdateExtraction_Uncapped(L, covered) ==
  IF covered THEN [L EXCEPT !.ring = @ + 1] ELSE L

UpdateExtraction(L, covered) ==
  IF covered THEN [L EXCEPT !.ring = Capped(@ + 1, RingMax)] ELSE L

\* What a frame that is admitted, and whose probe may be extracted, can leave.
Preprocessed(L) ==
  {UpdateExtraction(
     Classify(ComponentClass1(
       PrepareHistory(PostRender(UpdateCalibration(L, new), disagrees, again), masked),
       active, gradient)), covered) :
   new, disagrees, again, masked, active, covered \in BOOLEAN,
   gradient \in {"high", "middle", "low"}}

\* ---------------------------------------------------------------------------
\* The record of it on disk (device/persistence.c), and the process' own part
\* that a new setup keeps (device/base.c).

LearningRecord ==
  [samples : 0 .. MaxSamples, hist : 0 .. HistoryMax, upd : 0 .. UpdateMax,
   age : 0 .. UpdateMax, ring : 0 .. RingMax]

Saved(L) ==
  [samples |-> L.samples, hist |-> L.hist, upd |-> L.upd, age |-> L.age,
   ring |-> L.kept]

DefaultRecord == Saved(Unlearnt)

\* Saving refuses a count past the format's limits.
WithinFormat(L) ==
  /\ L.samples <= MaxSamples /\ L.kept <= RingMax
  /\ L.upd <= UpdateMax /\ L.hist <= HistoryMax /\ L.age <= UpdateMax

Restored(rec) ==
  [samples |-> rec.samples, hist |-> rec.hist, upd |-> rec.upd, age |-> rec.age,
   ring |-> rec.ring, kept |-> rec.ring, classifier |-> FALSE]

\* Once a classifier has run, its history comes from the process; the samples,
\* and the ring that was saved, from the disk.
TransferProcessState(L, process) ==
  IF process.classifier
    THEN [L EXCEPT !.hist = process.hist, !.upd = process.upd, !.age = process.age,
                   !.ring = process.ring, !.classifier = TRUE]
    ELSE L
=============================================================================
