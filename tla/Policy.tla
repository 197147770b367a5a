------------------------------- MODULE Policy -------------------------------
(***************************************************************************)
(* The two flags of a feature: whether it makes the probe a match, and     *)
(* whether it is a candidate that the result may name.                     *)
(*                                                                         *)
(* Source: drivers/goodix53x5/milan/match/admission.c and policy.c, for    *)
(* the sensor of this driver.  Every rule is a table of thresholds over    *)
(* the metrics of the feature; what a table says is chosen, and what a     *)
(* rule may do to the flags, and when it is asked, is kept.                *)
(*                                                                         *)
(* match is match_flag (2 is a match that the vetoes do not look at),      *)
(* candidate is candidate_flag, and late is the recognition mode of the    *)
(* configuration, which a veto turns off for the rest of the loop.         *)
(***************************************************************************)
EXTENDS Naturals

Flags == [match : 0 .. 2, candidate : BOOLEAN, late : BOOLEAN]

\* What a classifier answers: match implies candidate.
Answer == {a \in [match : 0 .. 1, candidate : BOOLEAN] : a.match = 1 => a.candidate}

\* flags |= output
Raised(f, a) ==
  [f EXCEPT !.match = IF @ = 0 THEN a.match ELSE @, !.candidate = @ \/ a.candidate]

Unmatched(f) == [f EXCEPT !.match = 0]

Cleared(f) == [f EXCEPT !.match = 0, !.candidate = FALSE]

\* goodix_milan_match_initial_flags
InitialFlags(late) ==
  {f \in Flags : f.late = late /\ (f.match # 0 => f.candidate)}

\* The strict tables are looked at only after a broad one.
InitialClassifier == Answer

\* Mutant: the strict answer is not joined into the broad one.
FallbackClassifier_Unjoined == [match : 0 .. 1, candidate : BOOLEAN]

FallbackClassifier == Answer

\* The mode is the high class the probe was packed with.
FirstVetoType12(f, mode) ==
  {f, Unmatched(f)} \cup
  (IF mode > 0 THEN {[Unmatched(f) EXCEPT !.late = FALSE]} ELSE {})

\* Takes the match and leaves the candidate.
FirstVeto(f, mode) == {Unmatched(f)} \cup FirstVetoType12(f, mode)

PostVetoType12(f) == {f, Cleared(f)}

\* Takes both.
PostVeto(f, mode) ==
  {Cleared(f)} \cup PostVetoType12(f) \cup
  (IF mode > 1 THEN {[Cleared(f) EXCEPT !.late = FALSE]} ELSE {})

LateEligibility == Answer

\* goodix_milan_matcher_policy_evaluate
Evaluate(f, high, mode) ==
  LET classified ==
        IF f.match = 0 \/ ~f.candidate
        THEN {Raised(f, a) : a \in InitialClassifier} ELSE {f}
      relaxed == UNION
        {IF g.candidate THEN {g}
         ELSE {[Raised(g, a) EXCEPT !.match = a.match] : a \in FallbackClassifier} :
         g \in classified}
      vetoed == UNION {IF g.match # 0 THEN FirstVeto(g, mode) ELSE {g} : g \in relaxed}
      post == UNION
        {IF g.candidate /\ g.match = 0 THEN PostVeto(g, mode) ELSE {g} : g \in vetoed}
  IN IF f.match = 2 /\ high <= 1 THEN {f}
     ELSE UNION
       {IF g.match = 0 /\ g.late THEN {Raised(g, a) : a \in LateEligibility} ELSE {g} :
        g \in post}

\* goodix_milan_matcher_policy_apply_late_veto
ApplyLateVeto(f, packed) == {f} \cup (IF packed THEN {Cleared(f)} ELSE {})

\* goodix_milan_matcher_policy_apply_status, when the feature is not refused.
ApplyStatus(f) == {f, Unmatched(f)}

\* goodix_milan_matcher_policy_apply_final: of a worn finger a weak feature is
\* no candidate, and a doubtful one no match.
ApplyFinal(f, high, histogram) ==
  IF ~f.candidate \/ high < 2 THEN {f}
  ELSE {f, Unmatched(f)} \cup (IF histogram >= 2 THEN {Cleared(f)} ELSE {})

\* The flags before the status is asked.
Judged(late, high, mode, packed) ==
  UNION {ApplyLateVeto(g, packed) :
         g \in UNION {Evaluate(f, high, mode) : f \in InitialFlags(late)}}

\* ... and the flags a feature is published with.
Verdict(late, high, mode, packed, histogram) ==
  UNION {ApplyFinal(g, high, histogram) :
         g \in UNION {ApplyStatus(f) : f \in Judged(late, high, mode, packed)}}
=============================================================================
