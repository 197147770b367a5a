----------------------------- MODULE MatchProofs -----------------------------
(* Proofs about Match, for every gallery of validated templates, every probe, *)
(* every threshold and every choice of what a feature shows.                  *)
(*                                                                            *)
(* The properties speak of the result, which one step writes from what the    *)
(* loop has gathered; the invariant is what that evidence satisfies while it  *)
(* is gathered: it is of features the loop has passed, each of which it       *)
(* passes once; a blocked one is in nothing else; and the two places that     *)
(* choose the matched feature and the relation choose alike.                  *)
EXTENDS Match, FiniteSetTheorems, WellFoundedInduction, TLAPS

\* ---------------------------------------------------------------------------
\* The flags of a feature.

\* A match is a candidate.
Sound == {f \in Flags : f.match # 0 => f.candidate}

LEMMA InitialSound == \A late \in BOOLEAN : InitialFlags(late) \subseteq Sound
  BY DEF InitialFlags, Sound

LEMMA FlagsChanged ==
  ASSUME NEW f \in Flags, NEW m \in 0 .. 2, NEW c \in BOOLEAN
  PROVE  [f EXCEPT !.match = m, !.candidate = c] \in Flags
  BY DEF Flags

LEMMA RaisedSound ==
  ASSUME NEW g \in Sound, NEW a \in Answer
  PROVE  /\ Raised(g, a) \in Sound
         /\ ~g.candidate => [Raised(g, a) EXCEPT !.match = a.match] \in Sound
<1> DEFINE r == Raised(g, a)
           q == [r EXCEPT !.match = a.match]
<1>1. g \in Flags /\ (g.match # 0 => g.candidate)
  BY DEF Sound
<1>2. a.match \in 0 .. 1 /\ a.candidate \in BOOLEAN /\ (a.match = 1 => a.candidate)
  BY DEF Answer
<1>3. r \in Flags
  <2> DEFINE m == IF g.match = 0 THEN a.match ELSE g.match
             c == g.candidate \/ a.candidate
  <2>1. m \in 0 .. 2 /\ c \in BOOLEAN
    BY <1>1, <1>2 DEF Flags
  <2>2. r = [g EXCEPT !.match = m, !.candidate = c]
    BY DEF Raised
  <2> HIDE DEF m, c, r
  <2> QED
    BY <1>1, <2>1, <2>2, FlagsChanged
<1>4. /\ r.match = (IF g.match = 0 THEN a.match ELSE g.match)
      /\ r.candidate = (g.candidate \/ a.candidate)
  BY <1>1 DEF Raised, Flags
<1>5. r.match # 0 => r.candidate
  <2>1. r.match # 0 => g.match # 0 \/ a.match = 1
    BY <1>2, <1>4
  <2> QED
    BY <1>1, <1>2, <1>4, <2>1, Zenon
<1>6. q \in Flags /\ q.match = a.match /\ q.candidate = r.candidate
  <2> HIDE DEF r
  <2> QED
    BY <1>2, <1>3 DEF Flags
<1>7. q.match # 0 => q.candidate
  BY <1>2, <1>4, <1>6
<1> QED
  BY <1>3, <1>5, <1>6, <1>7 DEF Sound

LEMMA LoweredSound ==
  ASSUME NEW g \in Sound
  PROVE  /\ Unmatched(g) \in Sound /\ [Unmatched(g) EXCEPT !.late = FALSE] \in Sound
         /\ Cleared(g) \in Sound /\ [Cleared(g) EXCEPT !.late = FALSE] \in Sound
<1>1. g \in Flags
  BY DEF Sound
<1>2. Unmatched(g) \in Flags /\ Unmatched(g).match = 0
  BY <1>1 DEF Flags, Unmatched
<1>3. Cleared(g) \in Flags /\ Cleared(g).match = 0
  <2> DEFINE no == FALSE
  <2>1. Cleared(g) = [g EXCEPT !.match = 0, !.candidate = no] /\ no \in BOOLEAN /\ 0 \in 0 .. 2
    BY DEF Cleared
  <2> HIDE DEF no
  <2>2. Cleared(g) \in Flags
    BY ZenonT(40), <1>1, <2>1, FlagsChanged
  <2>3. Cleared(g).match = 0
    BY <1>1, <2>1 DEF Flags
  <2> QED
    BY <2>2, <2>3
<1>4. \A f \in Flags : f.match = 0 =>
        [f EXCEPT !.late = FALSE] \in Flags /\ [f EXCEPT !.late = FALSE].match = 0
  BY DEF Flags
<1>5. \A f \in Flags : f.match = 0 => f \in Sound
  BY DEF Sound
<1> QED
  BY <1>2, <1>3, <1>4, <1>5

LEMMA EvaluateSound ==
  ASSUME NEW f \in Sound, NEW high, NEW mode
  PROVE  Evaluate(f, high, mode) \subseteq Sound
<1> DEFINE classified == IF f.match = 0 \/ ~f.candidate
                         THEN {Raised(f, a) : a \in InitialClassifier} ELSE {f}
           relaxed == UNION
             {IF g.candidate THEN {g}
              ELSE {[Raised(g, a) EXCEPT !.match = a.match] : a \in FallbackClassifier} :
              g \in classified}
           vetoed == UNION {IF g.match # 0 THEN FirstVeto(g, mode) ELSE {g} : g \in relaxed}
           post == UNION
             {IF g.candidate /\ g.match = 0 THEN PostVeto(g, mode) ELSE {g} : g \in vetoed}
<1>1. \A g \in Sound, a \in Answer : Raised(g, a) \in Sound
  BY RaisedSound
<1>2. classified \subseteq Sound
  BY <1>1 DEF InitialClassifier
<1>3. \A g \in Sound, a \in Answer :
        ~g.candidate => [Raised(g, a) EXCEPT !.match = a.match] \in Sound
  BY RaisedSound
<1>4. relaxed \subseteq Sound
  BY <1>2, <1>3 DEF FallbackClassifier
<1>5. \A g \in Sound : FirstVeto(g, mode) \subseteq Sound
  BY LoweredSound DEF FirstVeto, FirstVetoType12
<1>6. vetoed \subseteq Sound
  BY <1>4, <1>5
<1>7. \A g \in Sound : PostVeto(g, mode) \subseteq Sound
  BY LoweredSound DEF PostVeto, PostVetoType12
<1>8. post \subseteq Sound
  BY <1>6, <1>7
<1>9. UNION {IF g.match = 0 /\ g.late THEN {Raised(g, a) : a \in LateEligibility} ELSE {g} :
             g \in post} \subseteq Sound
  <2> HIDE DEF post
  <2> QED
    BY <1>1, <1>8 DEF LateEligibility
<1> QED
  BY <1>9 DEF Evaluate

LEMMA JudgedSound ==
  ASSUME NEW late \in BOOLEAN, NEW high, NEW mode, NEW packed
  PROVE  Judged(late, high, mode, packed) \subseteq Sound
<1> DEFINE evaluated == UNION {Evaluate(f, high, mode) : f \in InitialFlags(late)}
<1>1. evaluated \subseteq Sound
  BY InitialSound, EvaluateSound
<1>2. \A g \in Sound : ApplyLateVeto(g, packed) \subseteq Sound
  BY LoweredSound DEF ApplyLateVeto
<1> HIDE DEF evaluated
<1>3. UNION {ApplyLateVeto(g, packed) : g \in evaluated} \subseteq Sound
  BY <1>1, <1>2
<1> QED
  BY <1>3 DEF Judged, evaluated

\* Whatever the classifiers answer and the vetoes take away, a feature that is
\* published as a match is published as a candidate (match/policy.c:1003-1111).
LEMMA VerdictSound ==
  ASSUME NEW late \in BOOLEAN, NEW high, NEW mode, NEW packed, NEW histogram
  PROVE  Verdict(late, high, mode, packed, histogram) \subseteq Sound
<1> DEFINE status == UNION {ApplyStatus(f) : f \in Judged(late, high, mode, packed)}
<1>1. \A f \in Sound : ApplyStatus(f) \subseteq Sound
  BY LoweredSound DEF ApplyStatus
<1>2. status \subseteq Sound
  BY <1>1, JudgedSound
<1>3. \A g \in Sound : ApplyFinal(g, high, histogram) \subseteq Sound
  BY LoweredSound DEF ApplyFinal
<1> HIDE DEF status
<1>4. UNION {ApplyFinal(g, high, histogram) : g \in status} \subseteq Sound
  BY <1>2, <1>3
<1> QED
  BY <1>4 DEF Verdict, status

\* ---------------------------------------------------------------------------
\* The order table.

\* The features of the first places of the order table.
Passed(t, p) == {t.order[i] : i \in 1 .. p - 1}

LEMMA PassedFacts ==
  ASSUME NEW t \in Gallery
  PROVE  /\ t.n \in Nat \ {0} /\ t.n <= MaxFeatures /\ MaxFeatures \in Nat
         /\ Passed(t, 1) = {}
         /\ \A p \in 1 .. t.n + 1 : Passed(t, p) \subseteq 0 .. t.n - 1
         /\ \A p \in 1 .. t.n :
              /\ t.order[p] \in 0 .. t.n - 1
              /\ t.order[p] \notin Passed(t, p)
              /\ Passed(t, p) \cup {t.order[p]} = Passed(t, p + 1)
              /\ Passed(t, p) \cup {t.order[p]} \subseteq Passed(t, t.n + 1)
<1>1. /\ t.n \in 1 .. MaxFeatures /\ MaxFeatures \in Nat
      /\ t.order \in [1 .. t.n -> 0 .. t.n - 1]
      /\ \A i, j \in 1 .. t.n : t.order[i] = t.order[j] => i = j
  BY GalleryAssumption DEF IsInjective
<1>2. t.n \in Nat \ {0} /\ t.n <= MaxFeatures
  BY <1>1
<1>3. \A p \in 1 .. t.n + 1 : Passed(t, p) \subseteq 0 .. t.n - 1
  BY <1>1, <1>2 DEF Passed
<1>4. ASSUME NEW p \in 1 .. t.n
      PROVE  /\ t.order[p] \in 0 .. t.n - 1
             /\ t.order[p] \notin Passed(t, p)
             /\ Passed(t, p) \cup {t.order[p]} = Passed(t, p + 1)
             /\ Passed(t, p) \cup {t.order[p]} \subseteq Passed(t, t.n + 1)
  <2>1. t.order[p] \in 0 .. t.n - 1
    BY <1>1
  <2>2. t.order[p] \notin Passed(t, p)
    BY <1>1, <1>2 DEF Passed
  <2>3. 1 .. (p + 1) - 1 = 1 .. p - 1 \cup {p} /\ 1 .. (p + 1) - 1 \subseteq 1 .. (t.n + 1) - 1
    BY <1>2
  <2> QED
    BY <2>1, <2>2, <2>3 DEF Passed
<1>5. Passed(t, 1) = {}
  BY DEF Passed
<1> QED
  BY <1>1, <1>2, <1>3, <1>4, <1>5

\* Two features that differ are at different places, so one is before the other.
LEMMA BeforeTotal ==
  ASSUME template \in Gallery
  PROVE  /\ \A f, g \in Passed(template, template.n + 1) :
              f # g => Before(f, g) \/ Before(g, f)
         /\ \A f, g, h : Before(f, g) /\ Before(g, h) => Before(f, h)
         /\ \A f : ~Before(f, f)
<1>1. /\ template.n \in Nat
      /\ \A i, j \in 1 .. template.n : template.order[i] = template.order[j] => i = j
  <2>1. IsInjective(template.order) /\ DOMAIN template.order = 1 .. template.n
    BY GalleryAssumption
  <2> QED
    BY <2>1, PassedFacts DEF IsInjective
<1>2. ASSUME NEW f \in Passed(template, template.n + 1),
             NEW g \in Passed(template, template.n + 1), f # g
      PROVE  Before(f, g) \/ Before(g, f)
  BY <1>1, <1>2 DEF Passed, Before
<1>3. ASSUME NEW f, NEW g, NEW h, Before(f, g), Before(g, h) PROVE Before(f, h)
  BY <1>1, <1>3 DEF Before
<1>4. ASSUME NEW f, Before(f, f) PROVE FALSE
  BY <1>1, <1>4 DEF Before
<1> QED
  BY <1>2, <1>3, <1>4

\* The rescue names a feature of the set it is found for: among finitely many
\* counts, with the order table between equal ones, there is a best
\* (match/rescue.c:165-192).
LEMMA BestIsOneOf ==
  ASSUME template \in Gallery, NEW a, a # {},
         a \subseteq Passed(template, template.n + 1), \A f \in a : rescue[f] \in Nat
  PROVE  BestOf(a) \in a
<1> DEFINE F == 0 .. template.n - 1
           Beats(f, g) == rescue[f] > rescue[g] \/ (rescue[f] = rescue[g] /\ Before(f, g))
           beaters == [f \in a |-> {g \in a : Beats(g, f)}]
           R == StrictSubsetOrdering(F)
           T == {beaters[f] : f \in a}
<1>1. template.n \in Nat /\ Passed(template, template.n + 1) \subseteq F
  BY PassedFacts
<1>2. IsFiniteSet(F)
  BY <1>1, FS_Interval
<1>3. IsWellFoundedOn(R, SUBSET F)
  BY <1>2, FS_StrictSubsetOrderingWellFounded, FS_FiniteSubsetsOfFinite
<1>4. T \subseteq SUBSET F /\ T # {}
  BY <1>1
<1>5. PICK x \in T : \A y \in T : <<y, x>> \notin R
  <2> HIDE DEF R, T
  <2> QED
    BY <1>3, <1>4, WFMin
<1>6. PICK f \in a : x = beaters[f]
  OBVIOUS
<1>7. ASSUME NEW g \in a, Beats(g, f) PROVE FALSE
  <2>1. \A h \in a : Beats(h, g) => Beats(h, f)
    BY <1>7, BeforeTotal
  <2>2. ~Beats(g, g)
    BY BeforeTotal
  <2>3. beaters[g] \subseteq beaters[f] /\ g \in beaters[f] /\ g \notin beaters[g]
    <3> HIDE DEF Beats
    <3> QED
      BY <1>7, <2>1, <2>2
  <2>4. <<beaters[g], beaters[f]>> \in R
    <3>1. beaters[g] \in SUBSET F /\ beaters[f] \in SUBSET F /\ beaters[g] # beaters[f]
      BY <1>1, <2>3
    <3> HIDE DEF beaters
    <3> QED
      BY <2>3, <3>1 DEF StrictSubsetOrdering
  <2> QED
    BY <1>5, <1>6, <2>4
<1>8. \A g \in a \ {f} : Beats(f, g)
  <2> TAKE g \in a \ {f}
  <2>1. Before(f, g) \/ Before(g, f)
    BY BeforeTotal
  <2>2. rescue[f] \in Nat /\ rescue[g] \in Nat /\ ~Beats(g, f)
    BY <1>7
  <2> QED
    BY <2>1, <2>2
<1> QED
  BY <1>8 DEF BestOf

\* ---------------------------------------------------------------------------
\* What the loop has gathered.  The parameters are the template, the feature
\* that was asked for, the features passed, and the loop's state.

AnyFeature == 0 .. MaxFeatures - 1

Selections ==
  [rejection : BOOLEAN, acceptance : BOOLEAN, activeEvidence : BOOLEAN,
   retained : Seq(AnyFeature), contributors : SUBSET AnyFeature,
   blocked : SUBSET AnyFeature, selected : AnyFeature \cup {None}, numerator : Nat,
   direct : SUBSET AnyFeature, mask : SUBSET AnyFeature]

\* Only features that were passed are in the evidence, and a blocked one only
\* among the contributors and the rows of the rescue.
Gathered(P, s, rows, fb) ==
  /\ s.contributors \subseteq P /\ s.direct \subseteq P /\ ToSet(s.retained) \subseteq P
  /\ fb \subseteq P /\ DOMAIN rows \subseteq P /\ \A f \in DOMAIN rows : rows[f] \in Nat
  /\ s.blocked \subseteq s.contributors
  /\ s.blocked \cap (s.direct \cup ToSet(s.retained) \cup fb) = {}

RetainedOnce(t, s) ==
  IsInjective(s.retained) /\ ToSet(s.retained) \cap t.active = {}

\* Whatever makes the probe a match, or is active, is a direct candidate; the
\* selected feature is one, and has the most records.
Scored(t, s) ==
  /\ s.rejection => s.direct # {}
  /\ s.direct = {} => s.numerator = 0 /\ s.selected = None
  /\ s.direct # {} => s.numerator > 0 /\ s.selected \in s.direct
  /\ s.activeEvidence => s.direct \cap t.active # {}

\* The winner is the selected feature whenever that one could be.
Related(t, s, w) ==
  /\ w.count \in Nat /\ w.count <= s.numerator
  /\ w.feature # None => w.feature \in s.direct /\ s.activeEvidence
  /\ s.selected \in t.active \cap t.routed => w.feature = s.selected /\ w.count = s.numerator

AskedOnly(k, s) ==
  k # None => s.contributors \cup s.direct \cup ToSet(s.retained) \subseteq {k}

Evidence(t, k, P, s, w, rows, fb) ==
  /\ s \in Selections /\ Gathered(P, s, rows, fb) /\ RetainedOnce(t, s)
  /\ Scored(t, s) /\ Related(t, s, w) /\ AskedOnly(k, s)

Contexts ==
  [high : 0 .. 5, low : 0 .. 3, histogram : Nat, gate : BOOLEAN, raised : BOOLEAN,
   refused : Nat, blocking : BOOLEAN, mode : 0 .. 5, packed : BOOLEAN, late : BOOLEAN]

Loop ==
  /\ pc \in {"idle", "matching", "done"} /\ template \in Gallery
  /\ trigger \in {None} \cup Features /\ pos \in 1 .. template.n + 1
  /\ context \in Contexts /\ context.refused <= pos - 1
  /\ pc = "matching" => selection.mask = selection.direct

Gathering ==
  Evidence(template, trigger, Passed(template, pos), selection, winner, rescue, fallback)

IInv ==
  /\ Loop /\ Gathering /\ result \in Outcome
  /\ StudyContract /\ RelationOfMatched /\ BlockedLeavesNoTrace

\* ---------------------------------------------------------------------------
\* The beginning of a call.

LEMMA NothingGathered ==
  ASSUME NEW t, NEW k
  PROVE  Evidence(t, k, {}, NoSelection, NoWinner, << >>, {})
<1>1. NoSelection \in Selections
  BY DEF NoSelection, Selections
<1>2. ToSet(NoSelection.retained) = {} /\ IsInjective(NoSelection.retained)
  BY DEF NoSelection, ToSet, IsInjective
<1> QED
  BY <1>1, <1>2, MatchAssumption
     DEF Evidence, Gathered, RetainedOnce, Scored, Related, AskedOnly, NoSelection, NoWinner

LEMMA NoResultTyped == NoResult \in Outcome
  BY DEF NoResult, Outcome

LEMMA InvInit == Init => IInv
<1> SUFFICES ASSUME Init PROVE IInv
  OBVIOUS
<1>1. template.n \in Nat \ {0} /\ Passed(template, pos) = {}
  BY PassedFacts DEF Init
<1>2. Loop
  BY <1>1 DEF Init, Loop, Contexts, NoSelection
<1> QED
  BY <1>1, <1>2, NothingGathered, NoResultTyped
     DEF Init, IInv, Gathering, StudyContract, RelationOfMatched, BlockedLeavesNoTrace

LEMMA BeginStep ==
  ASSUME IInv, Begin
  PROVE  IInv'
<1>1. PICK t \in Gallery, p \in Probe :
        \E asked \in {None} \cup (0 .. t.n - 1) :
          /\ template' = t /\ trigger' = asked
          /\ context' = Opening(p, asked # None)
  BY DEF Begin
<1>2. PICK asked \in {None} \cup (0 .. t.n - 1) :
        /\ template' = t /\ trigger' = asked
        /\ context' = Opening(p, asked # None)
  BY <1>1
<1>3. /\ pc' = "matching" /\ pos' = 1 /\ selection' = NoSelection /\ winner' = NoWinner
      /\ rescue' = << >> /\ fallback' = {} /\ result' = NoResult
  BY DEF Begin
<1>4. t.n \in Nat \ {0} /\ Passed(t, 1) = {}
  BY PassedFacts
<1>5. p \in [high : 0 .. 5, low : 0 .. 3, histogram : Nat, severe : BOOLEAN,
            antifake : BOOLEAN]
  BY GalleryAssumption
<1>6. context' \in Contexts /\ context'.refused = 0
  BY <1>2, <1>5 DEF Opening, Contexts
<1>7. Loop'
  BY <1>2, <1>3, <1>4, <1>6 DEF Loop, Features, NoSelection
<1>8. Gathering'
  BY <1>2, <1>3, <1>4, NothingGathered DEF Gathering
<1>9. (StudyContract /\ RelationOfMatched /\ BlockedLeavesNoTrace)'
  BY <1>3 DEF StudyContract, RelationOfMatched, BlockedLeavesNoTrace
<1> QED
  BY <1>3, <1>7, <1>8, <1>9, NoResultTyped DEF IInv

\* ---------------------------------------------------------------------------
\* A feature of the order table.

LEMMA EvidenceGrows ==
  ASSUME NEW t, NEW k, NEW P, NEW s, NEW w, NEW rows, NEW fb,
         Evidence(t, k, P, s, w, rows, fb), NEW Q, P \subseteq Q
  PROVE  Evidence(t, k, Q, s, w, rows, fb)
  BY DEF Evidence, Gathered

\* A feature that gives no evidence may leave a row, or be looked at again.
LEMMA NoEvidence ==
  ASSUME NEW t, NEW k, NEW P, NEW s, NEW w, NEW rows, NEW fb, NEW f,
         Evidence(t, k, P, s, w, rows, fb), f \notin P,
         NEW rows2, DOMAIN rows2 \subseteq P \cup {f}, \A g \in DOMAIN rows2 : rows2[g] \in Nat,
         NEW fb2, fb2 \subseteq fb \cup {f}
  PROVE  Evidence(t, k, P \cup {f}, s, w, rows2, fb2)
  BY DEF Evidence, Gathered

\* The loop goes on, or ends, after the evidence of one more feature.
LEMMA LoopStep ==
  ASSUME IInv, pc = "matching", pos <= template.n,
         UNCHANGED <<pc, template, trigger, result>>, pos' = pos + 1 \/ pos' = template.n + 1,
         context' \in Contexts, context'.refused <= pos, selection'.mask = selection'.direct,
         Evidence(template, trigger, Passed(template, pos) \cup {Feature},
                  selection', winner', rescue', fallback')
  PROVE  IInv'
<1>1. template \in Gallery /\ pos \in 1 .. template.n /\ template.n \in Nat
      /\ trigger \in {None} \cup Features /\ result \in Outcome
  BY PassedFacts DEF IInv, Loop
<1>2. pos' \in 1 .. template.n + 1 /\ pos <= pos' - 1
  BY <1>1
<1>3. Passed(template, pos) \cup {Feature} \subseteq Passed(template, pos')
  BY <1>1, PassedFacts DEF Feature
<1>4. Gathering'
  <2>1. Evidence(template, trigger, Passed(template, pos'), selection', winner', rescue',
                 fallback')
    BY <1>3, EvidenceGrows
  <2> QED
    BY <2>1 DEF Gathering
<1>5. context'.refused <= pos' - 1
  BY <1>1, <1>2 DEF Contexts
<1>6. Loop'
  BY <1>1, <1>2, <1>5 DEF Loop, Features
<1>7. (StudyContract /\ RelationOfMatched /\ BlockedLeavesNoTrace)'
  BY DEF StudyContract, RelationOfMatched, BlockedLeavesNoTrace
<1> QED
  BY <1>1, <1>4, <1>6, <1>7 DEF IInv

\* What every step of the loop starts from.
LEMMA Looks ==
  ASSUME IInv, Looking
  PROVE  /\ pc = "matching" /\ pos <= template.n /\ pos \in Nat
         /\ selection.mask = selection.direct
         /\ context \in Contexts /\ context.refused <= pos - 1
         /\ Feature \in Features /\ Features \subseteq AnyFeature
         /\ Feature \notin Passed(template, pos)
         /\ Evidence(template, trigger, Passed(template, pos), selection, winner, rescue,
                     fallback)
         /\ DOMAIN rescue \subseteq Passed(template, pos)
         /\ \A g \in DOMAIN rescue : rescue[g] \in Nat
<1>1. template \in Gallery /\ pos \in 1 .. template.n + 1 /\ pos <= template.n
  BY DEF IInv, Loop, Looking
<1>2. /\ template.n \in Nat \ {0} /\ template.n <= MaxFeatures /\ MaxFeatures \in Nat
      /\ \A p \in 1 .. template.n :
           template.order[p] \in 0 .. template.n - 1 /\ template.order[p] \notin Passed(template, p)
  BY <1>1, PassedFacts
<1>3. pos \in 1 .. template.n
  BY <1>1, <1>2
<1>4. Feature \in Features /\ Feature \notin Passed(template, pos)
  BY <1>2, <1>3 DEF Feature, Features
<1>5. Features \subseteq AnyFeature
  BY <1>2 DEF Features, AnyFeature
<1>6. Evidence(template, trigger, Passed(template, pos), selection, winner, rescue, fallback)
  BY DEF IInv, Gathering
<1>7. /\ DOMAIN rescue \subseteq Passed(template, pos)
      /\ \A g \in DOMAIN rescue : rescue[g] \in Nat
  BY <1>6 DEF Evidence, Gathered
<1>8. /\ pc = "matching" /\ selection.mask = selection.direct
      /\ context \in Contexts /\ context.refused <= pos - 1
  BY DEF IInv, Loop, Looking
<1> QED
  BY <1>3, <1>4, <1>5, <1>6, <1>7, <1>8

LEMMA ContextsChanged ==
  ASSUME NEW c \in Contexts, NEW l \in BOOLEAN
  PROVE  /\ [c EXCEPT !.late = l] \in Contexts /\ [c EXCEPT !.late = l].refused = c.refused
         /\ [c EXCEPT !.refused = @ + 1, !.late = l] \in Contexts
         /\ [c EXCEPT !.refused = @ + 1, !.late = l].refused = c.refused + 1
<1>1. [c EXCEPT !.late = l] \in Contexts /\ [c EXCEPT !.late = l].refused = c.refused
  BY DEF Contexts
<1>2. ASSUME NEW n \in Nat
      PROVE  /\ [c EXCEPT !.refused = n, !.late = l] \in Contexts
             /\ [c EXCEPT !.refused = n, !.late = l].refused = n
  BY DEF Contexts
<1>3. c.refused + 1 \in Nat
  BY DEF Contexts
<1> QED
  BY <1>1, <1>2, <1>3

LEMMA EnteredTyped ==
  ASSUME context \in Contexts, template \in Gallery, NEW f \in Features
  PROVE  /\ Derived(f) \in Contexts /\ Derived(f).refused = context.refused
         /\ Entered(f) \in Contexts /\ Entered(f).refused = context.refused
<1>1. template.class[f] \in 0 .. 5
  BY GalleryAssumption DEF Features
<1>2. Derived(f) \in Contexts /\ Derived(f).refused = context.refused
  BY <1>1 DEF Derived, Contexts
<1>3. ASSUME NEW c \in Contexts, Raises(c)
      PROVE  /\ [c EXCEPT !.high = @ + 1, !.raised = TRUE, !.gate = FALSE] \in Contexts
             /\ [c EXCEPT !.high = @ + 1, !.raised = TRUE, !.gate = FALSE].refused = c.refused
  <2> DEFINE yes == TRUE
             no == FALSE
             high == c.high + 1
             e == [c EXCEPT !.high = high, !.raised = yes, !.gate = no]
  <2>1. high \in 0 .. 5 /\ yes \in BOOLEAN /\ no \in BOOLEAN
    BY <1>3 DEF Raises, Contexts
  <2>2. [c EXCEPT !.high = @ + 1, !.raised = TRUE, !.gate = FALSE] = e
    OBVIOUS
  <2>3. e \in Contexts /\ e.refused = c.refused
    <3> HIDE DEF yes, no, high
    <3> QED
      BY <2>1 DEF Contexts
  <2> HIDE DEF e
  <2> QED
    BY <2>2, <2>3
<1> QED
  BY <1>2, <1>3 DEF Entered

LEMMA RecordedTyped ==
  ASSUME NEW f, NEW count \in Counts
  PROVE  /\ DOMAIN Recorded(f, count) = DOMAIN rescue \cup {f}
         /\ \A g \in DOMAIN rescue :
              Recorded(f, count)[g] = rescue[g] \/ Recorded(f, count)[g] \in Nat
         /\ Recorded(f, count)[f] \in Nat /\ count \in Nat \ {0}
  BY MatchAssumption DEF Recorded

LEMMA QuietStep ==
  ASSUME IInv, Looking, UNCHANGED <<pc, template, trigger, selection, winner, result>>,
         pos' = pos + 1 \/ pos' = template.n + 1, context' \in Contexts, context'.refused <= pos,
         DOMAIN rescue' \subseteq DOMAIN rescue \cup {Feature},
         \A g \in DOMAIN rescue' : rescue'[g] \in Nat,
         fallback' \subseteq fallback \cup {Feature}
  PROVE  IInv'
<1>1. Evidence(template, trigger, Passed(template, pos) \cup {Feature}, selection, winner,
               rescue', fallback')
  BY Looks, NoEvidence
<1>2. Evidence(template, trigger, Passed(template, pos) \cup {Feature}, selection', winner',
               rescue', fallback')
  BY <1>1
<1> QED
  BY <1>2, Looks, LoopStep

LEMMA SkipStep == ASSUME IInv, Skip PROVE IInv'
  BY Looks, QuietStep DEF Skip, Contexts

LEMMA GiveUpStep == ASSUME IInv, GiveUp PROVE IInv'
<1>1. template \in Gallery /\ Looking
  BY DEF IInv, Loop, GiveUp
<1>2. context' \in Contexts /\ context'.refused = context.refused
  BY <1>1, Looks, EnteredTyped DEF GiveUp
<1> QED
  BY <1>1, <1>2, Looks, QuietStep DEF GiveUp, Contexts

\* Entered with a feature, which may be learnt from or not.
LEMMA Enters ==
  ASSUME IInv, NEW f \in Features, Enter(f)
  PROVE  /\ Looking /\ f = Feature /\ template \in Gallery
         /\ Entered(f) \in Contexts /\ Entered(f).refused = context.refused
         /\ trigger # None => f = trigger
<1>1. Looking /\ f = Feature /\ template \in Gallery
  BY DEF IInv, Loop, Enter
<1>2. trigger # None => f = trigger
  BY <1>1 DEF Enter, Skipped, AllFeatures
<1> QED
  BY <1>1, <1>2, Looks, EnteredTyped

LEMMA UnlikeStep ==
  ASSUME IInv, NEW f \in Features, Unlike(f) \/ Sparse(f)
  PROVE  IInv'
<1>1. Looking /\ f = Feature /\ Entered(f) \in Contexts /\ Entered(f).refused = context.refused
  BY Enters DEF Unlike, Sparse
<1>2. context' \in Contexts /\ context'.refused <= pos
  BY <1>1, Looks DEF Unlike, Sparse, Contexts
<1>3. fallback' \subseteq fallback \cup {Feature}
  BY <1>1 DEF Unlike, Sparse
<1> QED
  BY <1>1, <1>2, <1>3, Looks, QuietStep DEF Unlike, Sparse

LEMMA VetoStep ==
  ASSUME IInv, NEW f \in Features, NEW count \in Counts, Veto(f, count) \/ Refuse(f, count)
  PROVE  IInv'
<1>1. Looking /\ f = Feature /\ Entered(f) \in Contexts /\ Entered(f).refused = context.refused
  BY Enters DEF Veto, Refuse
<1>2. context' \in Contexts /\ context'.refused <= pos
  <2>1. CASE Veto(f, count)
    BY <1>1, <2>1, Looks DEF Veto, Contexts
  <2>2. CASE Refuse(f, count)
    <3>1. PICK v \in Judged(context.late, Entered(f).high, context.mode, context.packed) :
            context' = [Entered(f) EXCEPT !.refused = @ + 1, !.late = v.late]
      BY <2>2 DEF Refuse
    <3>2. v.late \in BOOLEAN
      BY <1>1, Looks, JudgedSound DEF Contexts, Sound, Flags
    <3>3. context' \in Contexts /\ context'.refused = context.refused + 1
      BY <1>1, <3>1, <3>2, ContextsChanged
    <3> QED
      BY <1>1, <3>3, Looks DEF Contexts
  <2> QED
    BY <2>1, <2>2
<1>3. /\ DOMAIN rescue' = DOMAIN rescue \cup {Feature}
      /\ \A g \in DOMAIN rescue' : rescue'[g] \in Nat
  <2>1. rescue' = Recorded(f, count)
    BY DEF Veto, Refuse
  <2>2. /\ DOMAIN rescue' = DOMAIN rescue \cup {f} /\ rescue'[f] \in Nat
        /\ \A g \in DOMAIN rescue : rescue'[g] = rescue[g] \/ rescue'[g] \in Nat
    BY <2>1, RecordedTyped DEF Recorded
  <2>3. \A g \in DOMAIN rescue : rescue[g] \in Nat
    BY <1>1, Looks
  <2> QED
    BY <1>1, <2>2, <2>3
<1> QED
  BY <1>1, <1>2, <1>3, Looks, QuietStep DEF Veto, Refuse

\* ---------------------------------------------------------------------------
\* A feature that is published.

LEMMA AppendOnce ==
  ASSUME NEW S, NEW q \in Seq(S), NEW f \in S
  PROVE  /\ Append(q, f) \in Seq(S) /\ ToSet(Append(q, f)) = ToSet(q) \cup {f}
         /\ IsInjective(q) /\ f \notin ToSet(q) => IsInjective(Append(q, f))
<1>1. /\ Append(q, f) \in Seq(S) /\ Len(q) \in Nat /\ DOMAIN q = 1 .. Len(q)
      /\ DOMAIN Append(q, f) = 1 .. Len(q) + 1
      /\ Append(q, f)[Len(q) + 1] = f /\ \A i \in 1 .. Len(q) : Append(q, f)[i] = q[i]
  OBVIOUS
<1>2. 1 .. Len(q) + 1 = 1 .. Len(q) \cup {Len(q) + 1}
  BY <1>1
<1> HIDE DEF Append
<1>3. ToSet(Append(q, f)) = ToSet(q) \cup {f}
  BY <1>1, <1>2 DEF ToSet
<1>4. ASSUME IsInjective(q), f \notin ToSet(q) PROVE IsInjective(Append(q, f))
  <2>1. \A i \in 1 .. Len(q) : q[i] # f
    BY <1>1, <1>4 DEF ToSet
  <2>2. \A i, j \in 1 .. Len(q) : q[i] = q[j] => i = j
    BY <1>1, <1>4 DEF IsInjective
  <2> QED
    BY <1>1, <1>2, <2>1, <2>2 DEF IsInjective
<1> QED
  BY <1>1, <1>3, <1>4

\* The counters and marks a contribution and a block leave alone.
LEMMA Contributed ==
  ASSUME NEW s \in Selections, NEW f \in AnyFeature
  PROVE  LET c == Contribute(s, f) b == Block(s, f)
         IN  /\ c \in Selections /\ b \in Selections
             /\ c.contributors = s.contributors \cup {f} /\ c.blocked = s.blocked
             /\ b.contributors = s.contributors /\ b.blocked = s.blocked \cup {f}
             /\ \A r \in {c, b} :
                  /\ r.rejection = s.rejection /\ r.activeEvidence = s.activeEvidence
                  /\ r.retained = s.retained /\ r.selected = s.selected
                  /\ r.numerator = s.numerator /\ r.direct = s.direct /\ r.mask = s.mask
  BY DEF Contribute, Block, Selections

\* What the admission of a feature changes.
LEMMA AdmitFields ==
  ASSUME NEW s \in Selections, NEW f \in AnyFeature, NEW v \in Sound, NEW count \in Nat,
         NEW kept \in BOOLEAN
  PROVE  LET a == Admit(s, f, v, count, kept)
         IN  /\ a \in Selections
             /\ a.contributors = s.contributors /\ a.blocked = s.blocked
             /\ a.rejection => s.rejection \/ v.candidate
             /\ a.activeEvidence => s.activeEvidence \/ (Active(f) /\ v.candidate)
             /\ v.candidate /\ Active(f) => a.activeEvidence
             /\ s.activeEvidence => a.activeEvidence
             /\ \/ a.retained = s.retained
                \/ ~Active(f) /\ a.retained = Append(s.retained, f)
             /\ v.candidate => /\ a.direct = s.direct \cup {f} /\ a.mask = s.mask \cup {f}
                               /\ a.selected = (IF count > s.numerator THEN f ELSE s.selected)
                               /\ a.numerator = (IF count > s.numerator THEN count
                                                 ELSE s.numerator)
             /\ ~v.candidate => /\ a.direct = s.direct /\ a.mask = s.mask
                                /\ a.selected = s.selected /\ a.numerator = s.numerator
<1> DEFINE seen == [s EXCEPT !.rejection = @ \/ v.match # 0]
           retained == [seen EXCEPT
             !.activeEvidence = @ \/ (Active(f) /\ v.candidate),
             !.retained = IF Active(f) THEN @ ELSE Append(@, f)]
           replaces == count > s.numerator
           direct == [retained EXCEPT
             !.acceptance = TRUE,
             !.selected = IF replaces THEN f ELSE @,
             !.numerator = IF replaces THEN count ELSE @,
             !.direct = @ \cup {f}, !.mask = @ \cup {f}]
           Same(r) == /\ r.contributors = s.contributors /\ r.blocked = s.blocked
                      /\ r.direct = s.direct /\ r.mask = s.mask
                      /\ r.selected = s.selected /\ r.numerator = s.numerator
<1>1. Admit(s, f, v, count, kept) =
        IF v.candidate THEN direct ELSE IF kept THEN retained ELSE seen
  BY DEF Admit
<1>2. v.match # 0 => v.candidate
  BY DEF Sound
<1>3. /\ seen \in Selections /\ Same(seen) /\ seen.retained = s.retained
      /\ seen.activeEvidence = s.activeEvidence
      /\ seen.rejection = (s.rejection \/ v.match # 0)
  BY DEF Selections
<1> HIDE DEF seen
<1>4. retained \in Selections
  <2>1. Append(seen.retained, f) \in Seq(AnyFeature) /\ seen.retained \in Seq(AnyFeature)
    BY <1>3, AppendOnce DEF Selections
  <2> DEFINE q == IF Active(f) THEN seen.retained ELSE Append(seen.retained, f)
             e == seen.activeEvidence \/ (Active(f) /\ v.candidate)
  <2>2. q \in Seq(AnyFeature) /\ e \in BOOLEAN
    BY <2>1
  <2>3. retained = [seen EXCEPT !.activeEvidence = e, !.retained = q]
    OBVIOUS
  <2> HIDE DEF q, e, retained
  <2> QED
    BY <1>3, <2>2, <2>3 DEF Selections
<1>5. /\ Same(retained)
      /\ retained.activeEvidence = (s.activeEvidence \/ (Active(f) /\ v.candidate))
      /\ retained.retained = (IF Active(f) THEN s.retained ELSE Append(s.retained, f))
      /\ retained.rejection = (s.rejection \/ v.match # 0)
  BY <1>3 DEF Selections
<1> HIDE DEF retained
<1>6. direct \in Selections
  BY <1>4 DEF Selections
<1>7. /\ direct.contributors = s.contributors /\ direct.blocked = s.blocked
      /\ direct.rejection = retained.rejection
      /\ direct.activeEvidence = retained.activeEvidence
      /\ direct.retained = retained.retained
      /\ direct.direct = s.direct \cup {f} /\ direct.mask = s.mask \cup {f}
      /\ direct.selected = (IF replaces THEN f ELSE s.selected)
      /\ direct.numerator = (IF replaces THEN count ELSE s.numerator)
  BY <1>4, <1>5 DEF Selections
<1> HIDE DEF direct
<1> QED
  BY <1>1, <1>2, <1>3, <1>4, <1>5, <1>6, <1>7

\* A feature that contributes, when it does, and is blocked.
LEMMA BlockedEvidence ==
  ASSUME NEW t, NEW k, NEW P, NEW s, NEW w, NEW rows, NEW fb,
         Evidence(t, k, P, s, w, rows, fb), NEW f \in AnyFeature, f \notin P,
         k # None => f = k
  PROVE  /\ Evidence(t, k, P \cup {f}, Contribute(s, f), w, rows, fb)
         /\ Evidence(t, k, P \cup {f}, Block(Contribute(s, f), f), w, rows, fb)
<1> DEFINE c == Contribute(s, f)
           b == Block(c, f)
<1>1. s \in Selections /\ Gathered(P, s, rows, fb) /\ RetainedOnce(t, s) /\ Scored(t, s)
      /\ Related(t, s, w) /\ AskedOnly(k, s)
  BY DEF Evidence
<1>2. /\ c \in Selections /\ c.contributors = s.contributors \cup {f}
      /\ c.blocked = s.blocked /\ c.rejection = s.rejection
      /\ c.activeEvidence = s.activeEvidence /\ c.retained = s.retained
      /\ c.selected = s.selected /\ c.numerator = s.numerator /\ c.direct = s.direct
  BY <1>1, Contributed
<1>3. /\ b \in Selections /\ b.contributors = s.contributors \cup {f}
      /\ b.blocked = s.blocked \cup {f} /\ b.rejection = s.rejection
      /\ b.activeEvidence = s.activeEvidence /\ b.retained = s.retained
      /\ b.selected = s.selected /\ b.numerator = s.numerator /\ b.direct = s.direct
  <2> HIDE DEF c
  <2> QED
    BY <1>2, Contributed
<1> HIDE DEF c, b
<1>4. Gathered(P \cup {f}, c, rows, fb) /\ Gathered(P \cup {f}, b, rows, fb)
  BY <1>1, <1>2, <1>3 DEF Gathered
<1>5. RetainedOnce(t, c) /\ RetainedOnce(t, b) /\ Scored(t, c) /\ Scored(t, b)
  BY <1>1, <1>2, <1>3 DEF RetainedOnce, Scored
<1>6. Related(t, c, w) /\ Related(t, b, w)
  BY <1>1, <1>2, <1>3 DEF Related
<1>7. AskedOnly(k, c) /\ AskedOnly(k, b)
  BY <1>1, <1>2, <1>3 DEF AskedOnly
<1> QED
  BY <1>2, <1>3, <1>4, <1>5, <1>6, <1>7 DEF Evidence, c, b

\* A feature that is admitted: the score and the relation follow it alike.
LEMMA AdmittedEvidence ==
  ASSUME NEW k, NEW P, NEW s, NEW w, NEW rows, NEW fb, NEW f \in AnyFeature,
         Evidence(template, k, P \cup {f}, s, w, rows, fb),
         f \notin s.blocked, f \notin s.direct, f \notin ToSet(s.retained), f \notin fb,
         k # None => f = k,
         NEW v \in Sound, NEW count \in Nat \ {0}, NEW kept \in BOOLEAN,
         NEW fb2, fb2 \subseteq fb \cup {f}
  PROVE  Evidence(template, k, P \cup {f}, Admit(s, f, v, count, kept),
                  IF v.candidate THEN BetterWinner(w, f, count) ELSE w, rows, fb2)
<1> DEFINE a == Admit(s, f, v, count, kept)
           ww == IF v.candidate THEN BetterWinner(w, f, count) ELSE w
<1>1. s \in Selections /\ Gathered(P \cup {f}, s, rows, fb) /\ RetainedOnce(template, s)
      /\ Scored(template, s) /\ Related(template, s, w) /\ AskedOnly(k, s)
  BY DEF Evidence
<1>2. /\ a \in Selections
      /\ a.contributors = s.contributors /\ a.blocked = s.blocked
      /\ a.rejection => s.rejection \/ v.candidate
      /\ a.activeEvidence => s.activeEvidence \/ (Active(f) /\ v.candidate)
      /\ v.candidate /\ Active(f) => a.activeEvidence
      /\ s.activeEvidence => a.activeEvidence
  BY <1>1, AdmitFields
<1>3. /\ v.candidate => /\ a.direct = s.direct \cup {f} /\ a.mask = s.mask \cup {f}
                        /\ a.selected = (IF count > s.numerator THEN f ELSE s.selected)
                        /\ a.numerator = (IF count > s.numerator THEN count ELSE s.numerator)
      /\ ~v.candidate => /\ a.direct = s.direct /\ a.mask = s.mask
                         /\ a.selected = s.selected /\ a.numerator = s.numerator
  BY <1>1, AdmitFields
<1>4. \/ a.retained = s.retained
      \/ f \notin template.active /\ a.retained = Append(s.retained, f)
  <2>1. a.retained = s.retained \/ (~Active(f) /\ a.retained = Append(s.retained, f))
    BY <1>1, AdmitFields
  <2> QED
    BY <2>1 DEF Active
<1>5. s.retained \in Seq(AnyFeature) /\ s.numerator \in Nat /\ s.activeEvidence \in BOOLEAN
  BY <1>1 DEF Selections
<1>6. /\ ToSet(s.retained) \subseteq ToSet(a.retained)
      /\ ToSet(a.retained) \subseteq ToSet(s.retained) \cup {f}
      /\ RetainedOnce(template, a)
  <2>1. CASE a.retained = s.retained
    BY <1>1, <2>1 DEF RetainedOnce
  <2>2. CASE f \notin template.active /\ a.retained = Append(s.retained, f)
    <3>1. ToSet(a.retained) = ToSet(s.retained) \cup {f} /\ IsInjective(a.retained)
      BY <1>1, <1>5, <2>2, AppendOnce DEF RetainedOnce
    <3> QED
      BY <1>1, <2>2, <3>1 DEF RetainedOnce
  <2> QED
    BY <1>4, <2>1, <2>2
<1>7. v.candidate \in BOOLEAN
  BY DEF Sound, Flags
<1> HIDE DEF a
<1>8. s.direct \subseteq a.direct /\ a.direct \subseteq s.direct \cup {f}
  BY <1>3, <1>7
<1>9. Gathered(P \cup {f}, a, rows, fb2)
  BY <1>1, <1>2, <1>6, <1>8 DEF Gathered
<1>10. Scored(template, a)
  <2>1. CASE v.candidate
    <3>1. a.direct # {} /\ f \in a.direct
      BY <1>3, <2>1
    <3>2. a.numerator > 0 /\ a.selected \in a.direct
      BY <1>1, <1>3, <1>5, <2>1 DEF Scored
    <3>3. a.activeEvidence => a.direct \cap template.active # {}
      BY <1>1, <1>2, <1>3, <2>1 DEF Scored, Active
    <3> QED
      BY <3>1, <3>2, <3>3 DEF Scored
  <2>2. CASE ~v.candidate
    BY <1>1, <1>2, <1>3, <2>2 DEF Scored
  <2> QED
    BY <1>7, <2>1, <2>2
<1>11. Related(template, a, ww)
  <2>1. CASE ~v.candidate
    BY <1>1, <1>2, <1>3, <2>1 DEF Related
  <2>2. CASE v.candidate
    <3>1. /\ w.count \in Nat /\ w.count <= s.numerator
          /\ w.feature # None => w.feature \in s.direct /\ s.activeEvidence
          /\ s.selected \in template.active \cap template.routed
               => w.feature = s.selected /\ w.count = s.numerator
      BY <1>1 DEF Related
    <3>2. ww = (IF f \in template.active /\ count > w.count /\ f \in template.routed
                THEN [feature |-> f, count |-> count] ELSE w)
      BY <2>2 DEF BetterWinner, Active
    <3> HIDE DEF ww
    <3>3. ww.count \in Nat /\ ww.count <= a.numerator
      BY <1>3, <1>5, <2>2, <3>1, <3>2
    <3>4. ww.feature # None => ww.feature \in a.direct /\ a.activeEvidence
      BY <1>2, <1>3, <2>2, <3>1, <3>2 DEF Active
    <3>5. a.selected \in template.active \cap template.routed
            => ww.feature = a.selected /\ ww.count = a.numerator
      BY <1>3, <1>5, <2>2, <3>1, <3>2
    <3> QED
      BY <3>3, <3>4, <3>5 DEF Related
  <2> QED
    BY <1>7, <2>1, <2>2
<1>12. AskedOnly(k, a)
  BY <1>1, <1>2, <1>6, <1>8 DEF AskedOnly
<1> QED
  BY <1>2, <1>6, <1>9, <1>10, <1>11, <1>12 DEF Evidence, a

LEMMA PublishStep ==
  ASSUME IInv, NEW f \in Features, NEW count \in Counts,
         NEW v \in Verdict(context.late, Entered(f).high, context.mode, context.packed,
                           context.histogram),
         NEW meets \in BOOLEAN, NEW kept \in BOOLEAN, NEW foul \in BOOLEAN,
         Publish(f, v, count, meets, kept, foul)
  PROVE  IInv'
<1> DEFINE P == Passed(template, pos)
           contributes == v.candidate \/ meets
           s == IF contributes THEN Contribute(selection, f) ELSE selection
           c == [Entered(f) EXCEPT !.late = v.late]
           blocked == foul /\ contributes /\ c.blocking
           admitted == Admit(s, f, v, count, kept)
           ends == v.candidate /\ ~c.gate
           rows == Recorded(f, count)
<1>1. /\ Enter(f) /\ context' = c /\ rescue' = rows
      /\ UNCHANGED <<pc, template, trigger, result>>
  BY DEF Publish
<1>2. /\ blocked => /\ selection' = Block(s, f) /\ pos' = pos + 1
                    /\ winner' = winner /\ fallback' = fallback
      /\ ~blocked =>
           /\ selection' = admitted
           /\ winner' = (IF v.candidate THEN BetterWinner(winner, f, count) ELSE winner)
           /\ pos' = pos + 1 \/ pos' = template.n + 1
           /\ fallback' \subseteq fallback \cup {f}
  BY DEF Publish
<1>3. /\ Looking /\ f = Feature /\ Entered(f) \in Contexts
      /\ Entered(f).refused = context.refused /\ (trigger # None => f = trigger)
  BY <1>1, Enters
<1>4. /\ pc = "matching" /\ pos <= template.n /\ pos \in Nat /\ f \in AnyFeature /\ f \notin P
      /\ selection.mask = selection.direct /\ context \in Contexts /\ context.refused <= pos - 1
      /\ Evidence(template, trigger, P, selection, winner, rescue, fallback)
      /\ DOMAIN rescue \subseteq P /\ \A g \in DOMAIN rescue : rescue[g] \in Nat
  BY <1>3, Looks
<1>5. v \in Sound
  BY <1>4, VerdictSound DEF Contexts
<1>6. context' \in Contexts /\ context'.refused <= pos
  <2>1. v.late \in BOOLEAN
    BY <1>5 DEF Sound, Flags
  <2>2. c \in Contexts /\ c.refused = Entered(f).refused
    BY <1>3, <2>1, ContextsChanged
  <2>3. context' \in Contexts /\ context'.refused = context.refused
    <3> HIDE DEF c
    <3> QED
      BY <1>1, <1>3, <2>2
  <2> QED
    BY <1>4, <2>3 DEF Contexts
<1>7. DOMAIN rows \subseteq P \cup {f} /\ (\A g \in DOMAIN rows : rows[g] \in Nat)
      /\ count \in Nat \ {0}
  <2>1. /\ DOMAIN rows = DOMAIN rescue \cup {f} /\ rows[f] \in Nat /\ count \in Nat \ {0}
        /\ \A g \in DOMAIN rescue : rows[g] = rescue[g] \/ rows[g] \in Nat
    BY RecordedTyped
  <2> HIDE DEF rows, P
  <2> QED
    BY <1>4, <2>1
<1> HIDE DEF rows, P, c
<1>8. Evidence(template, trigger, P, selection, winner, rescue, fallback)
      /\ Evidence(template, trigger, P \cup {f}, selection, winner, rows, fallback)
  BY <1>4, <1>7, NoEvidence
<1>9. \A q \in {selection, Contribute(selection, f)} :
        Evidence(template, trigger, P \cup {f}, q, winner, rows, fallback)
  <2>1. Evidence(template, trigger, P \cup {f}, Contribute(selection, f), winner, rows, fallback)
    <3>1. Evidence(template, trigger, P \cup {f}, Contribute(selection, f), winner, rescue,
                   fallback)
      BY <1>3, <1>4, <1>8, BlockedEvidence
    <3> QED
      BY <3>1, <1>7 DEF Evidence, Gathered
  <2> QED
    BY <1>8, <2>1
<1>10. selection \in Selections /\ Gathered(P, selection, rescue, fallback)
  BY <1>8 DEF Evidence
<1>11. /\ s.blocked = selection.blocked /\ s.direct = selection.direct
       /\ s.retained = selection.retained /\ s.mask = selection.mask
       /\ s \in {selection, Contribute(selection, f)} /\ s \in Selections
  BY <1>4, <1>10, Contributed
<1>12. CASE blocked
  <2>1. s = Contribute(selection, f)
    BY <1>12
  <2>2. selection'.mask = selection'.direct
    BY <1>2, <1>4, <1>11, <1>12, Contributed
  <2>3. Evidence(template, trigger, P \cup {f}, selection', winner', rescue', fallback')
    <3>1. Evidence(template, trigger, P \cup {f}, Block(Contribute(selection, f), f), winner,
                   rescue, fallback)
      BY <1>3, <1>4, <1>8, BlockedEvidence
    <3>2. Evidence(template, trigger, P \cup {f}, Block(Contribute(selection, f), f), winner,
                   rows, fallback)
      BY <3>1, <1>7 DEF Evidence, Gathered
    <3> QED
      BY <1>1, <1>2, <1>12, <2>1, <3>2
  <2> QED
    BY <1>1, <1>2, <1>3, <1>4, <1>6, <1>12, <2>2, <2>3, LoopStep DEF P
<1>13. CASE ~blocked
  <2>1. f \notin s.blocked /\ f \notin s.direct /\ f \notin ToSet(s.retained) /\ f \notin fallback
    BY <1>4, <1>10, <1>11 DEF Gathered
  <2>2. Evidence(template, trigger, P \cup {f}, s, winner, rows, fallback)
    BY <1>9, <1>11
  <2> HIDE DEF s, blocked
  <2>3. Evidence(template, trigger, P \cup {f}, selection', winner', rescue', fallback')
    <3>1. fallback' \subseteq fallback \cup {f} /\ count \in Nat \ {0} /\ f \in AnyFeature
          /\ (trigger # None => f = trigger)
      BY <1>2, <1>3, <1>4, <1>7, <1>13
    <3>2. Evidence(template, trigger, P \cup {f}, Admit(s, f, v, count, kept),
                   IF v.candidate THEN BetterWinner(winner, f, count) ELSE winner, rows, fallback')
      BY <1>5, <2>1, <2>2, <3>1, AdmittedEvidence
    <3> QED
      BY <1>1, <1>2, <1>13, <3>2
  <2>4. selection'.mask = selection'.direct
    <3>1. f \in AnyFeature /\ count \in Nat
      BY <1>4, <1>7
    <3>2. /\ v.candidate => /\ admitted.direct = s.direct \cup {f}
                            /\ admitted.mask = s.mask \cup {f}
          /\ ~v.candidate => admitted.direct = s.direct /\ admitted.mask = s.mask
      BY <1>5, <1>11, <3>1, AdmitFields
    <3> HIDE DEF admitted
    <3>3. admitted.mask = admitted.direct
      BY <1>4, <1>11, <3>2
    <3> QED
      BY <1>2, <1>13, <3>3
  <2> QED
    BY <1>1, <1>2, <1>3, <1>4, <1>6, <1>13, <2>3, <2>4, LoopStep DEF P
<1> QED
  BY <1>12, <1>13

\* ---------------------------------------------------------------------------
\* The end of a call.

\* A rescue divides its evidence among features, so it takes more than one of
\* them, nothing blocked and no match of a feature alone.
LEMMA RescueFacts ==
  ASSUME IInv, pc = "matching", NEW r \in Rescues, r # NoRescue
  PROVE  /\ r.feature \in Features /\ selection.blocked = {} /\ ~selection.rejection
         /\ trigger = None
<1>1. /\ template \in Gallery /\ pos \in 1 .. template.n + 1 /\ template.n \in Nat
      /\ Passed(template, pos) \subseteq Features
      /\ Passed(template, pos) \subseteq Passed(template, template.n + 1)
  <2>1. template \in Gallery /\ pos \in 1 .. template.n + 1
    BY DEF IInv, Loop
  <2>2. template.n \in Nat /\ Passed(template, pos) \subseteq Features
    BY <2>1, PassedFacts DEF Features
  <2>3. Passed(template, pos) \subseteq Passed(template, template.n + 1)
    BY <2>1, <2>2 DEF Passed
  <2> QED
    BY <2>1, <2>2, <2>3
<1>2. /\ DOMAIN rescue \subseteq Passed(template, pos)
      /\ \A g \in DOMAIN rescue : rescue[g] \in Nat
      /\ AskedOnly(trigger, selection)
  BY DEF IInv, Gathering, Evidence, Gathered
<1>3. PICK a \in SUBSET DOMAIN rescue :
        Cardinality(a) > 1 /\ Rescuable /\ r.feature = BestOf(a)
  BY DEF Rescues
<1>4. a # {}
  BY <1>3, FS_EmptySet
<1>5. BestOf(a) \in a
  BY <1>1, <1>2, <1>4, BestIsOneOf
<1>6. trigger = None
  <2> SUFFICES ASSUME trigger # None PROVE FALSE
    OBVIOUS
  <2>1. selection.contributors \subseteq {trigger}
    BY <1>2 DEF AskedOnly
  <2>2. IsFiniteSet({trigger}) /\ Cardinality({trigger}) = 1
    BY FS_Singleton
  <2>3. Cardinality(selection.contributors) <= 1 /\ IsFiniteSet(selection.contributors)
    BY <2>1, <2>2, FS_Subset
  <2>4. Cardinality(selection.contributors) \in Nat
    BY <2>3, FS_CardinalityType
  <2> QED
    BY <1>3, <2>3, <2>4 DEF Rescuable
<1> QED
  BY <1>1, <1>2, <1>3, <1>5, <1>6 DEF Rescuable

\* The evidence as the result's properties need it.
LEMMA EvidenceAtEnd ==
  ASSUME IInv, pc = "matching"
  PROVE  /\ selection \in Selections /\ selection.mask = selection.direct
         /\ selection.blocked \cap
              (selection.direct \cup ToSet(selection.retained) \cup fallback) = {}
         /\ selection.blocked \subseteq AnyFeature /\ None \notin selection.blocked
         /\ RetainedOnce(template, selection) /\ Scored(template, selection)
         /\ Related(template, selection, winner) /\ AskedOnly(trigger, selection)
         /\ winner.feature \in selection.direct \cup {None}
         /\ context \in Contexts /\ Features \subseteq AnyFeature
<1>1. /\ selection \in Selections /\ selection.mask = selection.direct
      /\ Gathered(Passed(template, pos), selection, rescue, fallback)
      /\ RetainedOnce(template, selection) /\ Scored(template, selection)
      /\ Related(template, selection, winner) /\ AskedOnly(trigger, selection)
      /\ context \in Contexts /\ template \in Gallery
  BY DEF IInv, Loop, Gathering, Evidence
<1>2. selection.blocked \subseteq AnyFeature
  BY <1>1 DEF Selections
<1>3. None \notin AnyFeature
  BY MatchAssumption DEF AnyFeature
<1>4. Features \subseteq AnyFeature
  BY <1>1, PassedFacts DEF Features, AnyFeature
<1>5. winner.feature \in selection.direct \cup {None}
  BY <1>1 DEF Related
<1> QED
  BY <1>1, <1>2, <1>3, <1>4, <1>5 DEF Gathered

\* The loop's state after the call is what it was, but for what the result
\* publishes of the selection.
LEMMA LoopEnds ==
  ASSUME IInv, pc = "matching", pc' = "done",
         UNCHANGED <<template, trigger, context, pos, winner, rescue, fallback>>,
         \/ UNCHANGED selection
         \/ selection' = [selection EXCEPT !.mask = selection.contributors]
         \/ selection' = [selection EXCEPT !.acceptance = TRUE]
  PROVE  /\ Loop' /\ Gathering'
         /\ selection'.blocked = selection.blocked /\ selection'.acceptance \in BOOLEAN
<1>1. selection \in Selections
      /\ Evidence(template, trigger, Passed(template, pos), selection, winner, rescue, fallback)
  BY DEF IInv, Gathering, Evidence
<1>2. /\ selection' \in Selections
      /\ selection'.contributors = selection.contributors
      /\ selection'.blocked = selection.blocked /\ selection'.rejection = selection.rejection
      /\ selection'.activeEvidence = selection.activeEvidence
      /\ selection'.retained = selection.retained /\ selection'.selected = selection.selected
      /\ selection'.numerator = selection.numerator /\ selection'.direct = selection.direct
      /\ selection'.acceptance \in BOOLEAN
  BY <1>1 DEF Selections
<1>3. Evidence(template, trigger, Passed(template, pos), selection', winner, rescue, fallback)
  BY <1>1, <1>2 DEF Evidence, Gathered, RetainedOnce, Scored, Related, AskedOnly
<1>4. Gathering'
  BY <1>3 DEF Gathering, Passed
<1>5. Loop'
  BY DEF IInv, Loop, Features
<1> QED
  BY <1>2, <1>4, <1>5

\* What a path of the end has to show of what it publishes.
LEMMA PublishedStep ==
  ASSUME IInv, NEW r, NEW good \in BOOLEAN,
         NEW score \in {"positive", "zero", "negative", "overridden"},
         NEW matched \in AnyFeature \cup {None}, NEW mask \in SUBSET AnyFeature,
         Publishes(r, good, score, matched, mask),
         \/ UNCHANGED selection
         \/ selection' = [selection EXCEPT !.mask = selection.contributors]
         \/ selection' = [selection EXCEPT !.acceptance = TRUE],
         score = "positive" => matched # None \/ (~selection.rejection /\ r.feature = None),
         score = "positive" => selection'.acceptance \/ r.feature # None \/ mask # {},
         trigger # None => (score = "positive" => matched = trigger)
                           /\ mask \cup ({matched} \ {None}) \subseteq {trigger},
         r.feature = None /\ matched \in template.active \cap template.routed
           => winner.feature = matched,
         selection.blocked \cap (mask \cup {matched}) = {},
         selection.blocked # {} => r.feature = None,
         selection.direct = {} /\ mask # {} => selection.blocked = {}
  PROVE  IInv'
<1>1. /\ pc = "matching" /\ pc' = "done"
      /\ UNCHANGED <<template, trigger, context, pos, winner, rescue, fallback>>
  BY DEF Publishes
<1>2. /\ result'.score = score /\ result'.matched = matched /\ result'.mask = mask
      /\ result'.relation = winner.feature /\ result'.direct = selection.direct
      /\ result'.contributors = selection.contributors
      /\ result'.retained = selection.retained /\ result'.flag = selection.activeEvidence
      /\ result'.rescued = (r.feature # None)
      /\ result'.final = (selection'.acceptance \/ r.feature # None)
      /\ result'.action =>
           /\ selection.rejection \/ r.feature # None
           /\ context.gate /\ ~result'.eligible
      /\ result'.eligible => trigger = None
  BY DEF Publishes, AllFeatures
<1>3. /\ selection \in Selections
      /\ selection.blocked \cap (selection.direct \cup ToSet(selection.retained) \cup fallback) = {}
      /\ None \notin selection.blocked
      /\ RetainedOnce(template, selection) /\ Scored(template, selection)
      /\ Related(template, selection, winner) /\ AskedOnly(trigger, selection)
      /\ winner.feature \in selection.direct \cup {None} /\ context \in Contexts
  BY <1>1, EvidenceAtEnd
<1>4. /\ Loop' /\ Gathering' /\ selection'.blocked = selection.blocked
      /\ selection'.acceptance \in BOOLEAN
  BY <1>1, LoopEnds
<1>5. result' \in Outcome
  <2>1. /\ winner.feature \in AnyFeature \cup {None} /\ selection.direct \in SUBSET AnyFeature
        /\ selection.contributors \in SUBSET AnyFeature /\ selection.retained \in Seq(AnyFeature)
        /\ selection.activeEvidence \in BOOLEAN
    BY <1>3 DEF Selections
  <2> QED
    BY <1>4, <2>1 DEF Publishes, Outcome, AnyFeature
<1>6. StudyContract'
  <2>1. result'.action => ~result'.eligible /\ context'.gate
    BY <1>1, <1>2
  <2>2. result'.action /\ result'.score = "positive" => result'.matched # None
    BY <1>2
  <2>3. result'.score = "positive" => result'.final \/ result'.mask # {}
    BY <1>2
  <2>4. result'.relation # None => result'.flag
    BY <1>2, <1>3 DEF Related
  <2>5. IsInjective(result'.retained) /\ ToSet(result'.retained) \cap template'.active = {}
    BY <1>1, <1>2, <1>3 DEF RetainedOnce
  <2>6. result'.flag => result'.direct \cap template'.active # {}
    BY <1>1, <1>2, <1>3 DEF Scored
  <2>7. trigger' # None =>
          /\ ~result'.eligible
          /\ result'.score = "positive" => result'.matched = trigger'
          /\ result'.mask \cup ToSet(result'.retained) \cup
             ({result'.matched, result'.relation} \ {None}) \subseteq {trigger'}
    BY <1>1, <1>2, <1>3 DEF AskedOnly
  <2> QED
    BY <2>1, <2>2, <2>3, <2>4, <2>5, <2>6, <2>7 DEF StudyContract, AllFeatures
<1>7. RelationOfMatched'
  BY <1>1, <1>2 DEF RelationOfMatched
<1>8. BlockedLeavesNoTrace'
  <2>1. selection.blocked \cap
          (mask \cup selection.direct \cup ToSet(selection.retained) \cup fallback
             \cup {matched, winner.feature}) = {}
    BY <1>3
  <2>2. selection'.blocked \cap
          (result'.mask \cup result'.direct \cup ToSet(result'.retained) \cup fallback'
             \cup {result'.matched, result'.relation}) = {}
    BY <1>1, <1>2, <1>4, <2>1
  <2>3. /\ selection'.blocked # {} => ~result'.rescued
        /\ result'.direct = {} /\ result'.mask # {} => selection'.blocked = {}
    BY <1>2, <1>4
  <2> QED
    BY <2>2, <2>3 DEF BlockedLeavesNoTrace
<1> QED
  BY <1>4, <1>5, <1>6, <1>7, <1>8 DEF IInv

\* Most paths name no feature.
LEMMA NamelessStep ==
  ASSUME IInv, NEW good \in BOOLEAN,
         NEW score \in {"positive", "zero", "negative", "overridden"},
         NEW mask \in SUBSET AnyFeature, Publishes(NoRescue, good, score, None, mask),
         \/ UNCHANGED selection
         \/ selection' = [selection EXCEPT !.mask = selection.contributors]
         \/ selection' = [selection EXCEPT !.acceptance = TRUE],
         score = "positive" => /\ trigger = None /\ ~selection.rejection
                               /\ selection'.acceptance \/ mask # {},
         mask # {} => trigger = None /\ selection.blocked = {}
  PROVE  IInv'
<1>1. NoRescue.feature = None /\ None \in AnyFeature \cup {None}
  BY DEF NoRescue
<1>2. pc = "matching" /\ template \in Gallery
  BY DEF Publishes, IInv, Loop
<1>3. None \notin template.active
  BY <1>2, GalleryAssumption, MatchAssumption
<1>4. selection.blocked \cap (mask \cup {None}) = {}
  <2>1. None \notin selection.blocked
    BY <1>2, EvidenceAtEnd
  <2> QED
    BY <2>1
<1>5. /\ score = "positive" => None # None \/ (~selection.rejection /\ NoRescue.feature = None)
      /\ score = "positive" => selection'.acceptance \/ NoRescue.feature # None \/ mask # {}
      /\ trigger # None => (score = "positive" => None = trigger)
                           /\ mask \cup ({None} \ {None}) \subseteq {trigger}
      /\ selection.blocked # {} => NoRescue.feature = None
      /\ selection.direct = {} /\ mask # {} => selection.blocked = {}
  BY <1>1
<1>6. NoRescue.feature = None /\ None \in template.active \cap template.routed
        => winner.feature = None
  BY <1>3
<1> QED
  BY <1>1, <1>4, <1>5, <1>6, PublishedStep

LEMMA FinishStep == ASSUME IInv, Finish PROVE IInv'
<1>1. PICK good \in BOOLEAN, heavy \in BOOLEAN :
        \/ \E r \in Rescues : FinishRescued(r, good)
        \/ FinishRefused(good, heavy)
        \/ FinishDirect(good, heavy)
        \/ FinishContributors(good)
        \/ FinishFallback(good)
        \/ FinishRejected(good)
  BY DEF Finish
<1>2. pc = "matching"
  BY <1>1 DEF FinishRescued, FinishRefused, FinishDirect, FinishContributors, FinishFallback,
              FinishRejected, Publishes
<1>3. /\ selection \in Selections /\ selection.mask = selection.direct
      /\ selection.blocked \cap selection.direct = {} /\ None \notin selection.blocked
      /\ Scored(template, selection) /\ Related(template, selection, winner)
      /\ AskedOnly(trigger, selection) /\ Features \subseteq AnyFeature
  BY <1>2, EvidenceAtEnd
<1>4. /\ selection.direct \in SUBSET AnyFeature /\ selection.contributors \in SUBSET AnyFeature
      /\ {} \in SUBSET AnyFeature /\ None \in AnyFeature \cup {None} /\ NoRescue.feature = None
      /\ None \notin AnyFeature
  BY <1>3, MatchAssumption DEF Selections, NoRescue, AnyFeature
<1>5. ASSUME NEW r \in Rescues, FinishRescued(r, good) PROVE IInv'
  <2>1. r.feature \in Features /\ selection.blocked = {} /\ trigger = None
    BY <1>2, <1>5, RescueFacts DEF FinishRescued
  <2>2. r.feature \in AnyFeature /\ r.feature # None
    BY <1>3, <1>4, <2>1
  <2> QED
    BY <1>3, <1>4, <1>5, <2>1, <2>2, PublishedStep DEF FinishRescued
<1>6. CASE FinishRefused(good, heavy)
  <2>1. PICK score \in {"zero", "overridden"} :
          Publishes(NoRescue, good, score, None, {}) /\ UNCHANGED selection
    BY <1>6 DEF FinishRefused
  <2> QED
    BY <1>4, <2>1, NamelessStep
<1>7. CASE FinishDirect(good, heavy)
  <2>1. PICK score \in {"positive", "overridden"} :
          Publishes(NoRescue, good, score, selection.selected, selection.mask)
          /\ UNCHANGED selection
    BY <1>7 DEF FinishDirect
  <2>2. selection.direct # {} /\ selection.selected \in selection.direct
    BY <1>3, <1>7 DEF FinishDirect, Latched, Scored
  <2>3. trigger # None => selection.selected = trigger /\ selection.mask \subseteq {trigger}
    BY <1>3, <2>2 DEF AskedOnly
  <2>4. selection.selected \in template.active \cap template.routed
          => winner.feature = selection.selected
    BY <1>3 DEF Related
  <2> QED
    BY <1>3, <1>4, <2>1, <2>2, <2>3, <2>4, PublishedStep
<1>8. CASE FinishContributors(good)
  <2>1. /\ Publishes(NoRescue, good, "positive", None, selection.contributors)
        /\ selection' = [selection EXCEPT !.mask = selection.contributors]
        /\ selection.direct = {} /\ selection.contributors # {} /\ selection.blocked = {}
        /\ trigger = None
    BY <1>8 DEF FinishContributors, NotRefused, Latched, AllFeatures
  <2>2. ~selection.rejection
    BY <1>3, <2>1 DEF Scored
  <2> QED
    BY <1>3, <1>4, <2>1, <2>2, NamelessStep
<1>9. CASE FinishFallback(good)
  <2>1. /\ Publishes(NoRescue, good, "positive", None, {})
        /\ selection' = [selection EXCEPT !.acceptance = TRUE]
        /\ selection.direct = {} /\ trigger = None
    BY <1>9 DEF FinishFallback, NotRefused, Latched, AllFeatures
  <2>2. ~selection.rejection
    BY <1>3, <2>1 DEF Scored
  <2>3. selection'.acceptance
    BY <1>3, <2>1 DEF Selections
  <2> QED
    BY <1>3, <1>4, <2>1, <2>2, <2>3, NamelessStep
<1>10. CASE FinishRejected(good)
  <2>1. PICK score \in {"negative", "overridden"} :
          Publishes(NoRescue, good, score, None, {}) /\ UNCHANGED selection
    BY <1>10 DEF FinishRejected
  <2> QED
    BY <1>4, <2>1, NamelessStep
<1> QED
  BY <1>1, <1>5, <1>6, <1>7, <1>8, <1>9, <1>10

\* ---------------------------------------------------------------------------
\* The theorems.

LEMMA InvNext == IInv /\ [Next]_vars => IInv'
<1> SUFFICES ASSUME IInv, [Next]_vars PROVE IInv'
  OBVIOUS
<1>1. CASE Begin
  BY <1>1, BeginStep
<1>2. CASE Skip
  BY <1>2, SkipStep
<1>3. CASE GiveUp
  BY <1>3, GiveUpStep
<1>4. CASE Examine
  <2>1. PICK f \in Features :
          \/ Unlike(f) \/ Sparse(f)
          \/ \E count \in Counts :
               \/ Veto(f, count) \/ Refuse(f, count)
               \/ \E v \in Verdict(context.late, Entered(f).high, context.mode,
                                   context.packed, context.histogram),
                     meets, kept, foul \in BOOLEAN : Publish(f, v, count, meets, kept, foul)
    BY <1>4 DEF Examine
  <2> QED
    BY <2>1, UnlikeStep, VetoStep, PublishStep
<1>5. CASE Finish
  BY <1>5, FinishStep
<1>6. CASE UNCHANGED vars
  BY <1>6 DEF vars, IInv, Loop, Gathering, Passed, Features, StudyContract, RelationOfMatched,
              BlockedLeavesNoTrace, AllFeatures
<1> QED
  BY <1>1, <1>2, <1>3, <1>4, <1>5, <1>6 DEF Next

LEMMA InvHolds == Spec => []IInv
  BY InvInit, InvNext, PTL DEF Spec

\* What the loop gathers is of features it has passed, whatever the order table,
\* and what it publishes has its type (match.c:2258-2613).
THEOREM TypeCorrect == Spec => []TypeOK
<1>1. IInv => TypeOK
  <2> SUFFICES ASSUME IInv PROVE TypeOK
    OBVIOUS
  <2>1. template \in Gallery /\ pos \in 1 .. template.n + 1 /\ context \in Contexts
        /\ context.refused <= pos - 1 /\ template.n \in Nat
    BY PassedFacts DEF IInv, Loop
  <2>2. context.high \in 0 .. 5 /\ context.refused \in 0 .. template.n
    BY <2>1 DEF Contexts
  <2>3. selection.contributors \cup DOMAIN rescue \cup fallback \subseteq Passed(template, pos)
    BY DEF IInv, Gathering, Evidence, Gathered
  <2> QED
    BY <2>1, <2>2, <2>3 DEF IInv, TypeOK, Passed
<1> QED
  BY InvHolds, <1>1, PTL

\* The study control and the evidence agree, whatever the features show
\* (match.c:1653-1722, selection.c:204-451).
THEOREM StudyContractHolds == Spec => []StudyContract
<1>1. IInv => StudyContract
  BY DEF IInv
<1> QED
  BY InvHolds, <1>1, PTL

\* The relation to the reference is the matched feature's, although another
\* operator chooses it, from other features (selection.c:176-201, 333-345).
THEOREM RelationAgrees == Spec => []RelationOfMatched
<1>1. IInv => RelationOfMatched
  BY DEF IInv
<1> QED
  BY InvHolds, <1>1, PTL

\* A feature that looks like an artificial one gives the result nothing
\* (selection.c:347-397, rescue.c:86-94).
THEOREM BlockedIsApart == Spec => []BlockedLeavesNoTrace
<1>1. IInv => BlockedLeavesNoTrace
  BY DEF IInv
<1> QED
  BY InvHolds, <1>1, PTL
=============================================================================
