------------------------------- MODULE Match -------------------------------
(***************************************************************************)
(* One probe against one template: the loop over the features, the         *)
(* evidence it gathers, the rescue of divided evidence, and the result     *)
(* that the study and the authentication are decided from.                 *)
(*                                                                         *)
(* Source: drivers/goodix53x5/milan/match/match.c, selection.c, policy.c,  *)
(* candidate.c, rescue.c and fallback.c, for the sensor of this driver.    *)
(* What the correspondences and the overlaps say of a feature is chosen;   *)
(* its flags are those that Policy leaves; the branches for other sensors  *)
(* are left out.                                                           *)
(***************************************************************************)
EXTENDS Naturals, Sequences, FiniteSets, SequencesExt, Policy

CONSTANTS
  Gallery,        \* templates that are matched
  Probe,          \* what the extraction says of the probes
  MaxFeatures,    \* maximum_features of the template
  Counts,         \* bound: the numbers of agreeing records told apart
  RefusedLatch,   \* 5 in match.c: refusals until the class is raised
  RefusedStop,    \* 10 in match.c: refusals until the loop gives up
  OverrideCount,  \* 5 in selection.c: blocked candidates that override a score
  None            \* SIZE_MAX and -1: no feature

ASSUME MatchAssumption ==
  /\ Counts \subseteq Nat \ {0}
  /\ RefusedLatch \in Nat /\ RefusedStop \in Nat /\ RefusedLatch <= RefusedStop
  /\ None \notin Nat

\* A template is matched after its print was validated: each feature is at one
\* place of the order table (print.c:69-80).  A feature, as a probe, is of one of
\* the classes of decode_packed_c7 (policy.c:1191).
ASSUME GalleryAssumption ==
  /\ MaxFeatures \in Nat
  /\ \A t \in Gallery :
       /\ t.n \in 1 .. MaxFeatures
       /\ t.order \in [1 .. t.n -> 0 .. t.n - 1] /\ IsInjective(t.order)
       /\ t.active \cup t.routed \subseteq 0 .. t.n - 1
       /\ \A f \in 0 .. t.n - 1 : t.class[f] \in 0 .. 5
  /\ Probe \subseteq [high : 0 .. 5, low : 0 .. 3, histogram : Nat, severe : BOOLEAN,
                     antifake : BOOLEAN]

VARIABLES
  pc,          \* idle, matching, done
  template,    \* enrolled
  trigger,     \* triggering_index
  context,     \* late_policy_context, the status counter and the gates
  pos,         \* order_index
  selection,   \* GoodixMilanMatchSelection
  winner,      \* GoodixMilanActiveRelationWinner
  rescue,      \* rescue_records, by feature
  fallback,    \* the features whose fallback workspace is enabled
  result       \* GoodixMilanMatchResult

vars == <<pc, template, trigger, context, pos, selection, winner, rescue,
          fallback, result>>

Features == 0 .. template.n - 1

\* GOODIX_MILAN_POLICY_CONFIG_FEATURE_MODE: one feature is asked for, or all.
AllFeatures == trigger = None

Feature == template.order[pos]

Active(f) == f \in template.active

NoWinner == [feature |-> None, count |-> 0]

\* goodix_milan_match_selection_reset
NoSelection ==
  [rejection |-> FALSE, acceptance |-> FALSE, activeEvidence |-> FALSE,
   retained |-> << >>, contributors |-> {}, blocked |-> {},
   selected |-> None, numerator |-> 0, direct |-> {}, mask |-> {}]

\* The result before the loop.
NoResult ==
  [score |-> "negative", matched |-> None, relation |-> None, mask |-> {},
   direct |-> {}, contributors |-> {}, retained |-> << >>, flag |-> FALSE,
   final |-> FALSE, action |-> FALSE, eligible |-> FALSE, rescued |-> FALSE]

\* score_latched: a score is published with the first direct candidate.
Latched(s) == s.direct # {}

-----------------------------------------------------------------------------
(***************************************************************************)
(* The call.  A probe of the caller is matched with every feature; a       *)
(* sample that waited in the queue with the feature that was just learnt.  *)
(***************************************************************************)
Init ==
  /\ pc = "idle" /\ template \in Gallery /\ trigger = None
  /\ context = [high |-> 0, low |-> 0, histogram |-> 0, gate |-> TRUE,
                raised |-> FALSE, refused |-> 0, blocking |-> FALSE, mode |-> 0,
                packed |-> FALSE, late |-> TRUE]
  /\ pos = 1 /\ selection = NoSelection /\ winner = NoWinner
  /\ rescue = << >> /\ fallback = {} /\ result = NoResult

\* goodix_milan_matcher_policy_init and goodix_milan_matcher_late_context_init.
Opening(p, queued) ==
  [high |-> IF queued THEN 0 ELSE p.high,
   low |-> IF queued THEN 0 ELSE p.low,
   histogram |-> p.histogram,
   gate |-> queued \/ ~p.severe,
   raised |-> FALSE, refused |-> 0,
   blocking |-> p.antifake /\ ~queued,
   mode |-> IF queued THEN 0 ELSE p.high,
   packed |-> ~queued /\ (p.high # 0 \/ p.low # 0),
   late |-> ~queued]

Begin ==
  /\ pc # "matching"
  /\ \E t \in Gallery, p \in Probe :
     \E asked \in {None} \cup (0 .. t.n - 1) :
       /\ template' = t /\ trigger' = asked
       /\ context' = Opening(p, asked # None)
  /\ pc' = "matching" /\ pos' = 1
  /\ selection' = NoSelection /\ winner' = NoWinner
  /\ rescue' = << >> /\ fallback' = {} /\ result' = NoResult

-----------------------------------------------------------------------------
(***************************************************************************)
(* One feature of the order table.                                         *)
(***************************************************************************)
Looking == pc = "matching" /\ pos <= template.n

\* goodix_milan_match_candidate_skip_pre_primary
Skipped(f) ==
  \/ ~AllFeatures /\ f # trigger
  \/ /\ template.n = MaxFeatures \/ selection.rejection
     /\ selection.activeEvidence /\ Active(f)

Skip ==
  /\ Looking /\ Skipped(Feature)
  /\ pos' = pos + 1
  /\ UNCHANGED <<pc, template, trigger, context, selection, winner, rescue, fallback,
                 result>>

\* goodix_milan_matcher_late_context_derive: a feature of a high class
\* raises the class of the whole match.
Derived(f) ==
  [context EXCEPT !.high = IF template.class[f] > 3 /\ template.class[f] > @
                           THEN template.class[f] ELSE @]

Raises(c) == c.refused > RefusedLatch /\ c.high < 5 /\ ~c.raised

\* Many refusals raise the class once, and no feature is learnt any more.
Entered(f) ==
  LET c == Derived(f)
  IN IF Raises(c) THEN [c EXCEPT !.high = @ + 1, !.raised = TRUE, !.gate = FALSE] ELSE c

GivesUp(f) == ~Raises(Derived(f)) /\ context.refused > RefusedStop

\* The loop ends at this feature.
GiveUp ==
  /\ Looking /\ ~Skipped(Feature) /\ GivesUp(Feature)
  /\ context' = Derived(Feature) /\ pos' = template.n + 1
  /\ UNCHANGED <<pc, template, trigger, selection, winner, rescue, fallback, result>>

Enter(f) == Looking /\ f = Feature /\ ~Skipped(f) /\ ~GivesUp(f)

\* The records disagree, or the transform is not a finger's.
Unlike(f) ==
  /\ Enter(f)
  /\ context' = Entered(f) /\ pos' = pos + 1
  /\ UNCHANGED <<pc, template, trigger, selection, winner, rescue, fallback, result>>

\* goodix_milan_match_candidate_admit: few records agree, which the fallback
\* looks at again.
Sparse(f) ==
  /\ Enter(f)
  /\ context' = Entered(f) /\ pos' = pos + 1
  /\ fallback' = IF AllFeatures /\ ~selection.acceptance THEN fallback \cup {f} ELSE fallback
  /\ UNCHANGED <<pc, template, trigger, selection, winner, rescue, result>>

\* Mutant: the row is stored at the place of the feature in the order table.
Recorded_ByOrder(f, count) ==
  [g \in DOMAIN rescue \cup {pos - 1} |-> IF g = pos - 1 THEN count ELSE rescue[g]]

Recorded(f, count) == [g \in DOMAIN rescue \cup {f} |-> IF g = f THEN count ELSE rescue[g]]

\* milan_match_contextual_veto, of a worn finger: the row remains for the
\* rescue.
Veto(f, count) ==
  /\ Enter(f)
  /\ context.histogram >= 2 /\ (context.histogram = 2 => Entered(f).high >= 2)
  /\ context' = Entered(f) /\ pos' = pos + 1 /\ rescue' = Recorded(f, count)
  /\ UNCHANGED <<pc, template, trigger, selection, winner, fallback, result>>

\* The flags are evaluated first, and may turn the late eligibility off.
Refuse(f, count) ==
  /\ Enter(f)
  /\ \E v \in Judged(context.late, Entered(f).high, context.mode, context.packed) :
       context' = [Entered(f) EXCEPT !.refused = @ + 1, !.late = v.late]
  /\ pos' = pos + 1 /\ rescue' = Recorded(f, count)
  /\ UNCHANGED <<pc, template, trigger, selection, winner, fallback, result>>

\* goodix_milan_match_selection_contribute
Contribute(s, f) == [s EXCEPT !.contributors = @ \cup {f}]

\* goodix_milan_match_selection_block_candidate
Block(s, f) == [s EXCEPT !.blocked = @ \cup {f}]

\* goodix_milan_match_selection_admit: kept is what the metrics alone allow.
Admit(s, f, v, count, kept) ==
  LET seen == [s EXCEPT !.rejection = @ \/ v.match # 0]
      retained == [seen EXCEPT
        !.activeEvidence = @ \/ (Active(f) /\ v.candidate),
        !.retained = IF Active(f) THEN @ ELSE Append(@, f)]
      replaces == count > s.numerator
  IN CASE ~kept /\ ~v.candidate -> seen
       [] kept /\ ~v.candidate -> retained
       [] OTHER -> [retained EXCEPT
                     !.acceptance = TRUE,
                     !.selected = IF replaces THEN f ELSE @,
                     !.numerator = IF replaces THEN count ELSE @,
                     !.direct = @ \cup {f}, !.mask = @ \cup {f}]

\* Mutant: a later feature with as many records takes the relation over.
BetterWinner_Ties(w, f, count) ==
  IF Active(f) /\ count >= w.count /\ f \in template.routed
  THEN [feature |-> f, count |-> count] ELSE w

\* goodix_milan_active_relation_winner_update: the best active feature whose
\* relation to the reference is known.
BetterWinner(w, f, count) ==
  IF Active(f) /\ count > w.count /\ f \in template.routed
  THEN [feature |-> f, count |-> count] ELSE w

\* milan_match_publish_feature_candidate and the end of the loop's body.
Publish(f, v, count, meets, kept, foul) ==
  LET contributes == v.candidate \/ meets
      s == IF contributes THEN Contribute(selection, f) ELSE selection
      c == [Entered(f) EXCEPT !.late = v.late]
      blocked == foul /\ contributes /\ c.blocking
      admitted == Admit(s, f, v, count, kept)
      ends == v.candidate /\ ~c.gate
  IN /\ Enter(f)
     /\ foul => contributes /\ c.blocking
     /\ context' = c /\ rescue' = Recorded(f, count)
     /\ IF blocked
        THEN /\ selection' = Block(s, f)
             /\ pos' = pos + 1
             /\ UNCHANGED <<winner, fallback>>
        ELSE /\ selection' = admitted
             /\ winner' = IF v.candidate THEN BetterWinner(winner, f, count) ELSE winner
             /\ pos' = IF ends THEN template.n + 1 ELSE pos + 1
             /\ fallback' = IF ~ends /\ AllFeatures /\ ~admitted.acceptance
                            THEN fallback \cup {f} ELSE fallback
     /\ UNCHANGED <<pc, template, trigger, result>>

Examine ==
  \E f \in Features :
    \/ Unlike(f)
    \/ Sparse(f)
    \/ \E count \in Counts :
         \/ Veto(f, count)
         \/ Refuse(f, count)
         \/ \E v \in Verdict(context.late, Entered(f).high, context.mode,
                          context.packed, context.histogram),
              meets, kept, foul \in BOOLEAN :
              Publish(f, v, count, meets, kept, foul)

-----------------------------------------------------------------------------
(***************************************************************************)
(* After the loop: milan_match_rescue_and_queue and milan_match_finalize.  *)
(***************************************************************************)
Before(f, g) ==
  \E i, j \in 1 .. template.n : i < j /\ template.order[i] = f /\ template.order[j] = g

\* goodix_milan_match_rescue_caller_eligible
Rescuable ==
  Cardinality(selection.contributors) > 1 /\ ~selection.rejection
  /\ selection.blocked = {}

\* goodix_milan_match_rescue_evaluate: the first of the features that agree
\* most among those that count.
BestOf(agreeing) ==
  CHOOSE f \in agreeing : \A g \in agreeing \ {f} :
    rescue[f] > rescue[g] \/ (rescue[f] = rescue[g] /\ Before(f, g))

NoRescue == [feature |-> None, retain |-> FALSE]

\* The rescues that can happen: two features at least cover the probe
\* together; three, or a high score, also make it worth learning.
Rescues ==
  LET agreeing == {a \in SUBSET DOMAIN rescue : Cardinality(a) > 1}
      learnable(a) == Latched(selection) \/ Cardinality(a) > 2
  IN {NoRescue} \cup
     {[feature |-> BestOf(a), retain |-> FALSE] : a \in {b \in agreeing : Rescuable}} \cup
     {[feature |-> BestOf(a), retain |-> TRUE] :
      a \in {b \in agreeing : Rescuable /\ learnable(b)}}

\* goodix_milan_match_selection_blocking_override
Overridden(heavy) == heavy /\ Cardinality(selection.blocked) > OverrideCount

\* What every path of the function publishes, and the end of the call.
Publishes(r, good, score, matched, mask) ==
  LET rescued == r.feature # None
      action == (selection.rejection \/ (rescued /\ r.retain)) /\ context.gate
  IN /\ pc = "matching" /\ pos > template.n
     /\ result' =
          [score |-> score, matched |-> matched, mask |-> mask, rescued |-> rescued,
           relation |-> winner.feature,
           direct |-> selection.direct, contributors |-> selection.contributors,
           retained |-> selection.retained, flag |-> selection.activeEvidence,
           final |-> selection.acceptance' \/ rescued, action |-> action,
           eligible |-> /\ ~action /\ AllFeatures /\ context.low = 0 /\ good
                        /\ context.high < 4 /\ context.histogram < 3
                        /\ template.queueing]
     /\ pc' = "done"
     /\ UNCHANGED <<template, trigger, context, pos, winner, rescue, fallback>>

\* The evidence of several features together.
FinishRescued(r, good) ==
  /\ r # NoRescue /\ UNCHANGED selection
  /\ Publishes(r, good, "positive", r.feature, selection.mask)

\* Too worn a finger, or a feature asked for that is no direct candidate.
FinishRefused(good, heavy) ==
  LET worn == context.high >= 4 \/ context.histogram >= 2
  IN /\ ~Latched(selection) /\ UNCHANGED selection
     /\ \/ worn /\ Publishes(NoRescue, good, IF Overridden(heavy) THEN "overridden" ELSE "zero",
                             None, {})
        \/ ~worn /\ ~AllFeatures /\ Publishes(NoRescue, good, "zero", None, {})

NotRefused ==
  Latched(selection) \/ (context.high < 4 /\ context.histogram < 2 /\ AllFeatures)

\* goodix_milan_match_selection_finalize, with direct candidates.
FinishDirect(good, heavy) ==
  /\ Latched(selection) /\ UNCHANGED selection
  /\ Publishes(NoRescue, good, IF Overridden(heavy) THEN "overridden" ELSE "positive",
               selection.selected, selection.mask)

\* Mutant: the blocking state is not looked at.
FinishContributors_Unblocked(good) ==
  /\ NotRefused /\ ~Latched(selection)
  /\ selection.contributors # {} /\ ~context.packed
  /\ selection' = [selection EXCEPT !.mask = selection.contributors]
  /\ Publishes(NoRescue, good, "positive", None, selection.contributors)

\* ... and with contributors that pass milan_match_validate_winner.
FinishContributors(good) ==
  /\ NotRefused /\ ~Latched(selection)
  /\ selection.contributors # {} /\ ~context.packed /\ selection.blocked = {}
  /\ selection' = [selection EXCEPT !.mask = selection.contributors]
  /\ Publishes(NoRescue, good, "positive", None, selection.contributors)

\* goodix_milan_match_fallback_consider and
\* goodix_milan_match_selection_publish_fallback
FinishFallback(good) ==
  /\ NotRefused /\ ~Latched(selection) /\ fallback # {}
  /\ selection' = [selection EXCEPT !.acceptance = TRUE]
  /\ Publishes(NoRescue, good, "positive", None, {})

\* goodix_milan_match_fallback_rejection_score
FinishRejected(good) ==
  /\ NotRefused /\ ~Latched(selection) /\ UNCHANGED selection
  /\ Publishes(NoRescue, good, IF selection.blocked # {} THEN "overridden" ELSE "negative",
               None, {})

Finish ==
  \E good, heavy \in BOOLEAN :
    \/ \E r \in Rescues : FinishRescued(r, good)
    \/ FinishRefused(good, heavy)
    \/ FinishDirect(good, heavy)
    \/ FinishContributors(good)
    \/ FinishFallback(good)
    \/ FinishRejected(good)

Next == Begin \/ Skip \/ GiveUp \/ Examine \/ Finish

Spec == Init /\ [][Next]_vars

-----------------------------------------------------------------------------
Outcome ==
  [score : {"positive", "zero", "negative", "overridden"},
   matched : 0 .. MaxFeatures - 1 \cup {None}, relation : 0 .. MaxFeatures - 1 \cup {None},
   mask : SUBSET (0 .. MaxFeatures - 1), direct : SUBSET (0 .. MaxFeatures - 1),
   contributors : SUBSET (0 .. MaxFeatures - 1), retained : Seq(0 .. MaxFeatures - 1),
   flag : BOOLEAN, final : BOOLEAN, action : BOOLEAN, eligible : BOOLEAN,
   rescued : BOOLEAN]

\* Types, and the loop within the order table: what was gathered is of the
\* features that were passed.
TypeOK ==
  /\ result \in Outcome
  /\ pos \in 1 .. template.n + 1
  /\ context.high \in 0 .. 5 /\ context.refused \in 0 .. template.n
  /\ LET passed == {template.order[i] : i \in 1 .. pos - 1}
     IN selection.contributors \cup DOMAIN rescue \cup fallback \subseteq passed

\* The study control (queue_candidate_eligible, study_action_gate) and the
\* evidence agree: a probe is learnt or waits, never both; one that is
\* learnt names a feature it was matched with, and is not learnt after too
\* many refusals; a relation to the reference comes with active evidence;
\* the retained evidence names inactive features once; and a sample that
\* waited says nothing of a feature it was not asked about.
StudyContract ==
  pc = "done" =>
    /\ result.action => ~result.eligible /\ context.gate
    /\ result.action /\ result.score = "positive" => result.matched # None
    /\ result.score = "positive" => result.final \/ result.mask # {}
    /\ result.relation # None => result.flag
    /\ IsInjective(result.retained) /\ ToSet(result.retained) \cap template.active = {}
    /\ result.flag => result.direct \cap template.active # {}
    /\ ~AllFeatures =>
         /\ ~result.eligible
         /\ result.score = "positive" => result.matched = trigger
         /\ result.mask \cup ToSet(result.retained) \cup
            ({result.matched, result.relation} \ {None}) \subseteq {trigger}

\* The relation to the reference and the matched feature are chosen in two
\* places; when no rescue intervened and the matched feature has a relation,
\* the relation is the matched feature's.
RelationOfMatched ==
  pc = "done" /\ ~result.rescued /\ result.matched \in template.active \cap template.routed
    => result.relation = result.matched

\* A feature is found to look like an artificial finger after it was counted
\* (match.c:1298, 1324): its score stays in the average, its record in the count
\* and in the contributors.  It has no other part in the result: it is not
\* matched, not related, not aged, not retained, not left to the fallback, it
\* excludes a rescue, and the contributors are not accepted together with it.
BlockedLeavesNoTrace ==
  pc = "done" =>
    /\ selection.blocked \cap (result.mask \cup result.direct \cup ToSet(result.retained)
                              \cup fallback \cup {result.matched, result.relation}) = {}
    /\ selection.blocked # {} => ~result.rescued
    /\ result.direct = {} /\ result.mask # {} => selection.blocked = {}
=============================================================================
