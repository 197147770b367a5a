------------------------------- MODULE Study -------------------------------
(***************************************************************************)
(* Matching a probe against one template and learning from it: the call    *)
(* that matches, the call that studies the probe, and the processing of    *)
(* the samples that waited.                                                *)
(*                                                                         *)
(* Source: drivers/goodix53x5/milan/match/lifecycle.c, match/study.c,      *)
(* study/study.c, study/policy.c, template/lifecycle.c and the gallery     *)
(* part of runtime.c.  What the matcher decides and what the pixels say    *)
(* (residuals, overlaps, quality) is chosen, within what match/match.c can *)
(* return.  The runtime opens a new queue for every authentication; the    *)
(* calls themselves allow a queue to be used for many probes, and both     *)
(* happen here.                                                            *)
(***************************************************************************)
EXTENDS Template, StudyQueue, Sequences

CONSTANTS
  Stored,      \* templates an authentication can start with
  Imported,    \* samples with the negative angles of another driver's print
  Probes,      \* the samples that are presented, in this order
  Learnable,   \* bound: the samples that may be learnt when they are presented
  Met          \* bound: the features whose generation a match may advance

\* Every touch of the sensor is a sample of its own.
ASSUME StudyAssumption ==
  /\ Probes \in Seq(Sample \ {NoSample})
  /\ \A i, j \in DOMAIN Probes : Probes[i] = Probes[j] => i = j

VARIABLES
  stored,      \* the template of the print
  held,        \* the template the caller passes to the next call
  queue,       \* GoodixStudyQueue
  pc,          \* idle, matched: the probe may be studied, following: in process
  count,       \* probes presented
  control,     \* study_control of the last match
  work         \* GoodixStudyFollowupContext and the loop of queue_process

vars == <<stored, held, queue, pc, count, control, work>>

Probe == Probes[count]

NoControl == [action |-> FALSE, final |-> FALSE]

NoWork == [current |-> {}, shown |-> << >>, pending |-> << >>, trigger |-> 0,
           slot |-> 0, mutated |-> FALSE]

Current == CHOOSE t \in work.current : TRUE

Nothing == [known |-> FALSE, sure |-> FALSE, map |-> Identity]

-----------------------------------------------------------------------------
(***************************************************************************)
(* Lifecycle of a template.                                                *)
(***************************************************************************)
\* goodix_milan_study_order_key_greater
Older(t, f, g) ==
  LET a == t.feature[f]
      b == t.feature[g]
  IN IF a.active # b.active THEN a.active
     ELSE IF a.generation # b.generation THEN a.generation > b.generation
     ELSE a.ordinal > b.ordinal

\* goodix_milan_study_order_sort
Sorted(t, order) ==
  LET before(i) == {j \in DOMAIN order : Older(t, order[j], order[i])}
  IN [k \in DOMAIN order |->
        order[CHOOSE i \in DOMAIN order : Cardinality(before(i)) = k - 1]]

\* goodix_milan_template_sort_type12_order
SortOrder(t) == [t EXCEPT !.order = Sorted(t, [i \in 1 .. t.n |-> @[i]])]

\* goodix_milan_template_update_match_lifecycle
UpdateLifecycle(t, mask, sort) ==
  LET met == [t EXCEPT !.feature = [f \in DOMAIN @ |->
                [t.feature[f] EXCEPT !.generation = IF f \in mask THEN @ + 1 ELSE @]]]
  IN IF mask # {} /\ sort /\ t.n > 1 THEN SortOrder(met) ELSE met

\* Mutant: the flag stays the one the template came with.
Finalize_KeepsFlag(t, q, final) == IF final THEN SortOrder(t) ELSE t

\* goodix_milan_study_finalize
Finalize(t, q, final) ==
  [(IF final THEN SortOrder(t) ELSE t) EXCEPT !.disabled = q.disabled]

Pack(t, m) ==
  [t EXCEPT !.relation = ProjectReferenceStar(m), !.reference = m.reference,
            !.established = m.established]

-----------------------------------------------------------------------------
(***************************************************************************)
(* What a match may say of a probe: the transform from the probe to the    *)
(* reference, found through an active feature that took part, or the       *)
(* identity when there is none; and the inactive features it also saw, in  *)
(* the order of the table.                                                 *)
(***************************************************************************)
Relations(t, sample, features) ==
  LET through(f) == MatchReference(t, f, Measured(sample, t.feature[f].sample))
  IN {Nothing} \cup
     {[known |-> TRUE, sure |-> t.feature[f].sure, map |-> through(f).map] :
        f \in {g \in features : t.feature[g].active /\ through(g).found}}

Active(t) == {f \in Features(t) : t.feature[f].active}

Inactive(t) == Features(t) \ Active(t)

\* retained_evidence_flag is set by an active feature only, and every
\* relation that was found sets it.
EvidenceFlag(t, features, relation) ==
  IF relation.known THEN {TRUE}
  ELSE IF features \cap Active(t) # {} THEN BOOLEAN ELSE {FALSE}

-----------------------------------------------------------------------------
(***************************************************************************)
(* Refreshing the retained features with the evidence of one probe.  When  *)
(* the reference itself is refreshed, the frame moves and the relation of  *)
(* the probe, still that of the old frame, no longer fits (it is not sure).*)
(***************************************************************************)
RefreshFeature(s, sample, f) ==
  [t |-> [s.t EXCEPT !.feature[f].active = TRUE, !.feature[f].sure = s.relation.sure],
   m |-> Refresh(s.m, f, Measured(sample, s.t.feature[f].sample), s.relation.map),
   relation |-> [s.relation EXCEPT !.sure = @ /\ f # s.m.reference]]

RefreshRetained(s, sample, retained) ==
  LET done[i \in 0 .. s.t.n] ==
        IF i = 0 THEN s
        ELSE IF s.t.order[i] \in retained
        THEN RefreshFeature(done[i - 1], sample, s.t.order[i])
        ELSE done[i - 1]
  IN done[s.t.n]

\* The prepass of the dispatcher, and action 0.
Prepass(t, sample, relation, retained, flag) ==
  LET s == [t |-> t, m |-> BuildMatrix(t), relation |-> relation]
  IN IF flag THEN RefreshRetained(s, sample, retained) ELSE s

Action0(t, sample, relation, retained, flag) ==
  LET s == Prepass(t, sample, relation, retained, flag)
  IN IF flag /\ retained # {} THEN Pack(s.t, s.m) ELSE t

-----------------------------------------------------------------------------
\* goodix_milan_study_append: the new feature takes after the matched one.
NewFeature(t, sample, matched, relation) ==
  [sample |-> sample, active |-> t.feature[matched].active \/ ~t.established,
   base |-> t.registration, ordinal |-> t.n,
   generation |-> t.feature[matched].generation, sure |-> relation.sure]

\* The first feature that is learnt makes the matched one the reference.
Rooted(t, matched) ==
  IF t.established THEN t
  ELSE [t EXCEPT !.established = TRUE, !.reference = matched,
                 !.feature[matched].active = TRUE]

AppendFeature(t, sample, matched, relation, retained, flag) ==
  LET s == Prepass(t, sample, relation, retained, flag)
      n == s.t.n
      new == NewFeature(s.t, sample, matched, s.relation)
      rooted == Rooted(s.t, matched)
      grown == [rooted EXCEPT !.n = n + 1, !.registration = @ + n,
                              !.order = With(@, n + 1, n),
                              !.feature = With(@, n, new)]
      row == [AppendRow(s.m, s.t.registration) EXCEPT
                !.reference = rooted.reference, !.established = TRUE]
      placed == [t |-> grown, relation |-> s.relation,
                 m |-> IF new.active THEN StoreReference(row, n, s.relation.map) ELSE row]
      done == IF t.established THEN placed ELSE RefreshRetained(placed, sample, retained)
  IN Pack(done.t, done.m)

(***************************************************************************)
(* goodix_milan_study_policy_select at capacity.  The matched feature is   *)
(* taken when nothing of it is left uncovered or, without evidence, when   *)
(* the probe covers it; else an active one, which without evidence needs   *)
(* three covered ones and is not the reference.                            *)
(***************************************************************************)
Selectable(t, matched, flag) ==
  {matched} \cup
  IF flag THEN Active(t)
  ELSE IF Cardinality(Active(t)) >= 3 THEN Active(t) \ {t.reference} ELSE {}

\* goodix_milan_study_replace, once a target is selected: the content is the
\* probe's, and the target is the newest.  Without evidence it is retired.
Replacement(s, sample, matched, target, flag) ==
  [s.t.feature[target] EXCEPT
     !.sample = sample, !.ordinal = s.t.n - 1, !.active = @ /\ flag,
     !.generation = IF flag THEN s.t.feature[matched].generation ELSE @,
     !.sure = s.relation.sure]

Younger(t, target) ==
  [f \in Features(t) |->
     [t.feature[f] EXCEPT
        !.ordinal = IF @ > t.feature[target].ordinal THEN @ - 1 ELSE @]]

ReplaceFeature(s, sample, matched, target, flag) ==
  LET new == Replacement(s, sample, matched, target, flag)
      m == IF flag THEN ReplaceRelation(s.m, target, s.relation.map)
           ELSE IF target # s.m.reference THEN ClearIncident(s.m, target)
           ELSE s.m
  IN Pack([s.t EXCEPT !.feature = With(Younger(s.t, target), target, new)], m)

-----------------------------------------------------------------------------
(***************************************************************************)
(* The calls.  They fail by clearing the published gallery; what a failed  *)
(* call took out of the queue is lost.                                     *)
(***************************************************************************)
Init ==
  /\ stored \in Stored /\ held = stored
  /\ queue = NewQueue(stored.disabled)
  /\ pc = "idle" /\ count = 0
  /\ control = NoControl /\ work = NoWork

\* goodix_milan_print_validate_template, as the runtime calls it before a
\* match and on a candidate.
Readable(t) == MatrixReadable(t) /\ OrderReadable(t)

\* The next authentication: a new queue for the template of the print.
NextAuthentication ==
  /\ pc = "idle" /\ count > 0
  /\ Readable(stored)
  /\ held' = stored
  /\ queue' = NewQueue(stored.disabled)
  /\ UNCHANGED <<stored, pc, count, control, work>>

Fail ==
  /\ queue' = ClearGallery(queue)
  /\ pc' = "idle" /\ control' = NoControl /\ work' = NoWork
  /\ UNCHANGED <<stored, held, count>>

Gallery == Resolve(queue, held)

Shown(q) == IF Retained(q, held) THEN q.shown ELSE << >>

\* What a match and a study ask of the queue and the gallery; QueueAgrees
\* says that they are never refused.
Accepted ==
  /\ QueueMatches(queue, Gallery)
  /\ Retained(queue, held) \/ Normalizable(Gallery)

\* milan_match_decode_imported_angles: what the template stores of these
\* features is not exact, and their exact records are kept.
Decoded(t) ==
  LET imported == {f \in Features(t) : t.feature[f].sample \in Imported}
  IN [f \in imported |-> t.feature[f].sample]

\* goodix_milan_match_serialized_feature_result_queued
MatchProbe ==
  /\ pc = "idle" /\ count < Len(Probes) /\ Accepted
  /\ count' = count + 1 /\ pc' = "matched"
  /\ \E action, final, eligible, duplicate, sort \in BOOLEAN,
       mask \in SUBSET (Met \cap Features(Gallery)) :
     LET updated == UpdateLifecycle(Gallery, mask, sort)
         shown == IF Retained(queue, held) THEN queue.shown ELSE Decoded(Gallery)
         waiting == IF eligible THEN Enqueue(queue, Probes[count'], duplicate) ELSE queue
     IN /\ mask = {} => ~sort
        /\ eligible => ~action /\ ~queue.disabled
        /\ action => Probes[count'] \in Learnable
        /\ final => action
        /\ duplicate => eligible /\ Occupied(queue) # 0
        /\ control' = [action |-> action, final |-> final]
        /\ held' = updated
        /\ queue' = Publish(waiting, updated, {}, shown)
  /\ UNCHANGED <<stored, work>>

-----------------------------------------------------------------------------
(***************************************************************************)
(* goodix_milan_match_study_feature_queued: the probe itself.              *)
(***************************************************************************)

\* A call that learnt nothing still publishes what it did to the gallery.
PublishQuietly(q, gallery) ==
  /\ queue' = Publish(q, gallery, {held}, Shown(queue))
  /\ pc' = "idle" /\ control' = NoControl
  /\ UNCHANGED <<stored, held, count, work>>

StudyNothing ==
  /\ pc = "matched" /\ Accepted /\ ~control.action
  /\ PublishQuietly(queue, Gallery)

\* Action 0: the probe matched no feature, or is too poor to be learnt.
StudyActionZero ==
  /\ pc = "matched" /\ Accepted /\ control.action
  /\ \E relation \in Relations(Gallery, Probe, Features(Gallery)),
       retained \in SUBSET Inactive(Gallery), worth, duplicate \in BOOLEAN :
     \E flag \in EvidenceFlag(Gallery, Features(Gallery), relation) :
       LET done == Action0(Gallery, Probe, relation, retained, flag)
           q == IF AtCapacity(Gallery) THEN Disable(queue)
                ELSE IF worth THEN Enqueue(queue, Probe, duplicate)
                ELSE queue
       IN /\ flag \/ retained = {}
          /\ duplicate => worth /\ Occupied(queue) # 0
          /\ worth => ~AtCapacity(Gallery) /\ ~queue.disabled
          /\ PublishQuietly(q, Finalize(done, q, control.final))

Learn(t, selected) ==
  /\ work' = [current |-> {t}, shown |-> With(Shown(queue), selected, Probe),
              pending |-> <<selected>>, trigger |-> selected,
              slot |-> QueueCapacity, mutated |-> FALSE]
  /\ pc' = "following"
  /\ UNCHANGED <<stored, held, queue, count, control>>

StudyAppend ==
  /\ pc = "matched" /\ Accepted /\ control.action
  /\ ~AtCapacity(Gallery)
  /\ \E relation \in Relations(Gallery, Probe, Features(Gallery)),
       matched \in Features(Gallery), retained \in SUBSET Inactive(Gallery) :
     \E flag \in EvidenceFlag(Gallery, Features(Gallery), relation) :
       /\ flag \/ ~Gallery.established \/ retained = {}
       /\ Learn(AppendFeature(Gallery, Probe, matched, relation, retained, flag), Gallery.n)

StudyReplace ==
  /\ pc = "matched" /\ Accepted /\ control.action
  /\ AtCapacity(Gallery) /\ HasReference(Gallery)
  /\ \E relation \in Relations(Gallery, Probe, Features(Gallery)),
       matched \in Features(Gallery), retained \in SUBSET Inactive(Gallery) :
     \E flag \in EvidenceFlag(Gallery, Features(Gallery), relation) :
       LET s == Prepass(Gallery, Probe, relation, retained, flag)
       IN \E target \in Selectable(s.t, matched, flag) :
            /\ flag \/ retained = {}
            /\ Learn(ReplaceFeature(s, Probe, matched, target, flag), target)

\* goodix_milan_study_policy_derive needs a reference.
StudyWithoutReference ==
  /\ pc = "matched" /\ Accepted /\ control.action
  /\ AtCapacity(Gallery) /\ ~HasReference(Gallery)
  /\ Fail

-----------------------------------------------------------------------------
(***************************************************************************)
(* goodix_milan_study_queue_process: every feature that was learnt lets    *)
(* the waiting samples try again, slot by slot, against that feature.      *)
(***************************************************************************)
Following == pc = "following" /\ ~queue.disabled

Remaining == {s \in Taken(queue) : s >= work.slot}

NextTrigger ==
  /\ Following /\ Remaining = {} /\ work.pending # << >>
  /\ work' = [work EXCEPT !.trigger = Head(work.pending), !.pending = Tail(@),
                          !.slot = 0]
  /\ UNCHANGED <<stored, held, queue, pc, count, control>>

\* One waiting sample: matched, and learnt as a probe would be but without
\* the prepass.
Rejoin(slot, t, selected) ==
  /\ Len(work.pending) < QueueCapacity
  /\ queue' = Consume(queue, slot)
  /\ work' = [work EXCEPT
       !.current = {t},
       !.shown = With(@, selected, queue.entry[slot].sample),
       !.pending = Append(@, selected),
       !.mutated = TRUE,
       !.slot = IF selected = work.trigger THEN QueueCapacity ELSE slot + 1]

Followup ==
  /\ Following /\ Remaining # {}
  /\ LET slot == CHOOSE s \in Remaining : \A r \in Remaining : s <= r
         sample == queue.entry[slot].sample
         near == {work.trigger}
     IN \E mask \in SUBSET (Met \cap near), sort \in BOOLEAN :
        LET t == UpdateLifecycle(Current, mask, sort)
        IN /\ mask = {} => ~sort
           /\ \/ /\ work' = [work EXCEPT !.current = {t}, !.slot = slot + 1]
                 /\ UNCHANGED queue
              \/ \E relation \in Relations(t, sample, near) :
                 \E flag \in EvidenceFlag(t, near, relation) :
                   \/ /\ ~AtCapacity(t)
                      /\ Rejoin(slot, AppendFeature(t, sample, work.trigger, relation, {}, FALSE),
                                t.n)
                   \/ /\ AtCapacity(t)
                      /\ \E target \in Selectable(t, work.trigger, flag) :
                           Rejoin(slot,
                                  ReplaceFeature([t |-> t, m |-> BuildMatrix(t),
                                                  relation |-> relation],
                                                 sample, work.trigger, target, flag),
                                  target)
  /\ UNCHANGED <<stored, held, pc, count, control>>

\* The end of the study; the runtime keeps a readable candidate.
FinishStudy ==
  /\ pc = "following"
  /\ queue.disabled \/ (Remaining = {} /\ work.pending = << >>)
  /\ LET q == IF AtCapacity(Current) THEN Disable(queue) ELSE queue
         final == Finalize(Current, q, control.final)
     IN /\ queue' = Publish(q, final, {}, work.shown)
        /\ held' = final
        /\ stored' = IF Readable(final) THEN final ELSE stored
  /\ pc' = "idle" /\ control' = NoControl /\ work' = NoWork
  /\ UNCHANGED count

Study ==
  \/ StudyNothing \/ StudyActionZero
  \/ StudyAppend \/ StudyReplace \/ StudyWithoutReference
  \/ NextTrigger \/ Followup \/ FinishStudy

Next == NextAuthentication \/ MatchProbe \/ Study

Spec == Init /\ [][Next]_vars

-----------------------------------------------------------------------------
StudiedFeature ==
  [sample : Sample, active : BOOLEAN, base : Nat, ordinal : Int, generation : Nat,
   sure : BOOLEAN]

Relation == [rank : Nat, map : Transform]

IsTemplate(t) ==
  /\ t = [n |-> t.n, feature |-> t.feature, reference |-> t.reference,
          established |-> t.established, relation |-> t.relation,
          registration |-> t.registration, order |-> t.order, disabled |-> t.disabled]
  /\ t.n \in 1 .. MaxFeatures /\ t.reference \in NoReference .. MaxFeatures - 1
  /\ {t.established, t.disabled} \subseteq BOOLEAN
  /\ t.feature \in [Features(t) -> StudiedFeature]
  /\ \E slots \in SUBSET (1 .. RegistrationCount(MaxFeatures) - 1) :
       t.relation \in [slots -> Relation]
  /\ \E views \in 1 .. MaxFeatures : t.order \in [1 .. views -> 0 .. MaxFeatures - 1]

Samples(t) == {t.feature[f].sample : f \in Features(t)}

\* No sample is shown twice.
Distinct(t) ==
  \A f, g \in Features(t) : t.feature[f].sample = t.feature[g].sample => f = g

\* A print is what an enrollment publishes (PublishedSound of Enrollment), with
\* views that are all different and none of them still to come.
ASSUME StoredAssumption == \A t \in Stored :
  /\ IsTemplate(t) /\ Readable(t) /\ Normalizable(t) /\ AgesRanked(t) /\ PlacedTrue(t)
  /\ \A f \in Active(t) : HasRoute(BuildMatrix(t), f)
  /\ Distinct(t) /\ \A i \in DOMAIN Probes : Probes[i] \notin Samples(t)

Templates == {stored, held} \cup queue.live \cup queue.input \cup work.current

\* Types, and the call that the steps of a study belong to.
TypeOK ==
  /\ \A t \in Templates : IsTemplate(t)
  /\ pc \in {"idle", "matched", "following"}
  /\ count \in 0 .. Len(Probes)
  /\ pc = "following" <=> work.current # {}
  /\ \A q \in DOMAIN queue.entry : queue.entry[q].sample \in Sample \cup {NoSample}
  /\ \A i \in DOMAIN work.pending : work.pending[i] \in 0 .. MaxFeatures - 1

\* Whatever is learnt, in whichever order and from however many samples, the
\* features are where their samples lie: the relations a study stores, moves
\* or clears compose to the measured ones.
LearntPlacement == \A t \in Templates : PlacedTrue(t)

\* Every template a study leaves behind is one the next authentication can
\* read: the relations index the rows, the order table names each feature
\* once, and the age ranks stay those of n features.
LearntReadable == \A t \in Templates : Readable(t) /\ AgesRanked(t)

\* What a study leaves behind is a well-formed template that the next
\* authentication accepts, with relations that are true.
LearntSound == TypeOK /\ LearntPlacement /\ LearntReadable

\* However samples are queued, thrown out and learnt, the ranks of those that
\* wait are a permutation, and the continuation ring, which is no larger than
\* the queue, has room for every one that may still be learnt.
QueueBounded ==
  /\ ValidQueue(queue)
  /\ Following /\ Remaining # {} => Len(work.pending) < QueueCapacity

\* What is shown for a feature is the feature's own sample.
StandsIn(t, shown) ==
  \A f \in DOMAIN shown : f \in Features(t) /\ t.feature[f].sample = shown[f]

\* The queue and the gallery of the next call agree, so that it is never
\* refused: the flag in the template says whether the queue is in use.  No
\* sample is in two places: it is learnt once, or waits once; and a sample
\* that stands in for a feature of the published gallery is the feature's own.
QueueAgrees ==
  LET waits == [s \in Taken(queue) |-> queue.entry[s].sample]
      last == IF pc = "following" THEN work.current ELSE queue.live
  IN /\ pc # "following" => Accepted
     /\ \A s, r \in Taken(queue) : waits[s] = waits[r] => s = r
     /\ \A t \in last : Distinct(t) /\ \A s \in Taken(queue) : waits[s] \notin Samples(t)
     /\ \A t \in queue.live : StandsIn(t, queue.shown)
     /\ \A t \in work.current : StandsIn(t, work.shown)

=============================================================================
