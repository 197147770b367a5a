----------------------------- MODULE Enrollment -----------------------------
(***************************************************************************)
(* The enrollment transaction: views of a finger are registered against    *)
(* the views already taken, placed in one frame, and published as a        *)
(* template.                                                               *)
(*                                                                         *)
(* Source: drivers/goodix53x5/milan/enrollment/template.c, propagation.c   *)
(* and goodix_milan_relation_matrix_close of relations.c.  What the image  *)
(* comparison returns is chosen: which earlier views register with the new *)
(* one, with how many inliers and how large an overlap, and how much of    *)
(* the new view was already covered.                                       *)
(***************************************************************************)
EXTENDS Template, Sequences

CONSTANTS
  Registration,   \* [inliers, overlap] of an accepted pair of views
  Meeting,        \* the pairs of samples that lie near enough to register
  Touches         \* the samples shown, in the order in which they are shown

ASSUME EnrollmentAssumption ==
  /\ Registration \subseteq [inliers : Nat, overlap : 0 .. 255]
  /\ \A r \in Registration : r.inliers > 5
  /\ Touches \in Seq(Sample)

VARIABLES
  transaction,   \* GoodixMilanEnrollmentTransaction; for the properties only, the
                 \* slots whose relation is not known to be true (doubt)
  bad,           \* bad_record_count and bad_continue_count
  status,        \* the result of the last attempt
  attempts,      \* number of attempts made
  taken          \* the registrations of each view in the transaction

enrollmentVars == <<transaction, bad, status, attempts, taken>>

NewTransaction ==
  [m |-> EmptyMatrix, sample |-> << >>, active |-> << >>, overlap |-> << >>,
   registration |-> 0, order |-> 0, doubt |-> {}]

\* Only pairs that registered are asked for their overlap.
Overlapping(tx, first, second) ==
  LET index == SlotIndex(tx.m, first, second)
  IN IsSet(tx.m, first, second) /\ index \in DOMAIN tx.overlap /\ tx.overlap[index] > 205

-----------------------------------------------------------------------------
(***************************************************************************)
(* Propagation: an unplaced view that overlaps a placed one is placed.     *)
(***************************************************************************)
\* The relation of two features rests on a route composed in the wrong order.
Doubtful(tx, first, second) == first # second /\ SlotIndex(tx.m, first, second) \in tx.doubt

\* Of a view that is placed through another one.
DoubtfulThrough(tx, feature, other) ==
  Doubtful(tx, feature, other) \/ Doubtful(tx, other, tx.m.reference)

Marked(doubt, index, doubtful) == IF doubtful THEN doubt \cup {index} ELSE doubt \ {index}

Placed(tx, feature, toReference, doubtful) ==
  [tx EXCEPT !.m = StoreReference(@, feature, toReference), !.active[feature] = TRUE,
             !.doubt = Marked(@, SlotIndex(tx.m, feature, tx.m.reference), doubtful)]

\* One view of the worklist is examined for the route.
Hop(tx, work, at, position) ==
  IF IsSet(tx.m, work[position], work[at.child])
  THEN [path |-> Compose(SlotOf(tx.m, work[position], work[at.child]).map, at.path),
        child |-> position]
  ELSE at

\* The route from the pivot to the view at a position of the worklist.  The
\* code composes it in the other order, route after path: two steps give a
\* product that is not the route.
RouteFrom(tx, work, position, candidate) ==
  LET route[i \in 0 .. position - 1] ==
        IF i = 0 THEN [path |-> SlotOf(tx.m, candidate, work[position]).map,
                       child |-> position]
        ELSE Hop(tx, work, route[i - 1], position - i)
  IN route[position - 1].path

LowerCandidate(state, candidate, toReference) ==
  LET near == {p \in DOMAIN state.work : Overlapping(state.tx, candidate, state.work[p])}
      at == CHOOSE p \in near : \A q \in near : q <= p
      path == RouteFrom(state.tx, state.work, at, candidate)
      doubtful == at # 1 \/ DoubtfulThrough(state.tx, candidate, state.work[1])
  IN IF state.tx.active[candidate] \/ near = {} THEN state
     ELSE [tx |-> Placed(state.tx, candidate, Compose(toReference, Invert(path)), doubtful),
           work |-> Append(state.work, candidate)]

PropagateLower(tx, pivot, toReference) ==
  LET done[i \in 0 .. pivot] ==
        IF i = 0 THEN [tx |-> tx, work |-> <<pivot>>]
        ELSE LowerCandidate(done[i - 1], pivot - i, toReference)
  IN done[pivot].tx

HigherCandidate(tx, candidate, pivot, toReference) ==
  IF tx.active[candidate] \/ ~Overlapping(tx, candidate, pivot) THEN tx
  ELSE Placed(tx, candidate, Compose(toReference, SlotOf(tx.m, candidate, pivot).map),
              DoubtfulThrough(tx, candidate, pivot))

PropagateHigher(tx, pivot, current, toReference) ==
  LET done[i \in 0 .. current - pivot - 1] ==
        IF i = 0 THEN tx ELSE HigherCandidate(done[i - 1], pivot + i, pivot, toReference)
  IN done[current - pivot - 1]

\* Mutant: the measured transform is used without inverting it.
BridgeFeature_Forward(tx, current, pivot) ==
  LET toReference == Compose(FeatureToReference(tx.m, current),
                             SlotOf(tx.m, current, pivot).map)
      placed == Placed(tx, pivot, toReference, DoubtfulThrough(tx, pivot, current))
  IN PropagateHigher(PropagateLower(placed, pivot, toReference), pivot, current, toReference)

BridgeFeature(tx, current, pivot) ==
  LET toReference == Compose(FeatureToReference(tx.m, current),
                             Invert(SlotOf(tx.m, current, pivot).map))
      placed == Placed(tx, pivot, toReference, DoubtfulThrough(tx, pivot, current))
  IN PropagateHigher(PropagateLower(placed, pivot, toReference), pivot, current, toReference)

-----------------------------------------------------------------------------
(***************************************************************************)
(* Closing a full matrix: paths of measured relations become relations of  *)
(* rank 2, and a view related to an active one becomes active.             *)
(***************************************************************************)
Rank(m, first, second) == IF IsSet(m, first, second) THEN SlotOf(m, first, second).rank ELSE -1

\* goodix_milan_relation_matrix_read_to_first and _store_to_first
ToFirst(m, first, second) ==
  IF ~IsSet(m, first, second) THEN Identity
  ELSE IF second > first THEN SlotOf(m, first, second).map
  ELSE Invert(SlotOf(m, first, second).map)

StoreToFirst(m, first, second, map) ==
  SetSlot(m, SlotIndex(m, first, second), 2,
          IF second > first THEN map ELSE Invert(map))

CloseCandidate(s, root, current, candidate) ==
  LET edge == Rank(s.m, current, candidate)
      toRoot == IF current = root THEN Identity ELSE ToFirst(s.m, root, current)
      known == IF current = root THEN 0 ELSE Rank(s.m, root, current)
      bottleneck == IF known < edge THEN known ELSE edge
      seen == [s EXCEPT !.visited = @ \cup {candidate},
                        !.work = Append(@, candidate),
                        !.quality = With(@, {current, candidate}, edge)]
      pair == {root, candidate}
      direct == Rank(s.m, root, candidate)
      doubtful == Doubtful(s, root, current) \/ Doubtful(s, current, candidate)
      kept == direct > 2 \/ (direct = 2 /\ seen.quality[pair] >= bottleneck)
  IN IF candidate \in s.visited \/ candidate = current \/ edge <= 0 THEN s
     ELSE IF current = root \/ kept THEN seen
     ELSE [seen EXCEPT
             !.m = StoreToFirst(@, root, candidate,
                                Compose(toRoot, ToFirst(s.m, current, candidate))),
             !.doubt = Marked(@, SlotIndex(s.m, root, candidate), doubtful),
             !.quality = With(@, pair, bottleneck),
             !.active = [f \in DOMAIN @ |->
                @[f] \/ (f \in pair /\ \E g \in pair : @[g])]]

CloseFrom(s, root, current) ==
  LET done[i \in 0 .. s.m.n] ==
        IF i = 0 THEN s ELSE CloseCandidate(done[i - 1], root, current, s.m.n - i)
  IN done[s.m.n]

ClosePop(s, root) ==
  LET last == Len(s.work)
      current == s.work[last]
      popped == [s EXCEPT !.work = SubSeq(@, 1, last - 1),
                   !.quality = IF current = root THEN @
                               ELSE With(@, {root, current}, Rank(s.m, root, current))]
  IN IF last = 0 THEN s ELSE CloseFrom(popped, root, current)

CloseRoot(s, root) ==
  LET done[i \in 0 .. s.m.n] ==
        IF i = 0 THEN [s EXCEPT !.visited = {root}, !.work = <<root>>]
        ELSE ClosePop(done[i - 1], root)
  IN done[s.m.n]

Unclosed(tx) ==
  [m |-> tx.m, active |-> tx.active, doubt |-> tx.doubt, visited |-> {}, work |-> << >>,
   quality |-> [p \in {{f, g} : f, g \in Features(tx.m)} |-> 0]]

\* goodix_milan_relation_matrix_close
Close(tx) ==
  LET done[i \in 0 .. tx.m.n] ==
        IF i = 0 THEN Unclosed(tx) ELSE CloseRoot(done[i - 1], i - 1)
      closed == done[tx.m.n]
  IN [tx EXCEPT !.m = closed.m, !.active = closed.active, !.doubt = closed.doubt]

-----------------------------------------------------------------------------
(***************************************************************************)
(* One insertion.  seen has the registration of every earlier view that    *)
(* was accepted.                                                           *)
(***************************************************************************)
Appended(tx, sample) ==
  LET n == tx.m.n
  IN [tx EXCEPT !.m = AppendRow(@, RowBase(n)),
                !.sample = With(@, n, sample), !.active = With(@, n, FALSE),
                !.registration = IF n = 0 THEN 1 ELSE RowBase(n) + n]

Registered(tx, current, seen) ==
  LET row == {SlotIndex(tx.m, current, p) : p \in DOMAIN seen}
      prior(i) == CHOOSE p \in DOMAIN seen : SlotIndex(tx.m, current, p) = i
      slot(i) == [rank |-> seen[prior(i)].inliers,
                  map |-> Measured(tx.sample[current], tx.sample[prior(i)])]
  IN [tx EXCEPT
        !.m.slot = [i \in DOMAIN @ \cup row |-> IF i \in row THEN slot(i) ELSE @[i]],
        !.overlap = [i \in DOMAIN @ \cup row |->
                       IF i \in row THEN seen[prior(i)].overlap ELSE @[i]]]

\* The first of the priors with the most inliers.
Best(seen, priors) ==
  CHOOSE p \in priors : \A q \in priors :
    \/ seen[p].inliers > seen[q].inliers
    \/ seen[p].inliers = seen[q].inliers /\ p <= q

\* The new view is placed through the best of the placed ones.
Connected(tx, current, seen) ==
  LET through == Best(seen, {p \in DOMAIN seen : tx.active[p]})
      direct == SlotOf(tx.m, current, through).map
      stored == SlotOf(tx.m, through, tx.m.reference).map
      toReference == IF through = tx.m.reference THEN direct
                     ELSE Route(stored, direct, through, tx.m.reference)
      index == SlotIndex(tx.m, current, tx.m.reference)
      rank == Rank(tx.m, current, tx.m.reference)
  IN [tx EXCEPT !.m = SetSlot(@, index, IF rank < 0 THEN 0 ELSE rank, toReference),
                !.active[current] = TRUE,
                !.doubt = Marked(@, index, DoubtfulThrough(tx, current, through))]

\* The first pair that overlaps enough establishes the graph.
Located(tx, current, seen) ==
  LET best == Best(seen, DOMAIN seen)
  IN IF seen # << >> /\ ~tx.m.established /\ seen[best].overlap > 205
     THEN [tx EXCEPT !.active[current] = TRUE, !.active[best] = TRUE,
                     !.m.reference = best, !.m.established = TRUE]
     ELSE IF \E p \in DOMAIN seen : tx.active[p] THEN Connected(tx, current, seen)
     ELSE tx

Pivots(tx, seen) == {p \in DOMAIN seen : ~tx.active[p] /\ seen[p].overlap > 208}

Bridged(tx, current, seen) ==
  LET done[i \in 0 .. current] ==
        IF i = 0 THEN tx
        ELSE IF i - 1 \in Pivots(tx, seen) THEN BridgeFeature(done[i - 1], current, i - 1)
        ELSE done[i - 1]
  IN IF tx.m.established /\ tx.active[current] THEN done[current] ELSE tx

Joining(tx, current, seen) ==
  Bridged(Located(Registered(tx, current, seen), current, seen), current, seen)

Closed(tx) == IF tx.m.n = MaxFeatures THEN Close(tx) ELSE tx

\* Mutant: the transaction never closes its matrix.
Inserted_NeverClosed(tx, sample, seen) ==
  [Joining(Appended(tx, sample), tx.m.n, seen) EXCEPT !.order = tx.m.n + 1]

Inserted(tx, sample, seen) ==
  Closed([Joining(Appended(tx, sample), tx.m.n, seen) EXCEPT !.order = tx.m.n + 1])

\* goodix_enrollment_transaction_recompute_live_fields reads the placement of
\* every active view.
LiveFieldsReadable(tx) ==
  /\ tx.m.established => tx.m.reference \in Features(tx.m)
  /\ \A f \in Features(tx.m) : tx.active[f] => HasRoute(tx.m, f)

\* Mutant: the count of registrations is cut before the relations are deleted.
DeleteLast_KeepsRelations(tx) ==
  LET last == tx.m.n - 1
      base == tx.m.base[last]
      lost == last = tx.m.reference
  IN [tx EXCEPT !.m = [@ EXCEPT !.n = last, !.base = Restrict(@, 0 .. last - 1),
                                !.established = @ /\ ~lost],
                !.registration = base,
                !.sample = Restrict(@, 0 .. last - 1),
                !.active = [f \in 0 .. last - 1 |-> @[f] /\ ~lost]]

\* The order table keeps the slot of the deleted view.
DeleteLast(tx) ==
  LET last == tx.m.n - 1
      base == tx.m.base[last]
      shorter == Unset(tx.m, {i \in base .. tx.registration - 1 : i >= 1})
      lost == last = tx.m.reference
  IN [tx EXCEPT !.m = [shorter EXCEPT !.n = last, !.base = Restrict(@, 0 .. last - 1),
                                      !.established = @ /\ ~lost],
                !.registration = base,
                !.overlap = Restrict(@, DOMAIN @ \ (base .. tx.registration - 1)),
                !.doubt = @ \ (base .. tx.registration - 1),
                !.sample = Restrict(@, 0 .. last - 1),
                !.active = [f \in 0 .. last - 1 |-> @[f] /\ ~lost]]

-----------------------------------------------------------------------------
(***************************************************************************)
(* goodix_milan_enrollment_transaction_attempt.  metrics has the two       *)
(* thresholds of the rollback policy: overlap > 85, previous_overlap > 75. *)
(***************************************************************************)
Metrics == [covered : BOOLEAN, repeated : BOOLEAN]

\* goodix_enrollment_metrics can report an overlap only where one exists.
MetricsOf(tx, seen, metrics) ==
  LET current == tx.m.n - 1
  IN /\ metrics.covered => \/ /\ seen # << >>
                              /\ tx.m.established /\ tx.active[current]
                           \/ \E p \in DOMAIN seen : seen[p].overlap > 205
     /\ metrics.repeated => current - 1 \in DOMAIN seen

ShouldRollback(before, metrics) ==
  /\ before > 2 /\ bad.record <= 4 /\ bad.continue <= 2
  /\ metrics.covered /\ (before + 1 < 7 \/ metrics.repeated)

CommitNonRollback == [bad EXCEPT !.continue = IF @ < 3 THEN 0 ELSE @]

CommitRollback == [record |-> bad.record + 1, continue |-> bad.continue + 1]

Try(sample, seen) ==
  LET tentative == Inserted(transaction, sample, seen)
      deleted == DeleteLast(tentative)
      failed == tentative.m.n = MaxFeatures /\ ~LiveFieldsReadable(tentative)
  IN \E metrics \in {x \in Metrics : MetricsOf(tentative, seen, x)} :
       LET rollback == ShouldRollback(transaction.m.n, metrics)
       IN IF failed \/ (rollback /\ ~LiveFieldsReadable(deleted))
          THEN /\ status' = "remove" /\ bad' = CommitNonRollback
               /\ UNCHANGED <<transaction, taken>>
          ELSE IF rollback
          THEN /\ status' = "center" /\ bad' = CommitRollback
               /\ transaction' = deleted /\ UNCHANGED taken
          ELSE /\ status' = "accepted" /\ bad' = CommitNonRollback
               /\ transaction' = tentative /\ taken' = Append(taken, seen)

\* A probe whose only feature does not load.
Unusable ==
  /\ status' = "remove" /\ bad' = CommitNonRollback /\ UNCHANGED <<transaction, taken>>

\* The earlier views that the new one may register with.
MayRegister(sample) ==
  {p \in Features(transaction.m) : {transaction.sample[p], sample} \in Meeting}

Attempt ==
  /\ transaction.m.n < MaxFeatures /\ attempts < Len(Touches)
  /\ attempts' = attempts + 1
  /\ \/ Unusable
     \/ \E priors \in SUBSET MayRegister(Touches[attempts + 1]) :
          \E seen \in [priors -> Registration] :
            Try(Touches[attempts + 1], seen)

\* goodix_milan_enrollment_transaction_publish of a complete enrollment.
TemplateOf(tx) ==
  [n |-> tx.m.n,
   feature |-> [f \in Features(tx.m) |->
     [sample |-> tx.sample[f], active |-> tx.active[f], base |-> tx.m.base[f],
      ordinal |-> f, sure |-> ~Doubtful(tx, f, tx.m.reference)]],
   reference |-> tx.m.reference, established |-> tx.m.established,
   relation |-> ProjectReferenceStar(tx.m), registration |-> tx.registration,
   order |-> [i \in 1 .. tx.order |-> i - 1]]

\* All the rows exist from the start.
Sized(samples) ==
  LET n == Len(samples)
  IN [NewTransaction EXCEPT
        !.m.n = n, !.m.base = [f \in 0 .. n - 1 |-> RowBase(f)],
        !.sample = [f \in 0 .. n - 1 |-> samples[f + 1]],
        !.active = [f \in 0 .. n - 1 |-> FALSE],
        !.registration = RegistrationCount(n), !.order = n]

\* goodix_milan_match_combine_templates: what the deletion of a view undoes is
\* never done.
Combine(samples, registrations) ==
  LET joined[k \in 0 .. Len(samples)] ==
        IF k = 0 THEN Sized(samples) ELSE Joining(joined[k - 1], k - 1, registrations[k])
  IN TemplateOf(Closed(joined[Len(samples)]))

Complete == transaction.m.n = MaxFeatures

Finish == (Complete \/ attempts = Len(Touches)) /\ UNCHANGED enrollmentVars

EnrollmentInit ==
  /\ transaction = NewTransaction /\ bad = [record |-> 0, continue |-> 0]
  /\ status = "none" /\ attempts = 0 /\ taken = << >>

EnrollmentNext == Attempt \/ Finish

EnrollmentSpec == EnrollmentInit /\ [][EnrollmentNext]_enrollmentVars

-----------------------------------------------------------------------------
\* The counters stay in their range, every row starts where its number says,
\* and what is stored is of views that are there: a view that was rolled back
\* leaves no relation, and the count of registrations is that of the views.
EnrollmentTypeOK ==
  /\ transaction.m.n \in 0 .. MaxFeatures
  /\ DOMAIN transaction.sample = Features(transaction.m)
  /\ transaction.active \in [Features(transaction.m) -> BOOLEAN]
  /\ transaction.m.base = [f \in Features(transaction.m) |-> RowBase(f)]
  /\ transaction.registration
       = IF transaction.m.n = 0 THEN 0 ELSE RegistrationCount(transaction.m.n)
  /\ DOMAIN transaction.m.slot \subseteq 1 .. transaction.registration - 1
  /\ transaction.doubt \subseteq DOMAIN transaction.m.slot
  /\ bad.record \in 0 .. 5 /\ bad.continue \in 0 .. 3
  /\ status \in {"none", "accepted", "center", "remove"}

\* Whatever was inserted, rolled back and bridged, a published template can be
\* read again: its matrix, its order and its graph pass the checks that every
\* later match makes.
PublishedReadable ==
  transaction.m.n > 0 =>
    LET t == TemplateOf(transaction)
    IN MatrixReadable(t) /\ Normalizable(t) /\ OrderReadable(t) /\ AgesRanked(t)

\* Every active view of a published template is placed, and two of them lie
\* where their placements say: reached directly, through another view, across a
\* bridge, by one step of propagation, or by closing a path, also one that led
\* through a view rolled back since.  Left out are the views whose placement is
\* in doubt, those that propagation reached by two steps or more, and those
\* placed through one of these: for two steps or more the code composes the
\* relations in the order opposite to that of transform.c:105 (propagation.c:57).
PublishedPlacement ==
  transaction.m.n > 0 =>
    LiveFieldsReadable(transaction) /\ PlacedTrue(TemplateOf(transaction))

\* What an enrollment publishes is a template that later matches accept, with
\* placements that are true but for those in doubt.
PublishedSound == PublishedReadable /\ PublishedPlacement

\* Views taken one at a time and never rolled back give the template that
\* combining them at once gives.
StepsAgreeWithWhole ==
  transaction.m.n > 0 /\ bad.record = 0 =>
    TemplateOf(transaction)
      = Combine([f \in 1 .. transaction.m.n |-> transaction.sample[f - 1]], taken)

=============================================================================
