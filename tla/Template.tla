------------------------------ MODULE Template ------------------------------
(***************************************************************************)
(* A fingerprint template and its relation matrix.                         *)
(*                                                                         *)
(* Source: drivers/goodix53x5/milan/relations.c, transform.c,              *)
(* template/lifecycle.c and the packed form of template/codec.c.  A        *)
(* template is up to MaxFeatures views of one finger and, for some pairs   *)
(* of them, the transform from the later view to the earlier one.  Only    *)
(* the relations with the reference view survive packing.                  *)
(*                                                                         *)
(* A transform is a permutation of Coordinate: the smallest group in which *)
(* the order of a composition and the direction of an inverse matter.      *)
(* Place says where each sample really lies, so that Measured(a, b) is     *)
(* what an exact registration of sample a against sample b returns.  The   *)
(* fixed point arithmetic and its rounding are left out.                   *)
(***************************************************************************)
EXTENDS Integers, FiniteSets, Functions

CONSTANTS
  MaxFeatures,   \* GOODIX_MILAN_PROFILE9_ACTIVE_FEATURE_LIMIT
  Place          \* the placement of every sample

Coordinate == 1 .. 3

Transform ==
  {t \in [Coordinate -> Coordinate] : \A c \in Coordinate : \E d \in Coordinate : t[d] = c}

Sample == DOMAIN Place

ASSUME TemplateAssumption ==
  /\ MaxFeatures \in Nat \ {0, 1}
  /\ Place \in [Sample -> Transform]

Identity == <<1, 2, 3>>

Compose(after, before) == <<after[before[1]], after[before[2]], after[before[3]]>>

Invert(t) == LET from(c) == CHOOSE d \in Coordinate : t[d] = c
             IN <<from(1), from(2), from(3)>>

\* The stored transform leads from the later of the two features to the
\* earlier one; routed leads to the reference.
Route(stored, direct, feature, reference) ==
  CASE feature > reference -> Compose(stored, direct)
    [] feature < reference -> Compose(Invert(stored), direct)
    [] OTHER -> direct

Measured(from, to) == Compose(Invert(Place[to]), Place[from])

-----------------------------------------------------------------------------
(***************************************************************************)
(* The matrix: n rows, where row f starts at base[f] and has a slot for    *)
(* every earlier feature.  slot holds the slots that are set, each with    *)
(* its rank: the inliers of a measurement, 2 for a closed path, 0 for a    *)
(* stored reference relation.  NoReference is SIZE_MAX, -1 when packed.    *)
(***************************************************************************)
NoReference == -1

RowBase(feature) ==
  IF feature = 0 THEN 0 ELSE 1 + (feature * (feature - 1)) \div 2

SlotIndex(m, first, second) ==
  IF first > second THEN m.base[first] + second ELSE m.base[second] + first

Features(m) == 0 .. m.n - 1

Others(m, feature) == Features(m) \ {feature}

IsSet(m, first, second) == SlotIndex(m, first, second) \in DOMAIN m.slot

SlotOf(m, first, second) == m.slot[SlotIndex(m, first, second)]

With(f, x, value) == [y \in DOMAIN f \cup {x} |-> IF y = x THEN value ELSE f[y]]

\* goodix_milan_relation_slot_unset
Unset(m, indices) == [m EXCEPT !.slot = Restrict(@, DOMAIN @ \ indices)]

SetSlot(m, index, rank, map) ==
  [m EXCEPT !.slot = With(@, index, [rank |-> rank, map |-> map])]

EmptyMatrix ==
  [n |-> 0, base |-> << >>, reference |-> NoReference, established |-> FALSE,
   slot |-> << >>]

AppendRow(m, rowBase) ==
  [Unset(m, rowBase .. rowBase + m.n - 1) EXCEPT
     !.n = m.n + 1,
     !.base = [f \in 0 .. m.n |-> IF f = m.n THEN rowBase ELSE m.base[f]]]

ClearIncident(m, feature) ==
  Unset(m, {SlotIndex(m, feature, other) : other \in Others(m, feature)})

StoreReference(m, feature, toReference) ==
  SetSlot(m, SlotIndex(m, feature, m.reference), 0,
          IF feature > m.reference THEN toReference ELSE Invert(toReference))

\* The error of goodix_milan_enrollment_feature_to_reference.
HasRoute(m, feature) ==
  m.established /\ (feature = m.reference \/ IsSet(m, feature, m.reference))

FeatureToReference(m, feature) ==
  LET stored == SlotOf(m, feature, m.reference).map
  IN CASE feature = m.reference -> Identity
       [] feature > m.reference -> stored
       [] OTHER -> Invert(stored)

\* The reference feature has a new content: the other relations are moved.
Reanchor(m, newToOld) ==
  LET moved(f) == LET old == SlotOf(m, f, m.reference)
                  IN [old EXCEPT !.map = IF f > m.reference
                                         THEN Compose(Invert(newToOld), old.map)
                                         ELSE Compose(old.map, newToOld)]
      star == {f \in Others(m, m.reference) : IsSet(m, f, m.reference)}
  IN [m EXCEPT !.slot = [i \in DOMAIN @ |->
        LET f == {g \in star : SlotIndex(m, g, m.reference) = i}
        IN IF f = {} THEN @[i] ELSE moved(CHOOSE g \in f : TRUE)]]

\* goodix_milan_relation_matrix_replace: the feature's content is the probe's.
ReplaceRelation(m, feature, toReference) ==
  IF feature = m.reference THEN Reanchor(m, toReference)
  ELSE StoreReference(ClearIncident(m, feature), feature, toReference)

\* Mutant: the two transforms are composed in the other order.
Refresh_Swapped(m, feature, retained, evidence) ==
  ReplaceRelation(m, feature, Compose(Invert(retained), evidence))

\* retained leads from the probe to the feature, evidence from the probe to
\* the reference.
Refresh(m, feature, retained, evidence) ==
  ReplaceRelation(m, feature, Compose(evidence, Invert(retained)))

\* What survives packing.
ProjectReferenceStar(m) ==
  IF ~m.established THEN << >>
  ELSE Restrict(m.slot, {i \in DOMAIN m.slot :
         \E f \in Others(m, m.reference) : i = SlotIndex(m, f, m.reference)})

-----------------------------------------------------------------------------
(***************************************************************************)
(* The packed template.  A feature has the sample it shows, b5 (active),   *)
(* b6 (its row's base), bc (its age rank) and, for the properties only,    *)
(* whether every number its placement rests on was measured against the    *)
(* reference it is stored against (sure).                                  *)
(***************************************************************************)
Feature == [sample : Sample, active : BOOLEAN, base : Nat, ordinal : Nat, sure : BOOLEAN]

RegistrationCount(n) == 1 + (n * (n - 1)) \div 2

EmptyTemplate ==
  [n |-> 0, feature |-> << >>, reference |-> NoReference, established |-> FALSE,
   relation |-> << >>, registration |-> 1, order |-> << >>]

AtCapacity(t) == t.n = MaxFeatures

BuildMatrix(t) ==
  [n |-> t.n, base |-> [f \in Features(t) |-> t.feature[f].base],
   reference |-> t.reference, established |-> t.established, slot |-> t.relation]

\* goodix_milan_relation_matrix_init accepts the unpacked template.
MatrixReadable(t) ==
  /\ t.n \in 1 .. MaxFeatures
  /\ \/ t.established /\ t.reference \in Features(t)
     \/ ~t.established /\ t.reference \in {NoReference} \cup Features(t)
        /\ t.relation = << >>
  /\ t.registration = RegistrationCount(t.n)
  /\ \A f \in Features(t) : t.feature[f].base = RowBase(f)
  /\ \A i \in DOMAIN t.relation :
       /\ i \in 1 .. t.registration - 1
       /\ \E f \in Others(t, t.reference) : SlotIndex(BuildMatrix(t), f, t.reference) = i

\* The order table, as the print is validated: its first n slots.
OrderReadable(t) ==
  1 .. t.n \subseteq DOMAIN t.order /\ {t.order[i] : i \in 1 .. t.n} = Features(t)

\* The age ranks, from the newest feature to the oldest.
AgesRanked(t) == {t.feature[f].ordinal : f \in Features(t)} = Features(t)

\* A relation the lookup does not find reads as the identity.
RelationTransform(t, first, second) ==
  LET index == IF first > second THEN RowBase(first) + second ELSE RowBase(second) + first
  IN IF index \in DOMAIN t.relation THEN t.relation[index].map ELSE Identity

\* goodix_milan_template_reference_transform: its error and its two directions.
HasReference(t) == t.established /\ t.reference \in Features(t)

ReferenceTransform(t, feature, reverse) ==
  LET relation == RelationTransform(t, feature, t.reference)
  IN IF feature = t.reference THEN Identity
     ELSE IF (feature > t.reference) = reverse THEN Invert(relation)
     ELSE relation

ToReference(t, feature) == ReferenceTransform(t, feature, FALSE)
FromReference(t, feature) == ReferenceTransform(t, feature, TRUE)

\* goodix_milan_match_reference_transform: found is its result 0.
MatchReference(t, matched, direct) ==
  LET m == BuildMatrix(t)
  IN IF t.established /\ matched = t.reference THEN [found |-> TRUE, map |-> direct]
     ELSE IF t.established /\ IsSet(m, matched, t.reference)
     THEN [found |-> TRUE, map |-> Route(SlotOf(m, matched, t.reference).map, direct,
                                         matched, t.reference)]
     ELSE [found |-> FALSE, map |-> Identity]

\* goodix_milan_template_normalize accepts the template.  What it computes,
\* the residual and the overlap counts of each feature, is left out.
Normalizable(t) ==
  \/ HasReference(t)
  \/ /\ ~t.established /\ t.reference = NoReference /\ t.relation = << >>
     /\ \A f \in Features(t) : ~t.feature[f].active

\* The normalization of an unpacked template: reads the reference transform
\* of every active feature.
NormalizeUnpacked(t) ==
  (\E f \in Features(t) : t.feature[f].active) => HasReference(t)

\* The placements of the sure active features, read as normalization reads
\* them, are where the samples lie.
PlacedTrue(t) ==
  LET known == {f \in Features(t) : t.feature[f].active /\ t.feature[f].sure}
  IN \A f, g \in known : t.established /\ f # g =>
       Compose(FromReference(t, g), ToReference(t, f))
         = Measured(t.feature[f].sample, t.feature[g].sample)

=============================================================================
