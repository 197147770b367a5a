----------------------------- MODULE StudyQueue -----------------------------
(***************************************************************************)
(* The study queue: samples of a matched finger that could not be learnt   *)
(* yet wait for one that can, and the gallery last published with them.    *)
(*                                                                         *)
(* Source: drivers/goodix53x5/milan/study/queue.c, queue_matches_template  *)
(* of match/lifecycle.c and set_live_feature of match/study.c.  An entry   *)
(* holds a sample; how alike two samples look is chosen by the caller.     *)
(***************************************************************************)
EXTENDS Integers, FiniteSets

CONSTANT QueueCapacity   \* GOODIX_STUDY_QUEUE_CAPACITY

ASSUME QueueAssumption == QueueCapacity \in Nat \ {0}

Slot == 0 .. QueueCapacity - 1

NoSample == 0

FreeEntry == [sample |-> NoSample, rank |-> -1]

\* A disabled queue has no entries at all.  live and input are the published
\* gallery and the input it stands for, or nothing; shown has the samples
\* that replace what the gallery stores of a feature.
NewQueue(disabled) ==
  [disabled |-> disabled,
   entry |-> IF disabled THEN << >> ELSE [s \in Slot |-> FreeEntry],
   live |-> {}, input |-> {}, shown |-> << >>]

Disable(q) == [q EXCEPT !.disabled = TRUE, !.entry = << >>]

ClearGallery(q) == [q EXCEPT !.live = {}, !.input = {}, !.shown = << >>]

Taken(q) == {s \in DOMAIN q.entry : q.entry[s].rank >= 0}

Occupied(q) == Cardinality(Taken(q))

ValidQueue(q) ==
  /\ q.live = {} => q.input = {} /\ q.shown = << >>
  /\ IF q.disabled THEN q.entry = << >>
     ELSE /\ DOMAIN q.entry = Slot
          /\ \A s \in Slot : (q.entry[s].rank >= 0) = (q.entry[s].sample # NoSample)
          /\ {q.entry[s].rank : s \in Taken(q)} = 0 .. Occupied(q) - 1

\* The gallery that stands for the caller's template, if it is one of ours.
Retained(q, template) == template \in q.live \cup q.input

Resolve(q, template) ==
  IF Retained(q, template) THEN CHOOSE t \in q.live : TRUE ELSE template

QueueMatches(q, template) == ValidQueue(q) /\ q.disabled = template.disabled

\* The first free slot, or the one of the oldest sample.
Destination(q) ==
  LET free == Slot \ Taken(q)
  IN IF free # {} THEN CHOOSE s \in free : \A r \in free : s <= r
     ELSE CHOOSE s \in Slot : q.entry[s].rank = 0

\* duplicate: the sample looks like the newest one that waits.
Enqueue(q, sample, duplicate) ==
  LET full == Occupied(q) = QueueCapacity
      aged == IF full THEN [s \in Slot |-> [q.entry[s] EXCEPT !.rank = @ - 1]] ELSE q.entry
      rank == IF full THEN QueueCapacity - 1 ELSE Occupied(q)
  IN IF q.disabled \/ (duplicate /\ Occupied(q) # 0) THEN q
     ELSE [q EXCEPT !.entry =
             [aged EXCEPT ![Destination(q)] = [sample |-> sample, rank |-> rank]]]

\* Mutant: the younger ones stay where they are.
Consume_KeepsRanks(q, slot) == [q EXCEPT !.entry[slot] = FreeEntry]

\* A sample that was learnt leaves, the younger ones move up.
Consume(q, slot) ==
  LET learnt == q.entry[slot].rank
      moved(s) == IF q.entry[s].rank > learnt THEN [q.entry[s] EXCEPT !.rank = @ - 1]
                  ELSE q.entry[s]
  IN [q EXCEPT !.entry = [s \in Slot |-> IF s = slot THEN FreeEntry ELSE moved(s)]]

Publish(q, gallery, input, shown) ==
  [q EXCEPT !.live = {gallery}, !.input = input, !.shown = shown]

=============================================================================
