----------------------------- MODULE StudyProofs -----------------------------
(***************************************************************************)
(* The study of a probe for every capacity of the queue, every number of   *)
(* features and samples, every placement and every stored template: the    *)
(* ranks of the waiting samples stay a permutation and the ring of the     *)
(* features still to be followed up never overflows; every template stays  *)
(* well formed, with relations that are true; and the queue and the        *)
(* gallery of the next call agree.                                         *)
(*                                                                         *)
(* First the queue, on any entries whose ranks are right.  Then the group  *)
(* of the transforms and the relation matrix, the two ways to learn a      *)
(* probe, and the order and the ages.  Last the state: each call leaves    *)
(* good templates, and no sample in two places.                            *)
(***************************************************************************)
EXTENDS Study, FiniteSetTheorems, WellFoundedInduction, TLAPS

Entry == [sample : Sample \cup {NoSample}, rank : Int]

\* The slots that wait, among entries e.
Waiting(e) == {s \in Slot : e[s].rank >= 0}

\* The ranks of those that wait are 0, 1, ... without a gap, each once.
Ranks(e) ==
  /\ \A s \in Waiting(e) : e[s].rank < Cardinality(Waiting(e))
  /\ \A k \in 0 .. Cardinality(Waiting(e)) - 1 : \E s \in Waiting(e) : e[s].rank = k
  /\ \A s, r \in Waiting(e) : e[s].rank = e[r].rank => s = r

Ranked(e) ==
  /\ e \in [Slot -> Entry]
  /\ \A s \in Slot : e[s].rank >= 0 <=> e[s].sample # NoSample
  /\ Ranks(e)

-----------------------------------------------------------------------------
(* Sets of slots *)

\* No more slots than there are can wait, and no fewer when the queue is full.
LEMMA WaitingFinite ==
  ASSUME NEW T \in SUBSET Slot
  PROVE  /\ IsFiniteSet(T) /\ Cardinality(T) \in 0 .. QueueCapacity
         /\ Cardinality(T) = QueueCapacity => T = Slot
<1>1. IsFiniteSet(Slot) /\ Cardinality(Slot) = QueueCapacity
  BY QueueAssumption, FS_Interval DEF Slot
<1>2. IsFiniteSet(T) /\ Cardinality(T) <= Cardinality(Slot)
      /\ (Cardinality(Slot) = Cardinality(T) => Slot = T)
  BY <1>1, FS_Subset
<1> QED
  BY <1>1, <1>2, FS_CardinalityType, QueueAssumption

\* A free slot can be found.
LEMMA FirstExists ==
  ASSUME NEW T \in SUBSET Nat, T # {}
  PROVE  \E s \in T : \A r \in T : s <= r
<1> DEFINE less == {p \in Nat \X Nat : p[1] < p[2]}
<1>1. IsWellFoundedOn(less, Nat)
  BY NatLessThanWellFounded DEF OpToRel
<1> HIDE DEF less
<1>2. PICK s \in T : \A r \in T : ~(<<r, s>> \in less)
  BY <1>1, WFMin
<1>3. \A r \in T : ~(r < s)
  BY <1>2 DEF less
<1> QED
  BY <1>3

-----------------------------------------------------------------------------
(* The queue's operations *)

\* A sample that finds a free slot becomes the newest.
LEMMA FillRanked ==
  ASSUME NEW e, Ranked(e), NEW d \in Slot \ Waiting(e), NEW sample \in Sample \ {NoSample}
  PROVE  Ranked([e EXCEPT ![d] = [sample |-> sample, rank |-> Cardinality(Waiting(e))]])
<1> DEFINE n == Cardinality(Waiting(e))
           f == [e EXCEPT ![d] = [sample |-> sample, rank |-> n]]
<1>1. n \in Nat /\ IsFiniteSet(Waiting(e))
  BY WaitingFinite DEF Waiting
<1>2. /\ f \in [Slot -> Entry] /\ f[d].rank = n /\ f[d].sample = sample
      /\ \A s \in Slot \ {d} : f[s] = e[s]
  <2> DEFINE new == [sample |-> sample, rank |-> n]
  <2>1. new \in Entry /\ new.rank = n /\ new.sample = sample
    BY <1>1 DEF Entry
  <2>2. e \in [Slot -> Entry] /\ f = [e EXCEPT ![d] = new]
    BY DEF Ranked
  <2> HIDE DEF new, f
  <2> QED
    BY <2>1, <2>2
<1> HIDE DEF f
<1>3. Waiting(f) = Waiting(e) \cup {d}
  <2> HIDE DEF n
  <2> QED
    BY <1>1, <1>2 DEF Waiting
<1>4. Cardinality(Waiting(f)) = n + 1
  BY <1>1, <1>3, FS_AddElement
<1> HIDE DEF n
<1>5. /\ \A s \in Waiting(e) : e[s].rank < n
      /\ \A k \in 0 .. n - 1 : \E s \in Waiting(e) : e[s].rank = k
      /\ \A s, r \in Waiting(e) : e[s].rank = e[r].rank => s = r
      /\ \A s \in Waiting(e) : s # d /\ s \in Slot /\ e[s].rank \in Int
  BY DEF Ranked, Ranks, n, Waiting, Entry
<1>6. \A s \in Waiting(f) : f[s].rank < n + 1
  BY <1>1, <1>2, <1>3, <1>5
<1>7. ASSUME NEW k \in 0 .. n
      PROVE  \E s \in Waiting(f) : f[s].rank = k
  <2>1. CASE k = n
    BY <1>2, <1>3, <2>1
  <2>2. CASE k # n
    BY <1>1, <1>2, <1>3, <1>5, <2>2
  <2> QED
    BY <2>1, <2>2
<1>8. ASSUME NEW s \in Waiting(f), NEW r \in Waiting(f), f[s].rank = f[r].rank
      PROVE  s = r
  BY <1>1, <1>2, <1>3, <1>5, <1>8
<1>9. Ranks(f)
  BY <1>1, <1>4, <1>6, <1>7, <1>8 DEF Ranks
<1>10. \A s \in Slot : f[s].rank >= 0 <=> f[s].sample # NoSample
  BY <1>1, <1>2 DEF Ranked
<1> QED
  BY <1>2, <1>9, <1>10 DEF Ranked, f, n

\* In a full queue the oldest sample makes room, and the others age.
LEMMA ReplaceRanked ==
  ASSUME NEW e, Ranked(e), Cardinality(Waiting(e)) = QueueCapacity,
         NEW d \in Slot, e[d].rank = 0, NEW sample \in Sample \ {NoSample}
  PROVE  Ranked([[s \in Slot |-> [e[s] EXCEPT !.rank = @ - 1]]
                   EXCEPT ![d] = [sample |-> sample, rank |-> QueueCapacity - 1]])
<1> DEFINE f == [[s \in Slot |-> [e[s] EXCEPT !.rank = @ - 1]]
                   EXCEPT ![d] = [sample |-> sample, rank |-> QueueCapacity - 1]]
<1>1. Waiting(e) = Slot
  BY WaitingFinite DEF Waiting
<1>2. \A s \in Slot : e[s] \in Entry /\ e[s].rank \in Nat
  BY <1>1 DEF Ranked, Waiting, Entry
<1>3. /\ f \in [Slot -> Entry] /\ f[d].rank = QueueCapacity - 1 /\ f[d].sample = sample
      /\ \A s \in Slot \ {d} : f[s].rank = e[s].rank - 1 /\ f[s].sample = e[s].sample
  BY <1>2, QueueAssumption DEF Entry
<1> HIDE DEF f
<1>4. /\ \A s \in Slot : e[s].rank < QueueCapacity
      /\ \A k \in 0 .. QueueCapacity - 1 : \E s \in Slot : e[s].rank = k
      /\ \A s, r \in Slot : e[s].rank = e[r].rank => s = r
  BY <1>1 DEF Ranked, Ranks
<1>5. \A s \in Slot \ {d} : e[s].rank > 0
  BY <1>2, <1>4
<1>6. Waiting(f) = Slot
  BY <1>2, <1>3, <1>5, QueueAssumption DEF Waiting
<1>7. \A s \in Slot : f[s].rank < QueueCapacity
  BY <1>2, <1>3, <1>4, QueueAssumption
<1>8. ASSUME NEW k \in 0 .. QueueCapacity - 1
      PROVE  \E s \in Slot : f[s].rank = k
  <2>1. CASE k = QueueCapacity - 1
    BY <1>3, <2>1
  <2>2. CASE k # QueueCapacity - 1
    <3>1. k + 1 \in 0 .. QueueCapacity - 1
      BY <2>2, QueueAssumption
    <3>2. PICK s \in Slot : e[s].rank = k + 1
      BY <1>4, <3>1
    <3> QED
      BY <1>3, <3>2
  <2> QED
    BY <2>1, <2>2
<1>9. ASSUME NEW s \in Slot, NEW r \in Slot, f[s].rank = f[r].rank
      PROVE  s = r
  BY <1>2, <1>3, <1>4, <1>9, QueueAssumption
<1>10. Ranks(f)
  BY <1>1, <1>6, <1>7, <1>8, <1>9 DEF Ranks
<1>11. \A s \in Slot : f[s].rank >= 0 <=> f[s].sample # NoSample
  <2>1. \A s \in Slot : f[s].rank >= 0
    BY <1>6 DEF Waiting
  <2>2. \A s \in Slot : f[s].sample # NoSample
    BY <1>1, <1>3 DEF Ranked, Waiting
  <2> QED
    BY <2>1, <2>2
<1> QED
  BY <1>3, <1>10, <1>11 DEF Ranked, f

\* What was learnt leaves, and the younger ones move up.
LEMMA ConsumeRanked ==
  ASSUME NEW e, Ranked(e), NEW slot \in Waiting(e)
  PROVE  LET f == [s \in Slot |->
                     IF s = slot THEN FreeEntry
                     ELSE IF e[s].rank > e[slot].rank THEN [e[s] EXCEPT !.rank = @ - 1]
                     ELSE e[s]]
         IN  Ranked(f) /\ Cardinality(Waiting(f)) = Cardinality(Waiting(e)) - 1
<1> DEFINE n == Cardinality(Waiting(e))
           f == [s \in Slot |->
                   IF s = slot THEN FreeEntry
                   ELSE IF e[s].rank > e[slot].rank THEN [e[s] EXCEPT !.rank = @ - 1]
                   ELSE e[s]]
<1>1. n \in Nat /\ IsFiniteSet(Waiting(e))
  BY WaitingFinite DEF Waiting
<1>2. /\ slot \in Slot /\ e[slot].rank \in Nat
      /\ \A s \in Slot : e[s] \in Entry /\ e[s].rank \in Int
  BY DEF Ranked, Waiting, Entry
<1>3. /\ f \in [Slot -> Entry] /\ f[slot].rank = -1 /\ f[slot].sample = NoSample
      /\ \A s \in Slot \ {slot} :
           /\ f[s].rank = (IF e[s].rank > e[slot].rank THEN e[s].rank - 1 ELSE e[s].rank)
           /\ f[s].sample = e[s].sample
  BY <1>2 DEF Entry, FreeEntry
<1> HIDE DEF f
<1>4. Waiting(f) = Waiting(e) \ {slot}
  BY <1>2, <1>3 DEF Waiting
<1>5. Cardinality(Waiting(f)) = n - 1
  BY <1>1, <1>4, FS_RemoveElement
<1> HIDE DEF n
<1>6. /\ \A s \in Waiting(e) : e[s].rank < n
      /\ \A k \in 0 .. n - 1 : \E s \in Waiting(e) : e[s].rank = k
      /\ \A s, r \in Waiting(e) : e[s].rank = e[r].rank => s = r
      /\ \A s \in Waiting(e) : s \in Slot /\ e[s].rank \in Nat
  BY <1>2 DEF Ranked, Ranks, n, Waiting
<1>7. \A s \in Waiting(f) : f[s].rank < n - 1
  BY <1>1, <1>2, <1>3, <1>4, <1>6
<1>8. ASSUME NEW k \in 0 .. n - 2
      PROVE  \E s \in Waiting(f) : f[s].rank = k
  <2>1. CASE k < e[slot].rank
    <3>1. PICK s \in Waiting(e) : e[s].rank = k
      BY <1>1, <1>6
    <3> QED
      BY <1>2, <1>3, <1>4, <1>6, <2>1, <3>1
  <2>2. CASE k >= e[slot].rank
    <3>1. k + 1 \in 0 .. n - 1
      BY <1>1
    <3>2. PICK s \in Waiting(e) : e[s].rank = k + 1
      BY <1>6, <3>1
    <3> QED
      BY <1>2, <1>3, <1>4, <1>6, <2>2, <3>2
  <2> QED
    BY <1>2, <2>1, <2>2
<1>9. ASSUME NEW s \in Waiting(f), NEW r \in Waiting(f), f[s].rank = f[r].rank
      PROVE  s = r
  BY <1>2, <1>3, <1>4, <1>6, <1>9
<1>10. Ranks(f)
  BY <1>1, <1>5, <1>7, <1>8, <1>9 DEF Ranks
<1>11. \A s \in Slot : f[s].rank >= 0 <=> f[s].sample # NoSample
  BY <1>2, <1>3 DEF Ranked
<1> QED
  BY <1>3, <1>5, <1>10, <1>11 DEF Ranked, f, n

-----------------------------------------------------------------------------
(* The queue *)

QueueFields == {"disabled", "entry", "live", "input", "shown"}

\* What holds of a queue before and after every operation.
QueueInv(q) ==
  /\ DOMAIN q = QueueFields
  /\ q.live = {} => q.input = {} /\ q.shown = << >>
  /\ IF q.disabled THEN q.entry = << >> ELSE Ranked(q.entry)

\* What the code calls occupied are the slots that wait.
LEMMA TakenWaits ==
  ASSUME NEW q, QueueInv(q)
  PROVE  /\ ~q.disabled => Ranked(q.entry) /\ Taken(q) = Waiting(q.entry)
         /\ q.disabled => Taken(q) = {}
         /\ Taken(q) \in SUBSET Slot
<1>1. CASE q.disabled
  BY <1>1 DEF QueueInv, Taken
<1>2. CASE ~q.disabled
  BY <1>2 DEF QueueInv, Taken, Waiting, Ranked
<1> QED
  BY <1>1, <1>2

\* The number of waiting samples is within the capacity.
LEMMA OccupiedBound ==
  ASSUME NEW q, QueueInv(q)
  PROVE  /\ Occupied(q) \in 0 .. QueueCapacity
         /\ Taken(q) # {} => Occupied(q) >= 1
<1>1. Taken(q) \in SUBSET Slot
  BY TakenWaits
<1>2. IsFiniteSet(Taken(q)) /\ Occupied(q) \in 0 .. QueueCapacity
  BY <1>1, WaitingFinite DEF Occupied
<1>3. Occupied(q) = 0 => Taken(q) = {}
  BY <1>2, FS_EmptySet DEF Occupied
<1> QED
  BY <1>2, <1>3, QueueAssumption

\* goodix_study_queue_validate accepts such a queue.
LEMMA RankedValid ==
  ASSUME NEW q, QueueInv(q)
  PROVE  ValidQueue(q)
<1>1. CASE q.disabled
  BY <1>1 DEF QueueInv, ValidQueue
<1>2. CASE ~q.disabled
  <2>1. Ranked(q.entry) /\ Taken(q) = Waiting(q.entry)
    BY <1>2, TakenWaits
  <2>2. Occupied(q) = Cardinality(Waiting(q.entry)) /\ Occupied(q) \in Nat
    BY <2>1, OccupiedBound DEF Occupied
  <2>3. \A s \in Waiting(q.entry) :
          q.entry[s].rank \in Int /\ q.entry[s].rank >= 0
    BY <2>1 DEF Ranked, Waiting, Entry
  <2>4. {q.entry[s].rank : s \in Taken(q)} = 0 .. Occupied(q) - 1
    <3>1. \A s \in Taken(q) : q.entry[s].rank \in 0 .. Occupied(q) - 1
      BY <2>1, <2>2, <2>3 DEF Ranked, Ranks
    <3>2. \A k \in 0 .. Occupied(q) - 1 : \E s \in Taken(q) : q.entry[s].rank = k
      BY <2>1, <2>2 DEF Ranked, Ranks
    <3> QED
      BY <3>1, <3>2
  <2>5. /\ DOMAIN q.entry = Slot
        /\ \A s \in Slot : (q.entry[s].rank >= 0) = (q.entry[s].sample # NoSample)
    BY <2>1 DEF Ranked
  <2> QED
    BY <1>2, <2>4, <2>5 DEF QueueInv, ValidQueue
<1> QED
  BY <1>1, <1>2

\* A new queue has no samples.
LEMMA NewQueueInv ==
  ASSUME NEW d
  PROVE  QueueInv(NewQueue(d))
<1> DEFINE e == [s \in Slot |-> FreeEntry]
<1>1. e \in [Slot -> Entry]
  BY DEF Entry, FreeEntry
<1>2. Waiting(e) = {} /\ \A s \in Slot : e[s].rank >= 0 <=> e[s].sample # NoSample
  BY DEF Waiting, FreeEntry
<1>3. Cardinality(Waiting(e)) = 0
  BY <1>2, FS_EmptySet
<1>4. Ranked(e)
  BY <1>1, <1>2, <1>3 DEF Ranked, Ranks
<1> QED
  BY <1>4 DEF QueueInv, NewQueue, QueueFields

\* The slot a sample goes to is free, or has the oldest sample.
LEMMA DestinationFound ==
  ASSUME NEW q, QueueInv(q), ~q.disabled
  PROVE  /\ Destination(q) \in Slot
         /\ Occupied(q) # QueueCapacity => Destination(q) \notin Taken(q)
         /\ Occupied(q) = QueueCapacity => q.entry[Destination(q)].rank = 0
<1> DEFINE free == Slot \ Taken(q)
<1>1. /\ Ranked(q.entry) /\ Taken(q) = Waiting(q.entry)
      /\ Taken(q) \in SUBSET Slot /\ Occupied(q) = Cardinality(Waiting(q.entry))
  BY TakenWaits DEF Occupied
<1>2. CASE free # {}
  <2>1. \E s \in free : \A r \in free : s <= r
    <3>1. free \in SUBSET Nat
      BY DEF Slot
    <3> HIDE DEF free
    <3> QED
      BY <1>2, <3>1, FirstExists
  <2>2. Destination(q) = CHOOSE s \in free : \A r \in free : s <= r
    BY <1>2 DEF Destination
  <2>3. Destination(q) \in free
    <3> HIDE DEF free
    <3> QED
      BY <2>1, <2>2
  <2>4. Occupied(q) # QueueCapacity
    <3>1. Cardinality(Slot) = QueueCapacity /\ IsFiniteSet(Slot)
      BY QueueAssumption, FS_Interval DEF Slot
    <3>2. Cardinality(Taken(q)) # Cardinality(Slot)
      BY <1>1, <1>2, <3>1, FS_Subset
    <3> QED
      BY <3>1, <3>2 DEF Occupied
  <2> QED
    BY <2>3, <2>4
<1>3. CASE free = {}
  <2>1. Taken(q) = Slot
    BY <1>1, <1>3
  <2>2. Occupied(q) = QueueCapacity
    BY <2>1, QueueAssumption, FS_Interval DEF Occupied, Slot
  <2>3. \E s \in Slot : q.entry[s].rank = 0
    <3>1. 0 \in 0 .. QueueCapacity - 1
      BY QueueAssumption
    <3> QED
      BY <1>1, <2>1, <2>2, <3>1 DEF Ranked, Ranks
  <2>4. Destination(q) = CHOOSE s \in Slot : q.entry[s].rank = 0
    BY <1>3 DEF Destination
  <2> QED
    BY <2>2, <2>3, <2>4
<1> QED
  BY <1>2, <1>3

\* goodix_study_queue_enqueue
LEMMA EnqueueInv ==
  ASSUME NEW q, QueueInv(q), NEW sample \in Sample \ {NoSample}, NEW duplicate
  PROVE  QueueInv(Enqueue(q, sample, duplicate))
<1>1. CASE q.disabled \/ (duplicate /\ Occupied(q) # 0)
  BY <1>1 DEF Enqueue
<1>2. CASE ~(q.disabled \/ (duplicate /\ Occupied(q) # 0))
  <2> DEFINE d == Destination(q)
  <2>1. /\ ~q.disabled /\ Ranked(q.entry) /\ Taken(q) = Waiting(q.entry)
        /\ Occupied(q) = Cardinality(Waiting(q.entry)) /\ d \in Slot
    BY <1>2, TakenWaits, DestinationFound DEF Occupied
  <2> SUFFICES ASSUME NEW f, Ranked(f), Enqueue(q, sample, duplicate) = [q EXCEPT !.entry = f]
               PROVE  QueueInv(Enqueue(q, sample, duplicate))
    <3>1. CASE Occupied(q) = QueueCapacity
      <4> DEFINE g == [[s \in Slot |-> [q.entry[s] EXCEPT !.rank = @ - 1]]
                         EXCEPT ![d] = [sample |-> sample, rank |-> QueueCapacity - 1]]
      <4>1. q.entry[d].rank = 0
        BY <2>1, <3>1, DestinationFound
      <4>2. Ranked(g)
        BY <2>1, <3>1, <4>1, ReplaceRanked
      <4>3. Enqueue(q, sample, duplicate) = [q EXCEPT !.entry = g]
        BY <1>2, <3>1 DEF Enqueue
      <4> QED
        BY <4>2, <4>3
    <3>2. CASE Occupied(q) # QueueCapacity
      <4> DEFINE g == [q.entry EXCEPT ![d] = [sample |-> sample,
                                              rank |-> Cardinality(Waiting(q.entry))]]
      <4>1. d \in Slot \ Waiting(q.entry)
        BY <2>1, <3>2, DestinationFound
      <4>2. Ranked(g)
        BY <2>1, <4>1, FillRanked
      <4>3. Enqueue(q, sample, duplicate) = [q EXCEPT !.entry = g]
        BY <1>2, <2>1, <3>2 DEF Enqueue
      <4> QED
        BY <4>2, <4>3
    <3> QED
      BY <3>1, <3>2
  <2> QED
    BY <2>1 DEF QueueInv, QueueFields
<1> QED
  BY <1>1, <1>2

\* goodix_study_queue_consume
LEMMA ConsumeInv ==
  ASSUME NEW q, QueueInv(q), NEW slot \in Taken(q)
  PROVE  /\ QueueInv(Consume(q, slot)) /\ Consume(q, slot).disabled = q.disabled
         /\ Occupied(Consume(q, slot)) = Occupied(q) - 1
<1> DEFINE e == q.entry
           f == [s \in Slot |->
                   IF s = slot THEN FreeEntry
                   ELSE IF e[s].rank > e[slot].rank THEN [e[s] EXCEPT !.rank = @ - 1]
                   ELSE e[s]]
<1>1. ~q.disabled /\ Ranked(e) /\ slot \in Waiting(e) /\ Taken(q) = Waiting(e)
  BY TakenWaits
<1>2. Ranked(f) /\ Cardinality(Waiting(f)) = Cardinality(Waiting(e)) - 1
  BY <1>1, ConsumeRanked
<1>3. Consume(q, slot) = [q EXCEPT !.entry = f]
  BY DEF Consume
<1> HIDE DEF f
<1>4. QueueInv(Consume(q, slot)) /\ ~Consume(q, slot).disabled
      /\ Consume(q, slot).entry = f /\ Consume(q, slot).disabled = q.disabled
  BY <1>1, <1>2, <1>3 DEF QueueInv, QueueFields
<1>5. Taken(Consume(q, slot)) = Waiting(f)
  BY <1>4, TakenWaits
<1> QED
  BY <1>1, <1>2, <1>4, <1>5 DEF Occupied

\* Publishing a gallery leaves what waits alone.
LEMMA PublishInv ==
  ASSUME NEW q, QueueInv(q), NEW gallery, NEW input, NEW shown
  PROVE  QueueInv(Publish(q, gallery, input, shown))
  BY DEF QueueInv, QueueFields, Publish

\* A queue that is switched off has no entries.
LEMMA DisableInv ==
  ASSUME NEW q, QueueInv(q)
  PROVE  QueueInv(Disable(q))
  BY DEF QueueInv, QueueFields, Disable

\* A failed call takes the gallery away and leaves what waits.
LEMMA ClearInv ==
  ASSUME NEW q, QueueInv(q)
  PROVE  QueueInv(ClearGallery(q))
  BY DEF QueueInv, QueueFields, ClearGallery

-----------------------------------------------------------------------------
(* The state *)

WorkFields == {"current", "shown", "pending", "trigger", "slot", "mutated"}

\* While samples are followed up there is room in the ring for each that
\* still waits in front of the current slot.  The one more is the feature
\* that is taken from the ring before its turn begins.
Room ==
  Following =>
    /\ Len(work.pending) + Occupied(queue) <= QueueCapacity + 1
    /\ Remaining # {} => Len(work.pending) + Occupied(queue) <= QueueCapacity

PendingSeq == \E S : work.pending \in Seq(S)

\* The invariant that the steps preserve.
QueueInvariant ==
  /\ count \in 0 .. Len(Probes)
  /\ pc = "matched" => count > 0
  /\ QueueInv(queue)
  /\ DOMAIN work = WorkFields /\ PendingSeq
  /\ Room

\* Every probe is a sample.
LEMMA ProbeSample ==
  ASSUME NEW i \in 1 .. Len(Probes)
  PROVE  Probes[i] \in Sample \ {NoSample}
  BY StudyAssumption

\* An empty context keeps no feature.
LEMMA NoWorkShape == DOMAIN NoWork = WorkFields /\ NoWork.pending \in Seq({})
  BY DEF NoWork, WorkFields

\* Nothing waits and nothing is followed up at the beginning.
LEMMA QueueInvariantInit == Init => QueueInvariant
<1> SUFFICES ASSUME Init PROVE QueueInvariant
  OBVIOUS
<1>1. QueueInv(queue)
  BY NewQueueInv DEF Init
<1>2. Len(Probes) \in Nat
  BY StudyAssumption
<1>3. DOMAIN work = WorkFields /\ PendingSeq
  BY NoWorkShape DEF Init, PendingSeq
<1>4. Room
  BY DEF Init, Room, Following
<1> QED
  BY <1>1, <1>2, <1>3, <1>4 DEF QueueInvariant, Init

\* A step that ends the call keeps the invariant when it keeps the queue's.
LEMMA CallEnds ==
  ASSUME QueueInvariant, pc' # "following", QueueInv(queue)', count' \in 0 .. Len(Probes),
         pc' = "matched" => count' > 0, work' = work \/ work' = NoWork
  PROVE  QueueInvariant'
<1>1. (DOMAIN work = WorkFields /\ PendingSeq)'
  <2>1. CASE work' = work
    BY <2>1 DEF QueueInvariant, PendingSeq
  <2>2. CASE work' = NoWork
    BY <2>2, NoWorkShape DEF PendingSeq
  <2> QED
    BY <2>1, <2>2
<1>2. Room'
  BY DEF Room, Following
<1> QED
  BY <1>1, <1>2 DEF QueueInvariant

\* A sample that is learnt leaves the queue and its feature enters the ring.
LEMMA RejoinRoom ==
  ASSUME QueueInvariant, Following, NEW slot \in Remaining, NEW t, NEW selected,
         Rejoin(slot, t, selected), UNCHANGED <<pc, count>>
  PROVE  QueueInvariant'
<1>1. slot \in Taken(queue) /\ QueueInv(queue) /\ ~queue.disabled
  BY DEF Remaining, QueueInvariant, Following
<1>2. /\ QueueInv(queue)' /\ ~queue'.disabled
      /\ Occupied(queue') = Occupied(queue) - 1 /\ Occupied(queue) \in Nat
  BY <1>1, ConsumeInv, OccupiedBound DEF Rejoin
<1>3. PICK S : work.pending \in Seq(S)
  BY DEF QueueInvariant, PendingSeq
<1>4. /\ DOMAIN work' = WorkFields
      /\ work'.pending = Append(work.pending, selected)
  BY DEF Rejoin, QueueInvariant, WorkFields
<1>5. /\ work'.pending \in Seq(S \cup {selected})
      /\ Len(work'.pending) = Len(work.pending) + 1 /\ Len(work.pending) \in Nat
  <2>1. work.pending \in Seq(S \cup {selected})
    BY <1>3
  <2> QED
    BY <1>3, <1>4, <2>1
<1>6. Len(work.pending) + Occupied(queue) <= QueueCapacity
  BY DEF QueueInvariant, Room
<1>7. Room'
  BY <1>2, <1>5, <1>6, QueueAssumption DEF Room
<1> QED
  BY <1>2, <1>4, <1>5, <1>7 DEF QueueInvariant, PendingSeq

\* The queue and the ring, after every step.
LEMMA QueueInvariantStep ==
  ASSUME QueueInvariant, [Next]_vars
  PROVE  QueueInvariant'
<1> USE DEF QueueInvariant
<1>0. Len(Probes) \in Nat
  BY StudyAssumption
<1>1. CASE NextAuthentication
  <2>1. QueueInv(queue)'
    BY <1>1, NewQueueInv DEF NextAuthentication
  <2> QED
    BY <1>1, <2>1, CallEnds DEF NextAuthentication
<1>2. CASE MatchProbe
  <2>1. count < Len(Probes) /\ count' = count + 1 /\ pc' = "matched" /\ work' = work
    BY <1>2 DEF MatchProbe
  <2>2. Probes[count'] \in Sample \ {NoSample}
    BY <1>0, <2>1, ProbeSample
  <2>3. PICK eligible, duplicate \in BOOLEAN : \E gallery, shown :
          queue' = Publish(IF eligible THEN Enqueue(queue, Probes[count'], duplicate)
                           ELSE queue, gallery, {}, shown)
    BY <1>2 DEF MatchProbe
  <2>4. QueueInv(IF eligible THEN Enqueue(queue, Probes[count'], duplicate) ELSE queue)
    BY <2>2, EnqueueInv
  <2>5. QueueInv(queue)'
    BY <2>3, <2>4, PublishInv
  <2> QED
    BY <1>0, <2>1, <2>5, CallEnds
<1>3. CASE StudyNothing
  <2>1. QueueInv(queue)'
    BY <1>3, PublishInv DEF StudyNothing, PublishQuietly
  <2> QED
    BY <1>3, <2>1, CallEnds DEF StudyNothing, PublishQuietly
<1>4. CASE StudyActionZero
  <2>1. Probe \in Sample \ {NoSample}
    BY <1>0, <1>4, ProbeSample DEF StudyActionZero, Probe
  <2>2. PICK worth, duplicate \in BOOLEAN : \E gallery :
          PublishQuietly(IF AtCapacity(Gallery) THEN Disable(queue)
                         ELSE IF worth THEN Enqueue(queue, Probe, duplicate)
                         ELSE queue, gallery)
    BY <1>4 DEF StudyActionZero
  <2>3. QueueInv(IF AtCapacity(Gallery) THEN Disable(queue)
                 ELSE IF worth THEN Enqueue(queue, Probe, duplicate)
                 ELSE queue)
    BY <2>1, EnqueueInv, DisableInv
  <2>4. QueueInv(queue)'
    BY <2>2, <2>3, PublishInv DEF PublishQuietly
  <2> QED
    BY <2>2, <2>4, CallEnds DEF PublishQuietly
<1>5. CASE StudyAppend \/ StudyReplace
  <2>1. PICK t, selected : Learn(t, selected)
    BY <1>5 DEF StudyAppend, StudyReplace
  <2>2. DOMAIN work' = WorkFields /\ work'.pending = <<selected>> /\ work'.slot = QueueCapacity
    BY <2>1 DEF Learn, WorkFields
  <2>3. work'.pending \in Seq({selected}) /\ Len(work'.pending) = 1
    BY <2>2
  <2>4. UNCHANGED <<queue, count>> /\ pc' = "following"
    BY <2>1 DEF Learn
  <2>5. Occupied(queue) \in 0 .. QueueCapacity /\ Taken(queue) \in SUBSET Slot
    BY OccupiedBound, TakenWaits
  <2>6. Remaining' = {}
    BY <2>2, <2>4, <2>5, QueueAssumption DEF Remaining, Slot
  <2>7. Room'
    BY <2>3, <2>4, <2>5, <2>6, QueueAssumption DEF Room
  <2> QED
    BY <2>2, <2>3, <2>4, <2>7 DEF PendingSeq
<1>6. CASE StudyWithoutReference
  <2>1. QueueInv(queue)' /\ pc' = "idle" /\ work' = NoWork /\ UNCHANGED count
    BY <1>6, ClearInv DEF StudyWithoutReference, Fail
  <2> QED
    BY <2>1, CallEnds
<1>7. CASE NextTrigger
  <2>1. PICK S : work.pending \in Seq(S)
    BY DEF PendingSeq
  <2>2. /\ DOMAIN work' = WorkFields /\ work'.pending = Tail(work.pending)
        /\ work.pending # << >> /\ Following /\ UNCHANGED <<queue, pc, count>>
    BY <1>7 DEF NextTrigger, WorkFields
  <2>3. /\ work'.pending \in Seq(S) /\ Len(work.pending) \in Nat
        /\ Len(work'.pending) = Len(work.pending) - 1
    BY <2>1, <2>2
  <2>4. Occupied(queue) \in Nat
    BY OccupiedBound
  <2>5. Room'
    BY <2>2, <2>3, <2>4, QueueAssumption DEF Room
  <2> QED
    BY <2>2, <2>3, <2>5 DEF PendingSeq
<1>8. CASE Followup
  <2> DEFINE first == CHOOSE s \in Remaining : \A r \in Remaining : s <= r
  <2>1. first \in Remaining
    <3>1. Remaining \in SUBSET Nat
      BY TakenWaits DEF Remaining, Slot
    <3>2. Remaining # {}
      BY <1>8 DEF Followup
    <3> QED
      BY <3>1, <3>2, FirstExists
  <2>2. Following /\ Remaining # {} /\ UNCHANGED <<pc, count>>
    BY <1>8 DEF Followup
  <2>3. ASSUME NEW t, work' = [work EXCEPT !.current = {t}, !.slot = first + 1],
               UNCHANGED queue
        PROVE  QueueInvariant'
    <3>1. DOMAIN work' = WorkFields /\ work'.pending = work.pending
      BY <2>3 DEF WorkFields
    <3>2. Room'
      BY <2>2, <2>3, <3>1 DEF Room
    <3> QED
      BY <2>2, <2>3, <3>1, <3>2 DEF PendingSeq
  <2>4. ASSUME NEW t, NEW selected, Rejoin(first, t, selected)
        PROVE  QueueInvariant'
    BY <2>1, <2>2, <2>4, RejoinRoom
  <2>5. \E t :
          \/ /\ work' = [work EXCEPT !.current = {t}, !.slot = first + 1]
             /\ UNCHANGED queue
          \/ \E u, selected : Rejoin(first, u, selected)
    <3>1. PICK t :
            \/ /\ work' = [work EXCEPT !.current = {t}, !.slot = first + 1]
               /\ UNCHANGED queue
            \/ \E relation, flag :
                 \/ Rejoin(first, AppendFeature(t, queue.entry[first].sample, work.trigger,
                                               relation, {}, FALSE), t.n)
                 \/ \E target :
                      Rejoin(first, ReplaceFeature([t |-> t, m |-> BuildMatrix(t),
                                                    relation |-> relation],
                                                   queue.entry[first].sample, work.trigger,
                                                   target, flag), target)
      BY ZenonT(40), <1>8, Zenon DEF Followup
    <3> QED
      BY <3>1, Zenon
  <2> QED
    BY <2>3, <2>4, <2>5
<1>9. CASE FinishStudy
  <2>1. PICK gallery, shown :
          queue' = Publish(IF AtCapacity(Current) THEN Disable(queue) ELSE queue,
                           gallery, {}, shown)
    BY <1>9 DEF FinishStudy
  <2>2. QueueInv(queue)'
    BY <2>1, DisableInv, PublishInv
  <2> QED
    BY <1>9, <2>2, CallEnds DEF FinishStudy
<1>10. CASE UNCHANGED vars
  BY <1>10 DEF vars, PendingSeq, Room, Following, Remaining
<1> QED
  BY <1>1, <1>2, <1>3, <1>4, <1>5, <1>6, <1>7, <1>8, <1>9, <1>10 DEF Next, Study

\* The ranks of the waiting samples stay a permutation, and the ring has room
\* for the feature of every sample that may still be learnt: for every
\* capacity of the queue, however many probes are presented and whatever is
\* learnt from them.
THEOREM QueueStaysBounded == Spec => []QueueBounded
<1>1. QueueInvariant => QueueBounded
  <2> SUFFICES ASSUME QueueInvariant PROVE QueueBounded
    OBVIOUS
  <2>1. ValidQueue(queue)
    BY RankedValid DEF QueueInvariant
  <2>2. ASSUME Following, Remaining # {}
        PROVE  Len(work.pending) < QueueCapacity
    <3>1. Taken(queue) # {}
      BY <2>2 DEF Remaining
    <3>2. Occupied(queue) >= 1 /\ Occupied(queue) \in Nat
      BY <3>1, OccupiedBound DEF QueueInvariant
    <3>3. Len(work.pending) \in Nat
      BY DEF QueueInvariant, PendingSeq
    <3>4. Len(work.pending) + Occupied(queue) <= QueueCapacity
      BY <2>2 DEF QueueInvariant, Room
    <3> QED
      BY <3>2, <3>3, <3>4, QueueAssumption
  <2> QED
    BY <2>1, <2>2 DEF QueueBounded
<1> QED
  BY QueueInvariantInit, QueueInvariantStep, <1>1, PTL DEF Spec

-----------------------------------------------------------------------------
(* The transforms are a group *)

\* The three coordinates.
LEMMA CoordinateIs == Coordinate = {1, 2, 3}
BY DEF Coordinate

\* A transform moves every coordinate somewhere, and no two to the same place.
LEMMA TransformIs ==
  ASSUME NEW t \in Transform
  PROVE  /\ t \in [Coordinate -> Coordinate]
         /\ \A c \in Coordinate : t[c] \in Coordinate
         /\ \A c \in Coordinate : \E d \in Coordinate : t[d] = c
         /\ \A c, d \in Coordinate : t[c] = t[d] => c = d
<1>1. /\ t \in [Coordinate -> Coordinate]
      /\ \A c \in Coordinate : \E d \in Coordinate : t[d] = c
  BY DEF Transform
<1>2. \A c \in Coordinate : t[c] \in Coordinate
  BY <1>1
<1>3. \A c, d \in Coordinate : t[c] = t[d] => c = d
  BY <1>1, <1>2, CoordinateIs
<1> QED
  BY <1>1, <1>2, <1>3

\* Two transforms that do the same are the same.
LEMMA SameTransform ==
  ASSUME NEW t \in Transform, NEW u \in Transform, \A c \in Coordinate : t[c] = u[c]
  PROVE  t = u
BY DEF Transform

\* The identity moves nothing.
LEMMA IdentityIs == Identity \in Transform /\ \A c \in Coordinate : Identity[c] = c
<1>1. /\ Identity \in [1 .. 3 -> Coordinate]
      /\ Identity[1] = 1 /\ Identity[2] = 2 /\ Identity[3] = 3
  BY CoordinateIs DEF Identity
<1>2. Identity \in [Coordinate -> Coordinate]
  BY <1>1 DEF Coordinate
<1>3. \A c \in Coordinate : Identity[c] = c
  BY <1>1, CoordinateIs
<1> QED
  BY <1>2, <1>3 DEF Transform

\* A composition is a transform, coordinate by coordinate.
LEMMA ComposeIs ==
  ASSUME NEW t \in Transform, NEW u \in Transform
  PROVE  /\ Compose(t, u) \in Transform
         /\ \A c \in Coordinate : Compose(t, u)[c] = t[u[c]]
<1> DEFINE v == Compose(t, u)
<1>1. t[u[1]] \in Coordinate /\ t[u[2]] \in Coordinate /\ t[u[3]] \in Coordinate
  BY TransformIs, CoordinateIs
<1>2. v[1] = t[u[1]] /\ v[2] = t[u[2]] /\ v[3] = t[u[3]] /\ v \in [1 .. 3 -> Coordinate]
  BY <1>1 DEF Compose
<1> HIDE DEF v
<1>3. v \in [Coordinate -> Coordinate] /\ \A c \in Coordinate : v[c] = t[u[c]]
  BY <1>2, CoordinateIs DEF Coordinate
<1>4. ASSUME NEW c \in Coordinate
      PROVE  \E d \in Coordinate : v[d] = c
  <2>1. PICK e \in Coordinate : t[e] = c
    BY TransformIs
  <2>2. PICK d \in Coordinate : u[d] = e
    BY TransformIs
  <2> QED
    BY <1>3, <2>1, <2>2
<1> QED
  BY <1>3, <1>4 DEF Transform, v

\* An inverse is a transform that leads back.
LEMMA InvertIs ==
  ASSUME NEW t \in Transform
  PROVE  /\ Invert(t) \in Transform
         /\ \A c \in Coordinate : t[Invert(t)[c]] = c /\ Invert(t)[t[c]] = c
<1> DEFINE from(c) == CHOOSE d \in Coordinate : t[d] = c
           u == Invert(t)
<1>1. ASSUME NEW c \in Coordinate
      PROVE  from(c) \in Coordinate /\ t[from(c)] = c
  <2>1. \E d \in Coordinate : t[d] = c
    BY TransformIs
  <2> QED
    BY <2>1
<1>2. u = <<from(1), from(2), from(3)>>
  BY DEF Invert
<1> HIDE DEF from, u
<1>3. from(1) \in Coordinate /\ from(2) \in Coordinate /\ from(3) \in Coordinate
  BY <1>1, CoordinateIs
<1>4. u \in [1 .. 3 -> Coordinate] /\ u[1] = from(1) /\ u[2] = from(2) /\ u[3] = from(3)
  BY <1>2, <1>3
<1>5. u \in [Coordinate -> Coordinate] /\ \A c \in Coordinate : u[c] = from(c)
  BY <1>4, CoordinateIs DEF Coordinate
<1>6. \A c \in Coordinate : u[c] \in Coordinate /\ t[u[c]] = c
  BY <1>1, <1>5
<1>7. \A c \in Coordinate : u[t[c]] = c
  BY <1>6, TransformIs
<1>8. \A c \in Coordinate : \E d \in Coordinate : u[d] = c
  BY <1>7, TransformIs
<1> QED
  BY <1>5, <1>6, <1>7, <1>8 DEF Transform, u

\* The laws of a group.
LEMMA ComposeAssociates ==
  ASSUME NEW t \in Transform, NEW u \in Transform, NEW v \in Transform
  PROVE  Compose(Compose(t, u), v) = Compose(t, Compose(u, v))
<1>1. /\ Compose(Compose(t, u), v) \in Transform /\ Compose(t, Compose(u, v)) \in Transform
      /\ Compose(t, u) \in Transform /\ Compose(u, v) \in Transform
  BY ComposeIs
<1>2. ASSUME NEW c \in Coordinate
      PROVE  Compose(Compose(t, u), v)[c] = Compose(t, Compose(u, v))[c]
  <2>1. v[c] \in Coordinate
    BY TransformIs
  <2>2. Compose(Compose(t, u), v)[c] = t[u[v[c]]]
    BY <1>1, <2>1, ComposeIs
  <2>3. Compose(t, Compose(u, v))[c] = t[u[v[c]]]
    BY <1>1, <2>1, ComposeIs
  <2> QED
    BY <2>2, <2>3
<1> QED
  BY <1>1, <1>2, SameTransform

\* The laws of the identity and of the inverse.
LEMMA ComposeIdentity ==
  ASSUME NEW t \in Transform
  PROVE  /\ Compose(t, Identity) = t /\ Compose(Identity, t) = t
         /\ Compose(t, Invert(t)) = Identity /\ Compose(Invert(t), t) = Identity
<1>1. Identity \in Transform /\ Invert(t) \in Transform
  BY IdentityIs, InvertIs
<1>2. Compose(t, Identity) = t
  BY <1>1, IdentityIs, ComposeIs, SameTransform
<1>3. Compose(Identity, t) = t
  BY <1>1, IdentityIs, ComposeIs, TransformIs, SameTransform
<1>4. Compose(t, Invert(t)) = Identity
  BY <1>1, IdentityIs, ComposeIs, InvertIs, SameTransform
<1>5. Compose(Invert(t), t) = Identity
  BY <1>1, IdentityIs, ComposeIs, InvertIs, SameTransform
<1> QED
  BY <1>2, <1>3, <1>4, <1>5

\* An equation determines its inverse.
LEMMA InverseIsUnique ==
  ASSUME NEW t \in Transform, NEW u \in Transform, Compose(t, u) = Identity
  PROVE  u = Invert(t) /\ t = Invert(u)
<1>1. Invert(t) \in Transform /\ Invert(u) \in Transform
  BY InvertIs
<1>2. u = Invert(t)
  <2>1. Compose(Invert(t), Compose(t, u)) = Invert(t)
    BY <1>1, ComposeIdentity
  <2>2. Compose(Compose(Invert(t), t), u) = u
    BY <1>1, ComposeIdentity
  <2> QED
    BY <1>1, <2>1, <2>2, ComposeAssociates
<1>3. t = Invert(u)
  <2>1. Compose(Compose(t, u), Invert(u)) = Invert(u)
    BY <1>1, ComposeIdentity
  <2>2. Compose(t, Compose(u, Invert(u))) = t
    BY <1>1, ComposeIdentity
  <2> QED
    BY <1>1, <2>1, <2>2, ComposeAssociates
<1> QED
  BY <1>2, <1>3

\* The inverse of the inverse.
LEMMA InvertTwice ==
  ASSUME NEW t \in Transform
  PROVE  Invert(Invert(t)) = t
BY InvertIs, ComposeIdentity, InverseIsUnique

\* A composition is inverted in the other order.
LEMMA InvertCompose ==
  ASSUME NEW t \in Transform, NEW u \in Transform
  PROVE  Invert(Compose(t, u)) = Compose(Invert(u), Invert(t))
<1> DEFINE a == Invert(t)
           b == Invert(u)
<1>1. a \in Transform /\ b \in Transform /\ Compose(t, u) \in Transform
      /\ Compose(b, a) \in Transform
  BY InvertIs, ComposeIs
<1>2. Compose(u, Compose(b, a)) = a
  BY <1>1, ComposeAssociates, ComposeIdentity
<1>3. Compose(Compose(t, u), Compose(b, a)) = Compose(t, a)
  BY <1>1, <1>2, ComposeAssociates
<1>4. Compose(t, a) = Identity
  BY ComposeIdentity
<1> QED
  BY <1>1, <1>3, <1>4, InverseIsUnique

-----------------------------------------------------------------------------
(* Slots of the relation matrix *)

\* The rows follow each other without overlap.
LEMMA RowIs ==
  ASSUME NEW f \in Nat
  PROVE  /\ RowBase(f) \in Nat
         /\ RegistrationCount(f) \in Nat
         /\ f > 0 => RowBase(f) = RegistrationCount(f) /\ RowBase(f) >= 1
                     /\ RowBase(f + 1) = RowBase(f) + f
                     /\ RegistrationCount(f + 1) = RegistrationCount(f) + f
<1>1. CASE f = 0
  BY <1>1 DEF RowBase, RegistrationCount
<1>2. CASE f > 0
  <2>1. f * (f - 1) \in Nat /\ (f + 1) * (f + 1 - 1) = f * (f - 1) + 2 * f
    BY <1>2
  <2> DEFINE p == f * (f - 1)
  <2>2. p \in Nat /\ (p + 2 * f) \div 2 = p \div 2 + f /\ p \div 2 \in Nat
    <3> HIDE DEF p
    <3>1. p \in Nat
      BY <2>1 DEF p
    <3> QED
      BY <3>1
  <2> QED
    BY <1>2, <2>1, <2>2 DEF RowBase, RegistrationCount
<1> QED
  BY <1>1, <1>2

\* A later row starts where an earlier one has ended.
LEMMA RowsApart ==
  ASSUME NEW f \in Nat \ {0}, NEW g \in Nat, f < g
  PROVE  RowBase(f) + f <= RowBase(g)
<1> DEFINE T == {h \in Nat : h > f /\ ~(RowBase(f) + f <= RowBase(h))}
<1>1. CASE T = {}
  BY <1>1
<1>2. CASE T # {}
  <2>1. PICK h \in T : \A k \in T : h <= k
    BY <1>2, FirstExists
  <2>2. h \in Nat /\ h > f /\ ~(RowBase(f) + f <= RowBase(h))
    BY <2>1
  <2> DEFINE k == h - 1
  <2>3. k \in Nat /\ k >= f /\ k > 0 /\ h = k + 1 /\ k < h
    BY <2>2
  <2>4. k \notin T
    BY <2>1, <2>3
  <2> HIDE DEF k
  <2>5. RowBase(h) = RowBase(k) + k /\ RowBase(k) \in Nat /\ RowBase(f) \in Nat
    BY <2>3, RowIs
  <2>6. k = f \/ RowBase(f) + f <= RowBase(k)
    BY <2>3, <2>4
  <2> QED
    BY <2>2, <2>3, <2>5, <2>6
<1> QED
  BY <1>1, <1>2

\* The slot of two features.
SlotAt(f, g) == IF f > g THEN RowBase(f) + g ELSE RowBase(g) + f

\* The slot of a pair lies within the count of registrations, whatever the order.
LEMMA SlotAtIs ==
  ASSUME NEW n \in Nat, NEW f \in 0 .. n - 1, NEW g \in 0 .. n - 1, f # g
  PROVE  SlotAt(f, g) \in 1 .. RegistrationCount(n) - 1 /\ SlotAt(f, g) = SlotAt(g, f)
<1>1. ASSUME NEW h \in 0 .. n - 1, NEW k \in 0 .. n - 1, h > k
      PROVE  RowBase(h) + k \in 1 .. RegistrationCount(n) - 1
  <2>1. h > 0 /\ h \in Nat /\ n \in Nat /\ n > 0
    BY <1>1
  <2>2. RowBase(h) \in Nat /\ RowBase(h) >= 1 /\ RowBase(n) = RegistrationCount(n)
        /\ RegistrationCount(n) \in Nat
    BY <2>1, RowIs
  <2>3. RowBase(h) + h <= RowBase(n)
    BY <1>1, <2>1, RowsApart
  <2> QED
    BY <1>1, <2>2, <2>3
<1>2. CASE f > g
  BY <1>1, <1>2 DEF SlotAt
<1>3. CASE g > f
  BY <1>1, <1>3 DEF SlotAt
<1> QED
  BY <1>2, <1>3

\* It is no other pair's.
LEMMA SlotsApart ==
  ASSUME NEW f \in Nat, NEW g \in Nat, f # g, NEW h \in Nat, NEW k \in Nat, h # k,
         SlotAt(f, g) = SlotAt(h, k)
  PROVE  \/ f = h /\ g = k
         \/ f = k /\ g = h
<1>1. ASSUME NEW a \in Nat, NEW b \in Nat, a > b, NEW c \in Nat, NEW d \in Nat, c > d,
             RowBase(a) + b = RowBase(c) + d
      PROVE  a = c /\ b = d
  <2>1. RowBase(a) \in Nat /\ RowBase(c) \in Nat /\ a \in Nat \ {0} /\ c \in Nat \ {0}
    BY <1>1, RowIs
  <2>2. a < c => RowBase(a) + a <= RowBase(c)
    BY <2>1, RowsApart
  <2>3. c < a => RowBase(c) + c <= RowBase(a)
    BY <2>1, RowsApart
  <2> QED
    BY <1>1, <2>1, <2>2, <2>3
<1>2. f > g \/ g > f
  OBVIOUS
<1>3. h > k \/ k > h
  OBVIOUS
<1>4. CASE f > g /\ h > k
  <2>1. RowBase(f) + g = RowBase(h) + k
    BY <1>4 DEF SlotAt
  <2> QED
    BY <1>1, <1>4, <2>1
<1>5. CASE f > g /\ k > h
  <2>1. RowBase(f) + g = RowBase(k) + h
    BY <1>5 DEF SlotAt
  <2> QED
    BY <1>1, <1>5, <2>1
<1>6. CASE g > f /\ h > k
  <2>1. RowBase(g) + f = RowBase(h) + k
    BY <1>6 DEF SlotAt
  <2> QED
    BY <1>1, <1>6, <2>1
<1>7. CASE g > f /\ k > h
  <2>1. RowBase(g) + f = RowBase(k) + h
    BY <1>7 DEF SlotAt
  <2> QED
    BY <1>1, <1>7, <2>1
<1> QED
  BY <1>2, <1>3, <1>4, <1>5, <1>6, <1>7

-----------------------------------------------------------------------------
(* A matrix, and what of it is the reference's *)

Slots == UNION {[indices -> Relation] : indices \in SUBSET Nat}

Matrices ==
  [n : 1 .. MaxFeatures, base : UNION {[0 .. n - 1 -> Nat] : n \in 1 .. MaxFeatures},
   reference : NoReference .. MaxFeatures - 1, established : BOOLEAN, slot : Slots]

Rowed(m) == m.base = [f \in Features(m) |-> RowBase(f)]

IsMatrix(m) == m \in Matrices /\ Rowed(m)

\* The slot of a feature and the reference.
Star(m, f) == SlotAt(f, m.reference)

\* Where a feature is placed.
Toward(m, f) ==
  IF f = m.reference THEN Identity
  ELSE IF f > m.reference THEN m.slot[Star(m, f)].map ELSE Invert(m.slot[Star(m, f)].map)

\* What a slot holds.
LEMMA SlotsAre ==
  /\ \A s \in Slots : /\ s \in [DOMAIN s -> Relation] /\ DOMAIN s \in SUBSET Nat
                      /\ \A i \in DOMAIN s : s[i] \in Relation /\ s[i].map \in Transform
                                            /\ s[i].rank \in Nat
  /\ \A d \in SUBSET Nat : \A s \in [d -> Relation] : s \in Slots
<1>1. ASSUME NEW s \in Slots
      PROVE  /\ s \in [DOMAIN s -> Relation] /\ DOMAIN s \in SUBSET Nat
             /\ \A i \in DOMAIN s : s[i] \in Relation
  <2>1. PICK d \in SUBSET Nat : s \in [d -> Relation]
    BY DEF Slots
  <2> QED
    BY <2>1
<1>2. \A r \in Relation : r.map \in Transform /\ r.rank \in Nat
  BY DEF Relation
<1>3. \A d \in SUBSET Nat : \A s \in [d -> Relation] : s \in Slots
  BY DEF Slots
<1> QED
  BY <1>1, <1>2, <1>3

\* In a matrix every pair of features has its slot.
LEMMA SlotIndexIs ==
  ASSUME NEW m, IsMatrix(m), NEW f \in Features(m), NEW g \in Features(m)
  PROVE  SlotIndex(m, f, g) = SlotAt(f, g)
<1>1. m.base[f] = RowBase(f) /\ m.base[g] = RowBase(g)
  BY DEF IsMatrix, Rowed
<1> QED
  BY <1>1 DEF SlotIndex, SlotAt

\* The fields of a matrix.
LEMMA MatrixIs ==
  ASSUME NEW m, IsMatrix(m)
  PROVE  /\ m \in Matrices /\ m.n \in 1 .. MaxFeatures /\ m.n \in Nat /\ m.slot \in Slots
         /\ Features(m) = 0 .. m.n - 1 /\ Features(m) \subseteq Nat
         /\ m.established \in BOOLEAN /\ m.reference \in Int
         /\ m.reference \in NoReference .. MaxFeatures - 1
BY TemplateAssumption DEF IsMatrix, Matrices, Features, NoReference

-----------------------------------------------------------------------------
(* Changing a matrix: one relation, or all of one feature *)

\* A matrix as a study leaves it: only the slots of the reference are set.
GoodMatrix(m) ==
  /\ IsMatrix(m)
  /\ m.established => m.reference \in Features(m)
  /\ ~m.established => m.reference = NoReference /\ DOMAIN m.slot = {}
  /\ \A i \in DOMAIN m.slot : \E f \in Others(m, m.reference) : i = Star(m, f)

Reached(m, f) == f = m.reference \/ Star(m, f) \in DOMAIN m.slot

\* Every feature has a slot of its own.
LEMMA StarsApart ==
  ASSUME NEW m, GoodMatrix(m), m.established,
         NEW f \in Others(m, m.reference)
  PROVE  /\ f \in Nat /\ f \in Features(m) /\ f # m.reference /\ m.reference \in Nat
         /\ Star(m, f) = SlotIndex(m, f, m.reference)
         /\ Star(m, f) \in 1 .. RegistrationCount(m.n) - 1 /\ Star(m, f) \in Nat
         /\ \A g \in Others(m, m.reference) : Star(m, g) = Star(m, f) => g = f
         /\ \A g \in Others(m, f) : g # m.reference /\ f # g =>
              SlotIndex(m, f, g) # Star(m, f)
         /\ \A g \in Others(m, m.reference) : \A h \in Others(m, f) :
              SlotIndex(m, f, h) = Star(m, g) => f = g
<1>1. /\ Features(m) = 0 .. m.n - 1 /\ m.n \in Nat /\ Features(m) \subseteq Nat
      /\ m.reference \in Features(m) /\ IsMatrix(m)
  BY MatrixIs DEF GoodMatrix
<1>2. /\ f \in Features(m) /\ f # m.reference
      /\ \A h : \A g \in Others(m, h) : g \in Features(m) /\ g # h
  BY DEF Others
<1>3. f \in 0 .. m.n - 1 /\ m.reference \in 0 .. m.n - 1
  BY <1>1, <1>2
<1>4. Star(m, f) \in 1 .. RegistrationCount(m.n) - 1
  BY <1>1, <1>2, <1>3, SlotAtIs DEF Star
<1>5. Star(m, f) = SlotIndex(m, f, m.reference)
  BY <1>1, <1>2, SlotIndexIs DEF Star
<1>6. ASSUME NEW g \in Others(m, m.reference), Star(m, g) = Star(m, f)
      PROVE  g = f
  BY <1>1, <1>2, <1>6, SlotsApart DEF Star
<1>7. ASSUME NEW g \in Others(m, f), g # m.reference
      PROVE  SlotIndex(m, f, g) # Star(m, f)
  <2>1. SlotIndex(m, f, g) = SlotAt(f, g)
    BY <1>1, <1>2, SlotIndexIs
  <2>2. SlotAt(f, g) # SlotAt(f, m.reference)
    BY <1>1, <1>2, <1>7, SlotsApart
  <2> QED
    BY <2>1, <2>2 DEF Star
<1>8. ASSUME NEW g \in Others(m, m.reference), NEW h \in Others(m, f),
             SlotIndex(m, f, h) = Star(m, g)
      PROVE  f = g
  <2>1. SlotAt(f, h) = SlotAt(g, m.reference)
    BY <1>1, <1>2, <1>8, SlotIndexIs DEF Star
  <2> QED
    BY <1>1, <1>2, <2>1, SlotsApart
<1>9. RegistrationCount(m.n) \in Nat
  BY <1>1, RowIs
<1>10. Star(m, f) \in Nat
  BY <1>4, <1>9
<1> QED
  BY <1>1, <1>2, <1>4, <1>5, <1>6, <1>7, <1>8, <1>10

\* New slots for the matrix.
LEMMA SlotsChanged ==
  ASSUME NEW m, GoodMatrix(m), m.established, NEW s \in Slots,
         \A i \in DOMAIN s : \E f \in Others(m, m.reference) : i = Star(m, f)
  PROVE  LET k == [m EXCEPT !.slot = s] IN
         /\ GoodMatrix(k) /\ k.n = m.n /\ k.base = m.base /\ k.reference = m.reference
         /\ k.established /\ k.established = m.established /\ k.slot = s
         /\ Features(k) = Features(m)
         /\ \A f : Star(k, f) = Star(m, f)
<1> DEFINE k == [m EXCEPT !.slot = s]
<1>1. /\ k \in Matrices /\ k.n = m.n /\ k.base = m.base /\ k.reference = m.reference
      /\ k.established = m.established /\ k.slot = s
  BY DEF GoodMatrix, IsMatrix, Matrices
<1> HIDE DEF k
<1>2. Features(k) = Features(m) /\ \A f : Others(k, f) = Others(m, f)
  BY <1>1 DEF Features, Others
<1>3. \A f : Star(k, f) = Star(m, f)
  BY <1>1 DEF Star
<1>4. Rowed(k)
  BY <1>1, <1>2 DEF Rowed, GoodMatrix, IsMatrix
<1>5. GoodMatrix(k)
  BY <1>1, <1>2, <1>3, <1>4 DEF GoodMatrix, IsMatrix
<1> QED
  BY <1>1, <1>2, <1>3, <1>5 DEF k

\* A stored relation is where the feature lies.
LEMMA StoreReferenceGood ==
  ASSUME NEW m, GoodMatrix(m), m.established, NEW f \in Others(m, m.reference),
         NEW map \in Transform
  PROVE  LET k == StoreReference(m, f, map) IN
         /\ GoodMatrix(k) /\ k.n = m.n /\ k.base = m.base /\ k.reference = m.reference
         /\ k.established
         /\ Reached(k, f) /\ Toward(k, f) = map
         /\ \A g \in Features(m) : g # f /\ Reached(m, g) =>
              Reached(k, g) /\ Toward(k, g) = Toward(m, g)
<1> DEFINE kept == IF f > m.reference THEN map ELSE Invert(map)
           cell == [rank |-> 0, map |-> kept]
           s == With(m.slot, Star(m, f), cell)
           k == StoreReference(m, f, map)
<1>1. /\ f \in Nat /\ f # m.reference /\ m.reference \in Nat
      /\ Star(m, f) = SlotIndex(m, f, m.reference) /\ Star(m, f) \in Nat
      /\ \A g \in Others(m, m.reference) : Star(m, g) = Star(m, f) => g = f
  BY StarsApart
<1>2. kept \in Transform /\ Invert(map) \in Transform /\ Invert(Invert(map)) = map
  BY InvertIs, InvertTwice
<1>3. cell \in Relation /\ cell.map = kept
  BY <1>2 DEF Relation
<1>4. k = [m EXCEPT !.slot = s]
  BY <1>1 DEF StoreReference, SetSlot
<1>5. m.slot \in Slots /\ \A i \in DOMAIN m.slot : m.slot[i] \in Relation
  BY MatrixIs, SlotsAre DEF GoodMatrix
<1>6. DOMAIN m.slot \in SUBSET Nat
  BY <1>5, SlotsAre
<1> HIDE DEF cell
<1>7. /\ DOMAIN s = DOMAIN m.slot \cup {Star(m, f)} /\ s[Star(m, f)] = cell
      /\ \A i \in DOMAIN m.slot : i # Star(m, f) => s[i] = m.slot[i]
  BY DEF With
<1>8. s \in [DOMAIN m.slot \cup {Star(m, f)} -> Relation]
  BY <1>3, <1>5 DEF With
<1>9. s \in Slots
  BY <1>1, <1>6, <1>8, SlotsAre
<1>10. \A i \in DOMAIN s : \E g \in Others(m, m.reference) : i = Star(m, g)
  BY <1>7 DEF GoodMatrix
<1> HIDE DEF s
<1>11. /\ GoodMatrix(k) /\ k.n = m.n /\ k.base = m.base /\ k.reference = m.reference
       /\ k.established /\ k.slot = s /\ \A g : Star(k, g) = Star(m, g)
  BY <1>4, <1>9, <1>10, SlotsChanged
<1> HIDE DEF k
<1>12. Reached(k, f)
  BY <1>7, <1>11 DEF Reached
<1>13. Toward(k, f) = map
  <2>1. k.slot[Star(k, f)].map = kept
    BY <1>3, <1>7, <1>11
  <2> QED
    BY <1>1, <1>2, <1>11, <2>1 DEF Toward
<1>14. ASSUME NEW g \in Features(m), g # f, Reached(m, g)
       PROVE  Reached(k, g) /\ Toward(k, g) = Toward(m, g)
  <2>1. CASE g = m.reference
    BY <1>11, <2>1 DEF Reached, Toward
  <2>2. CASE g # m.reference
    <3>1. g \in Others(m, m.reference) /\ Star(m, g) \in DOMAIN m.slot
      BY <1>14, <2>2 DEF Others, Reached
    <3>2. Star(m, g) # Star(m, f)
      BY <1>1, <1>14, <3>1
    <3>3. k.slot[Star(k, g)] = m.slot[Star(m, g)] /\ Star(k, g) \in DOMAIN k.slot
      BY <1>7, <1>11, <3>1, <3>2
    <3> QED
      BY <1>11, <3>3 DEF Reached, Toward
  <2> QED
    BY <2>1, <2>2
<1> QED
  BY <1>11, <1>12, <1>13, <1>14 DEF k

\* A feature whose content changes loses its relations, and no other does.
LEMMA ClearIncidentGood ==
  ASSUME NEW m, GoodMatrix(m), m.established, NEW f \in Others(m, m.reference)
  PROVE  LET k == ClearIncident(m, f) IN
         /\ GoodMatrix(k) /\ k.n = m.n /\ k.base = m.base /\ k.reference = m.reference
         /\ k.established
         /\ \A g \in Features(m) : g # f /\ Reached(m, g) =>
              Reached(k, g) /\ Toward(k, g) = Toward(m, g)
<1> DEFINE gone == {SlotIndex(m, f, other) : other \in Others(m, f)}
           s == Restrict(m.slot, DOMAIN m.slot \ gone)
           k == ClearIncident(m, f)
<1>1. m.slot \in Slots /\ \A i \in DOMAIN m.slot : m.slot[i] \in Relation
  BY MatrixIs, SlotsAre DEF GoodMatrix
<1>2. DOMAIN m.slot \in SUBSET Nat
  BY <1>1, SlotsAre
<1>3. k = [m EXCEPT !.slot = s]
  BY DEF ClearIncident, Unset
<1> HIDE DEF gone
<1>4. DOMAIN s = DOMAIN m.slot \ gone /\ \A i \in DOMAIN s : s[i] = m.slot[i]
  BY DEF Restrict
<1>5. s \in [DOMAIN m.slot \ gone -> Relation]
  BY <1>1 DEF Restrict
<1>6. s \in Slots
  BY <1>2, <1>5, SlotsAre
<1> HIDE DEF s
<1>7. \A i \in DOMAIN s : \E g \in Others(m, m.reference) : i = Star(m, g)
  BY <1>4 DEF GoodMatrix
<1>8. /\ GoodMatrix(k) /\ k.n = m.n /\ k.base = m.base /\ k.reference = m.reference
      /\ k.established /\ k.slot = s /\ \A g : Star(k, g) = Star(m, g)
  BY <1>3, <1>6, <1>7, SlotsChanged
<1> HIDE DEF k
<1>9. ASSUME NEW g \in Features(m), g # f, Reached(m, g)
      PROVE  Reached(k, g) /\ Toward(k, g) = Toward(m, g)
  <2>1. CASE g = m.reference
    BY <1>8, <2>1 DEF Reached, Toward
  <2>2. CASE g # m.reference
    <3>1. g \in Others(m, m.reference) /\ Star(m, g) \in DOMAIN m.slot
      BY <1>9, <2>2 DEF Others, Reached
    <3>2. \A h \in Others(m, f) : SlotIndex(m, f, h) # Star(m, g)
      BY <1>9, <3>1, StarsApart
    <3>3. Star(m, g) \notin gone
      BY <3>2 DEF gone
    <3>4. k.slot[Star(k, g)] = m.slot[Star(m, g)] /\ Star(k, g) \in DOMAIN k.slot
      BY <1>4, <1>8, <3>1, <3>3
    <3> QED
      BY <1>8, <3>4 DEF Reached, Toward
  <2> QED
    BY <2>1, <2>2
<1> QED
  BY <1>8, <1>9 DEF k

-----------------------------------------------------------------------------
(* Changing a matrix: the reference, or one more row *)

\* Where every feature lies, seen from the reference's new content.
LEMMA ReanchorGood ==
  ASSUME NEW m, GoodMatrix(m), m.established, NEW q \in Transform
  PROVE  LET k == Reanchor(m, q) IN
         /\ GoodMatrix(k) /\ k.n = m.n /\ k.base = m.base /\ k.reference = m.reference
         /\ k.established
         /\ \A g \in Features(m) : Reached(m, g) => Reached(k, g)
         /\ \A g \in Others(m, m.reference) : Reached(m, g) =>
              /\ Toward(m, g) \in Transform
              /\ Toward(k, g) = Compose(Invert(q), Toward(m, g))
<1> DEFINE old(f) == SlotOf(m, f, m.reference)
           map(f) == IF f > m.reference THEN Compose(Invert(q), old(f).map)
                     ELSE Compose(old(f).map, q)
           moved(f) == [old(f) EXCEPT !.map = map(f)]
           star == {f \in Others(m, m.reference) : IsSet(m, f, m.reference)}
           of(i) == {g \in star : SlotIndex(m, g, m.reference) = i}
           s == [i \in DOMAIN m.slot |->
                   IF of(i) = {} THEN m.slot[i] ELSE moved(CHOOSE g \in of(i) : TRUE)]
           k == Reanchor(m, q)
<1>1. k = [m EXCEPT !.slot = s]
  BY DEF Reanchor
<1>2. m.slot \in Slots /\ \A i \in DOMAIN m.slot : m.slot[i] \in Relation
  BY MatrixIs, SlotsAre DEF GoodMatrix
<1>3. /\ DOMAIN m.slot \in SUBSET Nat
      /\ \A i \in DOMAIN m.slot : m.slot[i].map \in Transform /\ m.slot[i].rank \in Nat
  BY <1>2, SlotsAre
<1>4. ASSUME NEW g \in Others(m, m.reference), Star(m, g) \in DOMAIN m.slot
      PROVE  /\ old(g) = m.slot[Star(m, g)] /\ of(Star(m, g)) = {g}
             /\ s[Star(m, g)] = moved(g) /\ map(g) \in Transform
             /\ moved(g) \in Relation /\ moved(g).map = map(g)
  <2>1. SlotIndex(m, g, m.reference) = Star(m, g)
    BY StarsApart
  <2>2. old(g) = m.slot[Star(m, g)]
    BY <2>1 DEF SlotOf
  <2>3. g \in star
    BY <1>4, <2>1 DEF IsSet
  <2>4. \A h \in star : SlotIndex(m, h, m.reference) = Star(m, g) => h = g
    <3>1. \A h \in Others(m, m.reference) : SlotIndex(m, h, m.reference) = Star(m, h)
      BY StarsApart
    <3>2. \A h \in Others(m, m.reference) : Star(m, h) = Star(m, g) => h = g
      BY StarsApart
    <3> QED
      BY <3>1, <3>2
  <2> HIDE DEF star, old, moved
  <2>5. of(Star(m, g)) = {g}
    BY <2>1, <2>3, <2>4
  <2> HIDE DEF of
  <2>6. s[Star(m, g)] = moved(g)
    <3>1. (CHOOSE h \in {g} : TRUE) = g
      OBVIOUS
    <3> QED
      BY <1>4, <2>5, <3>1
  <2> HIDE DEF s
  <2>7. old(g).map \in Transform /\ old(g).rank \in Nat /\ old(g) \in Relation
    BY <1>2, <1>3, <1>4, <2>2
  <2>8. map(g) \in Transform
    BY <2>7, ComposeIs, InvertIs
  <2> HIDE DEF map
  <2>9. moved(g) \in Relation /\ moved(g).map = map(g)
    BY <2>7, <2>8 DEF moved, Relation
  <2> QED
    BY <2>2, <2>5, <2>6, <2>8, <2>9
<1> HIDE DEF old, map, moved, star, of
<1>5. \A i \in DOMAIN m.slot : \E g \in Others(m, m.reference) : i = Star(m, g)
  BY DEF GoodMatrix
<1>6. DOMAIN s = DOMAIN m.slot
  OBVIOUS
<1>7. \A i \in DOMAIN m.slot : s[i] \in Relation
  <2> HIDE DEF s
  <2> QED
    BY <1>4, <1>5
<1>8. s \in [DOMAIN m.slot -> Relation]
  BY <1>7
<1> HIDE DEF s
<1>9. s \in Slots
  BY <1>3, <1>8, SlotsAre
<1>10. /\ GoodMatrix(k) /\ k.n = m.n /\ k.base = m.base /\ k.reference = m.reference
       /\ k.established /\ k.slot = s /\ \A g : Star(k, g) = Star(m, g)
  BY <1>1, <1>5, <1>6, <1>9, SlotsChanged
<1> HIDE DEF k
<1>11. \A g \in Features(m) : Reached(m, g) => Reached(k, g)
  BY <1>6, <1>10 DEF Reached
<1>12. ASSUME NEW g \in Others(m, m.reference), Reached(m, g)
       PROVE  /\ Toward(m, g) \in Transform
              /\ Toward(k, g) = Compose(Invert(q), Toward(m, g))
  <2>1. g # m.reference /\ Star(m, g) \in DOMAIN m.slot
    BY <1>12 DEF Others, Reached
  <2> DEFINE c == m.slot[Star(m, g)].map
             d == k.slot[Star(k, g)].map
  <2>2. c \in Transform
    BY <1>3, <2>1
  <2>3. d = IF g > m.reference THEN Compose(Invert(q), c) ELSE Compose(c, q)
    <3>1. d = map(g)
      BY <1>4, <1>10, <2>1
    <3>2. old(g).map = c
      BY <1>4, <2>1
    <3> QED
      BY <3>1, <3>2 DEF map
  <2>4. Toward(m, g) = IF g > m.reference THEN c ELSE Invert(c)
    BY <2>1 DEF Toward
  <2>5. Toward(k, g) = IF g > m.reference THEN d ELSE Invert(d)
    BY <1>10, <2>1 DEF Toward
  <2> HIDE DEF c, d
  <2>6. Invert(Compose(c, q)) = Compose(Invert(q), Invert(c)) /\ Invert(c) \in Transform
    BY <2>2, InvertCompose, InvertIs
  <2> QED
    BY <2>2, <2>3, <2>4, <2>5, <2>6
<1> QED
  BY <1>10, <1>11, <1>12 DEF k

\* Where a reached feature is placed is a transform.
LEMMA TowardIs ==
  ASSUME NEW m, GoodMatrix(m), NEW f \in Features(m), Reached(m, f)
  PROVE  Toward(m, f) \in Transform
<1>1. \A i \in DOMAIN m.slot : m.slot[i].map \in Transform
  BY MatrixIs, SlotsAre DEF GoodMatrix
<1> QED
  BY <1>1, IdentityIs, InvertIs DEF Toward, Reached

\* The matrix of a template that is appended to.
NewRow(m, reference) ==
  [AppendRow(m, RegistrationCount(m.n)) EXCEPT !.reference = reference, !.established = TRUE]

RowAdded(m, reference, k) ==
  /\ GoodMatrix(k) /\ k.n = m.n + 1 /\ k.reference = reference /\ k.established
  /\ m.established => \A g \in Features(m) :
       (Reached(m, g) => Reached(k, g)) /\ Toward(k, g) = Toward(m, g)

\* The rows of a new feature: none of its slots is set.
LEMMA AppendRowGood ==
  ASSUME NEW m, GoodMatrix(m), m.n < MaxFeatures, NEW reference \in Features(m),
         m.established => reference = m.reference
  PROVE  RowAdded(m, reference, NewRow(m, reference))
<1> DEFINE row == RegistrationCount(m.n)
           yes == TRUE
           k == NewRow(m, reference)
           base == [f \in 0 .. m.n |-> IF f = m.n THEN row ELSE m.base[f]]
           u == Unset(m, row .. row + m.n - 1)
           s == Restrict(m.slot, DOMAIN m.slot \ (row .. row + m.n - 1))
<1>0. yes \in BOOLEAN /\ yes
  OBVIOUS
<1> HIDE DEF yes
<1>1. /\ m \in Matrices /\ m.n \in 1 .. MaxFeatures /\ m.n \in Nat /\ m.slot \in Slots
      /\ Features(m) = 0 .. m.n - 1 /\ MaxFeatures \in Nat /\ m.n > 0
      /\ m.established \in BOOLEAN
  BY MatrixIs, TemplateAssumption DEF GoodMatrix
<1>2. /\ row \in Nat /\ RowBase(m.n) = row /\ DOMAIN m.slot \in SUBSET Nat
      /\ m.slot \in [DOMAIN m.slot -> Relation]
  BY <1>1, RowIs, SlotsAre
<1>3. \A i \in DOMAIN m.slot : i < row
  <2>1. CASE m.established
    BY <1>1, <1>2, <2>1, StarsApart DEF GoodMatrix
  <2>2. CASE ~m.established
    BY <2>2 DEF GoodMatrix
  <2> QED
    BY <1>1, <2>1, <2>2
<1>4. DOMAIN m.slot \ (row .. row + m.n - 1) = DOMAIN m.slot
  BY <1>1, <1>2, <1>3
<1>5. s = m.slot
  BY <1>2, <1>4 DEF Restrict
<1>6. \A f \in 0 .. m.n - 1 : m.base[f] = RowBase(f)
  BY <1>1 DEF GoodMatrix, IsMatrix, Rowed
<1>7. base = [f \in 0 .. m.n |-> RowBase(f)]
  BY <1>1, <1>2, <1>6
<1>8. base \in [0 .. m.n -> Nat]
  <2>1. ASSUME NEW f \in 0 .. m.n
        PROVE  RowBase(f) \in Nat
    <3>1. f \in Nat
      BY <1>1
    <3> QED
      BY <3>1, RowIs
  <2> HIDE DEF base
  <2> QED
    BY <1>7, <2>1
<1> HIDE DEF base, s
<1>9. u = [m EXCEPT !.slot = m.slot]
  BY <1>5 DEF Unset, s
<1>10. k = [[u EXCEPT !.n = m.n + 1, !.base = base]
              EXCEPT !.reference = reference, !.established = yes]
  BY DEF NewRow, AppendRow, base, yes
<1> HIDE DEF u, k
<1>11. reference \in NoReference .. MaxFeatures - 1 /\ m.n + 1 \in 1 .. MaxFeatures
  BY <1>1 DEF NoReference
<1>12. base \in UNION {[0 .. n - 1 -> Nat] : n \in 1 .. MaxFeatures}
  <2>1. (m.n + 1) - 1 = m.n
    BY <1>1
  <2>2. base \in [0 .. (m.n + 1) - 1 -> Nat]
    BY <1>8, <2>1
  <2> QED
    BY <1>11, <2>2
<1>13. u = m
  BY <1>1, <1>9 DEF Matrices
<1>14. k.n = m.n + 1 /\ k.base = base /\ k.reference = reference /\ k.slot = m.slot
  BY <1>1, <1>10, <1>13 DEF Matrices
<1>15. k.established
  BY <1>0, <1>1, <1>10, <1>13 DEF Matrices
<1>16. k \in Matrices
  <2>1. k = [[m EXCEPT !.n = m.n + 1, !.base = base]
               EXCEPT !.reference = reference, !.established = yes]
    BY <1>10, <1>13
  <2> QED
    BY <1>0, <1>1, <1>11, <1>12, <2>1 DEF Matrices
<1>17. Features(k) = 0 .. m.n /\ reference \in 0 .. m.n
  <2>1. k.n - 1 = m.n /\ Features(k) = 0 .. k.n - 1
    BY <1>1, <1>14 DEF Features
  <2> QED
    BY <1>1, <2>1
<1>18. \A g \in Features(m) : g \in Features(k)
  BY <1>1, <1>17
<1>19. Rowed(k)
  BY <1>7, <1>14, <1>17 DEF Rowed
<1>20. m.established => \A g : Star(k, g) = Star(m, g) /\ Toward(k, g) = Toward(m, g)
  BY <1>14 DEF Star, Toward
<1>21. \A i \in DOMAIN k.slot : \E g \in Others(k, k.reference) : i = Star(k, g)
  <2>1. CASE m.established
    BY <1>14, <1>18, <1>20, <2>1 DEF GoodMatrix, Others
  <2>2. CASE ~m.established
    BY <1>14, <2>2 DEF GoodMatrix
  <2> QED
    BY <1>1, <2>1, <2>2
<1>22. GoodMatrix(k)
  BY <1>14, <1>15, <1>16, <1>17, <1>19, <1>21 DEF GoodMatrix, IsMatrix
<1>23. m.established => \A g \in Features(m) : Reached(m, g) => Reached(k, g)
  BY <1>14, <1>20 DEF Reached
<1> QED
  BY <1>14, <1>15, <1>20, <1>22, <1>23 DEF k, RowAdded

-----------------------------------------------------------------------------
(* What is measured, and where a feature is placed *)

\* What cancels.
LEMMA Cancels ==
  ASSUME NEW t \in Transform, NEW u \in Transform
  PROVE  /\ Compose(Invert(t), Compose(t, u)) = u /\ Compose(t, Compose(Invert(t), u)) = u
         /\ Compose(Compose(u, t), Invert(t)) = u /\ Compose(Compose(u, Invert(t)), t) = u
<1>1. Invert(t) \in Transform
  BY InvertIs
<1>2. Compose(Invert(t), Compose(t, u)) = u
  BY <1>1, ComposeAssociates, ComposeIdentity
<1>3. Compose(t, Compose(Invert(t), u)) = u
  BY <1>1, ComposeAssociates, ComposeIdentity
<1>4. Compose(Compose(u, t), Invert(t)) = u
  BY <1>1, ComposeAssociates, ComposeIdentity
<1>5. Compose(Compose(u, Invert(t)), t) = u
  BY <1>1, ComposeAssociates, ComposeIdentity
<1> QED
  BY <1>2, <1>3, <1>4, <1>5

\* Where a sample lies.
LEMMA PlaceIs ==
  ASSUME NEW a \in Sample
  PROVE  Place[a] \in Transform
BY TemplateAssumption

\* A measurement leads from one placement to the other.
LEMMA MeasuredIs ==
  ASSUME NEW a \in Sample, NEW b \in Sample
  PROVE  /\ Measured(a, b) \in Transform
         /\ Compose(Place[b], Measured(a, b)) = Place[a]
         /\ Compose(Place[a], Invert(Measured(a, b))) = Place[b]
<1> DEFINE A == Place[a]
           B == Place[b]
<1>1. A \in Transform /\ B \in Transform /\ Invert(A) \in Transform /\ Invert(B) \in Transform
  BY PlaceIs, InvertIs
<1>2. Measured(a, b) = Compose(Invert(B), A)
  BY DEF Measured
<1> HIDE DEF A, B
<1>3. Measured(a, b) \in Transform
  BY <1>1, <1>2, ComposeIs
<1>4. Compose(B, Measured(a, b)) = A
  BY <1>1, <1>2, Cancels
<1>5. Invert(Measured(a, b)) = Compose(Invert(A), B)
  BY <1>1, <1>2, InvertCompose, InvertTwice
<1>6. Compose(A, Invert(Measured(a, b))) = B
  BY <1>1, <1>5, Cancels
<1> QED
  BY <1>3, <1>4, <1>6 DEF A, B

Views(n) == [0 .. n - 1 -> StudiedFeature]

\* The fields of a view.
LEMMA ViewIs ==
  ASSUME NEW n \in Nat, NEW feature \in Views(n), NEW f \in 0 .. n - 1
  PROVE  /\ feature[f] \in StudiedFeature /\ feature[f].sample \in Sample
         /\ feature[f].active \in BOOLEAN /\ feature[f].sure \in BOOLEAN
         /\ feature[f].base \in Nat /\ feature[f].ordinal \in Int
         /\ feature[f].generation \in Nat
BY DEF Views, StudiedFeature

\* The active features can be placed, and those that are sure lie, up to one
\* movement w of the finger, where their samples lie.
Framed(feature, m, w) ==
  \A f \in Features(m) : feature[f].active =>
    /\ m.established /\ Reached(m, f)
    /\ feature[f].sure => Toward(m, f) = Compose(w, Place[feature[f].sample])

\* The other views stay what they are.
SameBut(S, f, feature, new) ==
  \A g \in S : g # f => new[g].active = feature[g].active
    /\ new[g].sure = feature[g].sure /\ new[g].sample = feature[g].sample

\* k has a frame for the new views, that of m unless f is the reference.
Reframed(m, k, f, new, w) ==
  /\ GoodMatrix(k) /\ k.n = m.n /\ k.base = m.base /\ k.reference = m.reference
  /\ k.established
  /\ \E v \in Transform : Framed(new, k, v) /\ (f # m.reference => v = w)

\* Changing one feature's content: the others stay where they are, though the
\* frame moves when it is the reference.
LEMMA ReplaceRelationFramed ==
  ASSUME NEW m, GoodMatrix(m), m.established, NEW f \in Features(m), NEW p \in Transform,
         NEW feature \in Views(m.n), NEW w \in Transform, Framed(feature, m, w),
         NEW new \in Views(m.n),
         SameBut(Features(m), f, feature, new),
         new[f].sure => p = Compose(w, Place[new[f].sample])
  PROVE  Reframed(m, ReplaceRelation(m, f, p), f, new, w)
<1> USE DEF SameBut, Reframed
<1> DEFINE k == ReplaceRelation(m, f, p)
<1>1. m.n \in Nat /\ Features(m) = 0 .. m.n - 1
  BY MatrixIs DEF GoodMatrix
<1>2. \A g \in Features(m) : Place[new[g].sample] \in Transform
  BY <1>1, ViewIs, PlaceIs
<1>3. CASE f = m.reference
  <2>1. k = Reanchor(m, p)
    BY <1>3 DEF ReplaceRelation
  <2> HIDE DEF k
  <2>2. /\ GoodMatrix(k) /\ k.n = m.n /\ k.base = m.base /\ k.reference = m.reference
        /\ k.established
        /\ \A g \in Features(m) : Reached(m, g) => Reached(k, g)
        /\ \A g \in Others(m, m.reference) : Reached(m, g) =>
              Toward(k, g) = Compose(Invert(p), Toward(m, g))
    BY <2>1, ReanchorGood
  <2> DEFINE v == Compose(Invert(p), w)
  <2>3. v \in Transform /\ Invert(p) \in Transform
    BY ComposeIs, InvertIs
  <2>4. ASSUME NEW g \in Features(k), new[g].active
        PROVE  /\ k.established /\ Reached(k, g)
               /\ new[g].sure => Toward(k, g) = Compose(v, Place[new[g].sample])
    <3>1. g \in Features(m)
      BY <2>2 DEF Features
    <3>2. CASE g = f
      <4>1. Reached(k, g) /\ Toward(k, g) = Identity
        BY <1>3, <2>2, <3>2 DEF Reached, Toward
      <4>2. ASSUME new[g].sure
            PROVE  Compose(v, Place[new[g].sample]) = Identity
        <5>1. p = Compose(w, Place[new[g].sample])
          BY <3>2, <4>2
        <5>2. Compose(v, Place[new[g].sample]) = Compose(Invert(p), p)
          BY <1>2, <2>3, <3>1, <5>1, ComposeAssociates
        <5> QED
          BY <5>2, ComposeIdentity
      <4> QED
        BY <2>2, <4>1, <4>2
    <3>3. CASE g # f
      <4>1. /\ feature[g].active /\ Reached(m, g) /\ g \in Others(m, m.reference)
            /\ new[g].sure => Toward(m, g) = Compose(w, Place[new[g].sample])
        BY <1>3, <2>4, <3>1, <3>3 DEF Framed, Others
      <4>2. Toward(k, g) = Compose(Invert(p), Toward(m, g)) /\ Reached(k, g)
        BY <2>2, <3>1, <4>1
      <4>3. new[g].sure => Toward(k, g) = Compose(v, Place[new[g].sample])
        BY <1>2, <2>3, <3>1, <4>1, <4>2, ComposeAssociates
      <4> QED
        BY <2>2, <4>2, <4>3
    <3> QED
      BY <3>2, <3>3
  <2>5. Framed(new, k, v)
    BY <2>4 DEF Framed
  <2> QED
    BY <1>3, <2>2, <2>3, <2>5 DEF k
<1>4. CASE f # m.reference
  <2> DEFINE c == ClearIncident(m, f)
  <2>1. f \in Others(m, m.reference)
    BY <1>4 DEF Others
  <2>2. /\ GoodMatrix(c) /\ c.n = m.n /\ c.base = m.base /\ c.reference = m.reference
        /\ c.established
        /\ \A g \in Features(m) : g # f /\ Reached(m, g) =>
              Reached(c, g) /\ Toward(c, g) = Toward(m, g)
    BY <2>1, ClearIncidentGood
  <2>3. k = StoreReference(c, f, p)
    BY <1>4 DEF ReplaceRelation
  <2> HIDE DEF k, c
  <2>4. f \in Others(c, c.reference) /\ Features(c) = Features(m)
    BY <2>1, <2>2 DEF Others, Features
  <2>5. /\ GoodMatrix(k) /\ k.n = c.n /\ k.base = c.base /\ k.reference = c.reference
        /\ k.established
        /\ Reached(k, f) /\ Toward(k, f) = p
        /\ \A g \in Features(c) : g # f /\ Reached(c, g) =>
              Reached(k, g) /\ Toward(k, g) = Toward(c, g)
    BY <2>2, <2>3, <2>4, StoreReferenceGood
  <2>6. ASSUME NEW g \in Features(k), new[g].active
        PROVE  /\ k.established /\ Reached(k, g)
               /\ new[g].sure => Toward(k, g) = Compose(w, Place[new[g].sample])
    <3>1. g \in Features(m)
      BY <2>2, <2>5 DEF Features
    <3>2. CASE g = f
      BY <2>5, <3>2
    <3>3. CASE g # f
      BY <2>2, <2>4, <2>5, <2>6, <3>1, <3>3 DEF Framed
    <3> QED
      BY <3>2, <3>3
  <2>7. Framed(new, k, w)
    BY <2>6 DEF Framed
  <2> QED
    BY <2>2, <2>5, <2>7 DEF k
<1> QED
  BY <1>3, <1>4

-----------------------------------------------------------------------------
(* A template that is being studied *)

\* The values of a template's fields.
Shape ==
  [n : 1 .. MaxFeatures, feature : UNION {Views(k) : k \in 1 .. MaxFeatures},
   reference : NoReference .. MaxFeatures - 1, established : BOOLEAN, relation : Slots,
   registration : Nat,
   order : UNION {[1 .. v -> 0 .. MaxFeatures - 1] : v \in 1 .. MaxFeatures},
   disabled : BOOLEAN]

\* A template but for its relations.
Body(t) ==
  /\ t \in Shape /\ t.feature \in Views(t.n)
  /\ \A f \in Features(t) : t.feature[f].base = RowBase(f)
  /\ t.registration = RegistrationCount(t.n)
  /\ OrderReadable(t) /\ AgesRanked(t)

\* The same views, in the same order.
Same(t, u) ==
  /\ u.n = t.n /\ u.reference = t.reference /\ u.established = t.established
  /\ u.relation = t.relation /\ u.registration = t.registration /\ u.order = t.order
  /\ u.disabled = t.disabled
  /\ \A f \in Features(t) : u.feature[f].sample = t.feature[f].sample

\* The same views as the same views.
LEMMA SameTransitive ==
  ASSUME NEW t, NEW u, NEW v, Same(t, u), Same(u, v)
  PROVE  Same(t, v)
BY DEF Same, Features

\* The fields of a template.
LEMMA BodyIs ==
  ASSUME NEW t, Body(t)
  PROVE  /\ t.n \in 1 .. MaxFeatures /\ t.n \in Nat /\ MaxFeatures \in Nat
         /\ Features(t) = 0 .. t.n - 1 /\ t.feature \in Views(t.n)
         /\ t.established \in BOOLEAN /\ t.disabled \in BOOLEAN /\ t.relation \in Slots
         /\ t.reference \in NoReference .. MaxFeatures - 1 /\ t.registration \in Nat
         /\ t.order \in UNION {[1 .. v -> 0 .. MaxFeatures - 1] : v \in 1 .. MaxFeatures}
BY TemplateAssumption DEF Body, Shape, Features

\* The ages, feature by feature.
LEMMA AgesAre ==
  ASSUME NEW t, Body(t)
  PROVE  /\ \A f \in Features(t) : t.feature[f].ordinal \in Features(t)
         /\ \A k \in Features(t) : \E f \in Features(t) : t.feature[f].ordinal = k
BY DEF Body, AgesRanked

\* Views a template may be given: every row in its place, and its ages.
ViewsFit(t, feature) ==
  /\ feature \in Views(t.n)
  /\ \A f \in Features(t) : /\ feature[f].base = t.feature[f].base
                            /\ feature[f].ordinal \in Features(t)
  /\ \A k \in Features(t) : \E f \in Features(t) : feature[f].ordinal = k

WithViews(t, feature) == [t EXCEPT !.feature = feature]

\* What stays when the views change and their ages are those of as many.
LEMMA BodyChanged ==
  ASSUME NEW t, Body(t), NEW feature, ViewsFit(t, feature)
  PROVE  LET u == WithViews(t, feature) IN
         /\ Body(u) /\ u.feature = feature /\ Features(u) = Features(t)
         /\ u.n = t.n /\ u.reference = t.reference /\ u.established = t.established
         /\ u.relation = t.relation /\ u.registration = t.registration
         /\ u.order = t.order /\ u.disabled = t.disabled
<1> USE DEF WithViews, ViewsFit
<1> DEFINE u == [t EXCEPT !.feature = feature]
<1>1. t.n \in 1 .. MaxFeatures
  BY BodyIs
<1>2. feature \in UNION {Views(k) : k \in 1 .. MaxFeatures}
  BY <1>1
<1>3. t \in Shape
  BY DEF Body
<1>4. u \in Shape
  BY <1>2, <1>3 DEF Shape
<1>5. /\ u.feature = feature /\ u.n = t.n /\ u.reference = t.reference
      /\ u.established = t.established /\ u.relation = t.relation
      /\ u.registration = t.registration /\ u.order = t.order /\ u.disabled = t.disabled
  BY <1>3 DEF Shape
<1> HIDE DEF u
<1>6. Features(u) = Features(t)
  BY <1>5 DEF Features
<1>7. OrderReadable(u)
  BY <1>5, <1>6 DEF Body, OrderReadable
<1>8. AgesRanked(u)
  <2>1. {feature[f].ordinal : f \in Features(t)} = Features(t)
    OBVIOUS
  <2> QED
    BY <1>5, <1>6, <2>1 DEF AgesRanked
<1> QED
  BY <1>4, <1>5, <1>6, <1>7, <1>8 DEF Body, u

\* What is known of the probe.
Knowledge == [known : BOOLEAN, sure : BOOLEAN, map : Transform]

\* A template that is being studied: its views, its matrix, and what is known
\* of the probe, in one frame.
Sound(s, sample) ==
  /\ s \in [t : Shape, m : Matrices, relation : Knowledge]
  /\ Body(s.t) /\ GoodMatrix(s.m) /\ s.m.n = s.t.n
  /\ \E w \in Transform : /\ Framed(s.t.feature, s.m, w)
                          /\ s.relation.sure => s.relation.map = Compose(w, Place[sample])

\* One retained feature: its relation is that of the probe, moved by what was
\* measured between the two.
LEMMA RefreshFeatureSound ==
  ASSUME NEW sample \in Sample, NEW s, Sound(s, sample), s.m.established,
         NEW f \in Features(s.t)
  PROVE  LET r == RefreshFeature(s, sample, f) IN
         /\ Sound(r, sample) /\ r.m.established /\ r.m.reference = s.m.reference
         /\ Same(s.t, r.t)
<1> DEFINE t == s.t
           m == s.m
           yes == TRUE
           sure == s.relation.sure
           view == [t.feature[f] EXCEPT !.active = yes, !.sure = sure]
           feature == [t.feature EXCEPT ![f] = view]
           u == [t EXCEPT !.feature = feature]
           q == Measured(sample, t.feature[f].sample)
           p == Compose(s.relation.map, Invert(q))
           k == ReplaceRelation(m, f, p)
           still == sure /\ f # m.reference
           relation == [s.relation EXCEPT !.sure = still]
           r == RefreshFeature(s, sample, f)
<1>1. /\ Body(t) /\ GoodMatrix(m) /\ m.n = t.n /\ t.n \in Nat
      /\ Features(t) = 0 .. t.n - 1 /\ Features(m) = Features(t)
      /\ t.feature \in Views(t.n) /\ m.established
  <2>1. Body(t) /\ GoodMatrix(m) /\ m.n = t.n
    BY DEF Sound
  <2> QED
    BY <2>1, BodyIs DEF Features
<1>2. /\ t.feature[f] \in StudiedFeature /\ t.feature[f].sample \in Sample
  BY <1>1, ViewIs
<1>3. s.relation \in Knowledge /\ sure \in BOOLEAN /\ s.relation.map \in Transform
  BY DEF Sound, Knowledge
<1>4. yes \in BOOLEAN
  OBVIOUS
<1>5. r = [t |-> u, m |-> k, relation |-> relation]
  BY DEF RefreshFeature, Refresh
<1>6. q \in Transform /\ p \in Transform
  BY <1>2, <1>3, MeasuredIs, InvertIs, ComposeIs
<1>7. still \in BOOLEAN /\ (still <=> sure /\ f # m.reference)
  BY <1>3
<1> HIDE DEF yes, sure, q, p, still
<1>8. /\ view \in StudiedFeature /\ view.sample = t.feature[f].sample /\ view.sure = sure
      /\ view.base = t.feature[f].base /\ view.ordinal = t.feature[f].ordinal
  BY <1>2, <1>3, <1>4 DEF StudiedFeature
<1> HIDE DEF view
<1>9. /\ feature \in Views(t.n) /\ feature[f] = view
      /\ \A g \in Features(t) : g # f => feature[g] = t.feature[g]
  BY <1>1, <1>8 DEF Views
<1> HIDE DEF feature
<1>10. \A g \in Features(t) : /\ feature[g].base = t.feature[g].base
                              /\ feature[g].ordinal = t.feature[g].ordinal
                              /\ feature[g].sample = t.feature[g].sample
  BY <1>8, <1>9
<1>11. /\ Body(u) /\ u.feature = feature /\ Features(u) = Features(t)
       /\ Same(t, u)
  <2>1. /\ \A g \in Features(t) : feature[g].ordinal \in Features(t)
        /\ \A a \in Features(t) : \E g \in Features(t) : feature[g].ordinal = a
    <3> HIDE DEF t
    <3>1. /\ \A g \in Features(t) : t.feature[g].ordinal \in Features(t)
          /\ \A a \in Features(t) : \E g \in Features(t) : t.feature[g].ordinal = a
      BY <1>1, AgesAre
    <3> QED
      BY <1>10, <3>1
  <2>2. ViewsFit(t, feature) /\ u = WithViews(t, feature)
    BY <1>9, <1>10, <2>1 DEF ViewsFit, WithViews
  <2> HIDE DEF t, u
  <2> QED
    BY <1>1, <1>10, <2>2, BodyChanged DEF Same
<1> HIDE DEF u
<1>12. PICK w \in Transform : Framed(t.feature, m, w)
                              /\ (sure => s.relation.map = Compose(w, Place[sample]))
  BY DEF Sound, sure
<1>13. sure => p = Compose(w, Place[feature[f].sample])
  <2> DEFINE a == Place[sample]
             b == Place[t.feature[f].sample]
  <2>1. a \in Transform /\ b \in Transform /\ Invert(q) \in Transform /\ Compose(a, Invert(q)) = b
    BY <1>2, <1>6, PlaceIs, MeasuredIs, InvertIs DEF q
  <2>2. sure => p = Compose(Compose(w, a), Invert(q))
    BY <1>12 DEF p
  <2> HIDE DEF a, b
  <2>3. sure => p = Compose(w, b)
    BY <2>1, <2>2, ComposeAssociates
  <2> QED
    BY <1>10, <2>3 DEF b
<1>14. /\ GoodMatrix(k) /\ k.n = m.n /\ k.reference = m.reference /\ k.established
       /\ \E v \in Transform : Framed(feature, k, v) /\ (f # m.reference => v = w)
  <2>1. SameBut(Features(m), f, t.feature, feature)
    BY <1>1, <1>9 DEF SameBut
  <2>2. feature[f].sure => p = Compose(w, Place[feature[f].sample])
    BY <1>8, <1>9, <1>13
  <2>3. /\ t.feature \in Views(m.n) /\ feature \in Views(m.n) /\ f \in Features(m)
        /\ GoodMatrix(m) /\ m.established /\ p \in Transform /\ Framed(t.feature, m, w)
    BY <1>1, <1>6, <1>9, <1>12
  <2> HIDE DEF t, m
  <2>4. Reframed(m, k, f, feature, w)
    BY <2>1, <2>2, <2>3, ReplaceRelationFramed
  <2> QED
    BY <2>4 DEF Reframed
<1> HIDE DEF k
<1>15. PICK v \in Transform : Framed(feature, k, v) /\ (f # m.reference => v = w)
  BY <1>14
<1>16. relation \in Knowledge /\ relation.sure = still /\ relation.map = s.relation.map
  BY <1>3, <1>7 DEF Knowledge
<1> HIDE DEF relation
<1>17. relation.sure => relation.map = Compose(v, Place[sample])
  BY <1>7, <1>12, <1>15, <1>16
<1>18. u \in Shape /\ k \in Matrices
  BY <1>11, <1>14 DEF Body, GoodMatrix, IsMatrix
<1> HIDE DEF r
<1>19. Sound(r, sample)
  <2>1. /\ r \in [t : Shape, m : Matrices, relation : Knowledge]
        /\ r.t = u /\ r.m = k /\ r.relation = relation
    BY <1>5, <1>16, <1>18
  <2> QED
    BY <1>1, <1>11, <1>14, <1>15, <1>17, <2>1 DEF Sound, Same
<1> QED
  BY <1>5, <1>11, <1>14, <1>19 DEF r

\* A loop of n turns, each of which keeps its state in X, has a result in X.
Loop(d, n, X, first, h) ==
  d \in [0 .. n -> X] /\ \A i \in 0 .. n : d[i] = IF i = 0 THEN first ELSE h[i][d[i - 1]]

\* The recursive function that refreshes the retained features has a value at
\* every step.
LEMMA LoopExists ==
  ASSUME NEW n \in Nat, NEW X, NEW first \in X, NEW h \in [1 .. n -> [X -> X]]
  PROVE  \E d : Loop(d, n, X, first, h)
<1> DEFINE Runs(k) == \E d \in [0 .. k -> X] :
                        \A i \in 0 .. k : d[i] = IF i = 0 THEN first ELSE h[i][d[i - 1]]
           T == {k \in 0 .. n : ~Runs(k)}
<1>1. Runs(0)
  <2> DEFINE d == [i \in 0 .. 0 |-> first]
  <2>1. d \in [0 .. 0 -> X] /\ \A i \in 0 .. 0 : i = 0 /\ d[i] = first
    OBVIOUS
  <2> QED
    BY <2>1
<1>2. ASSUME NEW k \in 1 .. n, Runs(k - 1)
      PROVE  Runs(k)
  <2>1. PICK d \in [0 .. k - 1 -> X] :
          \A i \in 0 .. k - 1 : d[i] = IF i = 0 THEN first ELSE h[i][d[i - 1]]
    BY <1>2
  <2> DEFINE e == [i \in 0 .. k |-> IF i = k THEN h[k][d[k - 1]] ELSE d[i]]
  <2>2. k \in Nat /\ k - 1 \in 0 .. k - 1 /\ d[k - 1] \in X
    BY <2>1
  <2>3. h[k] \in [X -> X]
    OBVIOUS
  <2>4. h[k][d[k - 1]] \in X
    BY <2>2, <2>3
  <2>5. \A i \in 0 .. k : i # k => i \in 0 .. k - 1
    BY <2>2
  <2>6. e \in [0 .. k -> X]
    BY <2>1, <2>4, <2>5
  <2>7. ASSUME NEW i \in 0 .. k
        PROVE  e[i] = IF i = 0 THEN first ELSE h[i][e[i - 1]]
    <3>1. CASE i = k
      BY <2>2, <3>1
    <3>2. CASE i # k /\ i # 0
      <4>1. i \in 0 .. k - 1 /\ i - 1 \in 0 .. k - 1 /\ i - 1 # k
        BY <2>2, <3>2
      <4> QED
        BY <2>1, <3>2, <4>1
    <3>3. CASE i # k /\ i = 0
      BY <2>1, <2>5, <3>3
    <3> QED
      BY <3>1, <3>2, <3>3
  <2> QED
    BY <2>6, <2>7
<1> HIDE DEF Runs
<1>3. T = {}
  <2> SUFFICES ASSUME T # {} PROVE FALSE
    OBVIOUS
  <2>1. T \in SUBSET Nat
    OBVIOUS
  <2>2. PICK k \in T : \A j \in T : k <= j
    <3> HIDE DEF T
    <3> QED
      BY <2>1, FirstExists
  <2>3. k # 0
    BY <1>1
  <2>4. k \in 1 .. n /\ k - 1 \in 0 .. n /\ k - 1 \notin T
    BY <2>2, <2>3
  <2> QED
    BY <1>2, <2>4
<1> QED
  BY <1>3 DEF Runs, Loop

\* The loop over the order table.
LEMMA RefreshRetainedSound ==
  ASSUME NEW sample \in Sample, NEW s, Sound(s, sample), s.m.established, NEW retained
  PROVE  LET r == RefreshRetained(s, sample, retained) IN
         /\ Sound(r, sample) /\ r.m.established /\ r.m.reference = s.m.reference
         /\ Same(s.t, r.t)
<1> DEFINE n == s.t.n
           order == s.t.order
           X == {r \in [t : Shape, m : Matrices, relation : Knowledge] :
                   /\ Sound(r, sample) /\ r.m.established /\ r.m.reference = s.m.reference
                   /\ Same(s.t, r.t)}
           turn(i, x) == IF order[i] \in retained THEN RefreshFeature(x, sample, order[i]) ELSE x
           h == [i \in 1 .. n |-> [x \in X |-> turn(i, x)]]
           Runs(d) == d = [i \in 0 .. n |-> IF i = 0 THEN s ELSE turn(i, d[i - 1])]
           done == CHOOSE d : Runs(d)
<1>1. n \in Nat /\ Features(s.t) = 0 .. n - 1 /\ Body(s.t)
  BY BodyIs DEF Sound
<1>2. \A i \in 1 .. n : order[i] \in Features(s.t)
  BY <1>1 DEF Body, OrderReadable
<1>3. s \in X
  BY DEF Sound, Same
<1>4. ASSUME NEW i \in 1 .. n, NEW x \in X
      PROVE  turn(i, x) \in X
  <2>1. CASE order[i] \in retained
    <3>1. order[i] \in Features(x.t)
      BY <1>2 DEF Same, Features
    <3> DEFINE r == RefreshFeature(x, sample, order[i])
    <3>2. /\ Sound(r, sample) /\ r.m.established /\ r.m.reference = x.m.reference
          /\ Same(x.t, r.t)
      BY <3>1, RefreshFeatureSound
    <3> HIDE DEF r
    <3>3. Same(s.t, r.t)
      BY <3>2, SameTransitive
    <3>4. r \in [t : Shape, m : Matrices, relation : Knowledge]
      BY <3>2 DEF Sound
    <3>5. r \in X
      BY <3>2, <3>3, <3>4
    <3> QED
      BY <2>1, <3>5 DEF r
  <2>2. CASE order[i] \notin retained
    BY <2>2
  <2> QED
    BY <2>1, <2>2
<1> HIDE DEF X, turn
<1>5. h \in [1 .. n -> [X -> X]]
  BY <1>4
<1>6. PICK d \in [0 .. n -> X] : \A i \in 0 .. n : d[i] = IF i = 0 THEN s ELSE h[i][d[i - 1]]
  <2> HIDE DEF h, n
  <2>1. \E d : Loop(d, n, X, s, h)
    BY <1>1, <1>3, <1>5, LoopExists
  <2> QED
    BY <2>1 DEF Loop
<1>7. \A i \in 1 .. n : i - 1 \in 0 .. n /\ d[i - 1] \in X /\ i \in 0 .. n
  BY <1>1
<1>8. \A i \in 1 .. n : h[i][d[i - 1]] = turn(i, d[i - 1])
  BY <1>7
<1>9. \A i \in 0 .. n : d[i] = IF i = 0 THEN s ELSE turn(i, d[i - 1])
  <2>1. \A i \in 0 .. n : i = 0 \/ i \in 1 .. n
    BY <1>1
  <2> HIDE DEF h
  <2> QED
    BY <1>6, <1>8, <2>1
<1>10. Runs(d)
  BY <1>9
<1>11. Runs(done)
  <2> HIDE DEF Runs
  <2> QED
    BY <1>10
<1> HIDE DEF done
<1>12. \A i \in 0 .. n : done[i] = IF i = 0 THEN s ELSE turn(i, done[i - 1])
  BY <1>11
<1> DEFINE T == {i \in 0 .. n : done[i] \notin X}
<1>13. T = {}
  <2> SUFFICES ASSUME T # {} PROVE FALSE
    OBVIOUS
  <2>1. T \in SUBSET Nat
    BY <1>1
  <2>2. PICK k \in T : \A j \in T : k <= j
    <3> HIDE DEF T
    <3> QED
      BY <2>1, FirstExists
  <2>3. k # 0
    BY <1>1, <1>3, <1>12
  <2>4. k \in 1 .. n /\ k - 1 \in 0 .. n /\ k - 1 \notin T
    BY <1>1, <2>2, <2>3
  <2>5. done[k] = turn(k, done[k - 1])
    BY <1>12, <2>2, <2>3
  <2> QED
    BY <1>4, <2>2, <2>4, <2>5
<1>14. done[n] \in X
  BY <1>1, <1>13
<1>15. RefreshRetained(s, sample, retained) = done[n]
  BY DEF RefreshRetained, done, turn
<1> QED
  BY <1>14, <1>15 DEF X

-----------------------------------------------------------------------------
(* A template that is packed *)

\* What every template is: its views, its matrix, and one frame for both.
Good(t) ==
  /\ Body(t) /\ GoodMatrix(BuildMatrix(t))
  /\ \E w \in Transform : Framed(t.feature, BuildMatrix(t), w)

\* What the unpacked matrix has.
LEMMA BuildIs ==
  ASSUME NEW t, Body(t)
  PROVE  LET m == BuildMatrix(t) IN
         /\ m.n = t.n /\ m.reference = t.reference /\ m.established = t.established
         /\ m.slot = t.relation /\ Features(m) = Features(t) /\ IsMatrix(m)
         /\ m.base = [f \in Features(t) |-> RowBase(f)]
<1> DEFINE base == [f \in Features(t) |-> t.feature[f].base]
           m == BuildMatrix(t)
<1>1. /\ t.n \in 1 .. MaxFeatures /\ t.n \in Nat /\ Features(t) = 0 .. t.n - 1
      /\ t.established \in BOOLEAN /\ t.relation \in Slots
      /\ t.reference \in NoReference .. MaxFeatures - 1
  BY BodyIs
<1>2. base = [f \in Features(t) |-> RowBase(f)]
  BY DEF Body
<1>3. \A f \in Features(t) : RowBase(f) \in Nat
  <2>1. \A f \in Features(t) : f \in Nat
    BY <1>1
  <2> QED
    BY <2>1, RowIs
<1> HIDE DEF base
<1>4. base \in [0 .. t.n - 1 -> Nat]
  BY <1>1, <1>2, <1>3
<1>5. base \in UNION {[0 .. n - 1 -> Nat] : n \in 1 .. MaxFeatures}
  BY <1>1, <1>4
<1>6. m = [n |-> t.n, base |-> base, reference |-> t.reference,
           established |-> t.established, slot |-> t.relation]
  BY DEF BuildMatrix, base
<1> HIDE DEF m
<1>7. m \in Matrices
  BY <1>1, <1>5, <1>6 DEF Matrices
<1>8. /\ m.n = t.n /\ m.reference = t.reference /\ m.established = t.established
      /\ m.slot = t.relation /\ m.base = base
  BY <1>6
<1>9. Features(m) = Features(t)
  BY <1>8 DEF Features
<1> QED
  BY <1>2, <1>7, <1>8, <1>9 DEF m, IsMatrix, Rowed

\* A body does not depend on the relations.
LEMMA BodyAgrees ==
  ASSUME NEW t, Body(t), NEW u \in Shape, u.n = t.n, u.feature = t.feature,
         u.registration = t.registration, u.order = t.order
  PROVE  Body(u)
<1>1. Features(u) = Features(t)
  BY DEF Features
<1>2. OrderReadable(u) /\ AgesRanked(u)
  BY <1>1 DEF Body, OrderReadable, AgesRanked
<1> QED
  BY <1>1, <1>2 DEF Body

\* Packing keeps what a study knows.
LEMMA PackGood ==
  ASSUME NEW s, NEW sample, Sound(s, sample)
  PROVE  LET u == Pack(s.t, s.m) IN
         /\ Good(u) /\ u.n = s.t.n /\ u.feature = s.t.feature /\ u.order = s.t.order
         /\ u.registration = s.t.registration /\ u.disabled = s.t.disabled
         /\ u.established = s.m.established /\ u.reference = s.m.reference
<1> DEFINE t == s.t
           m == s.m
           relation == ProjectReferenceStar(m)
           u == Pack(t, m)
           b == BuildMatrix(u)
<1>1. Body(t) /\ GoodMatrix(m) /\ m.n = t.n
  BY DEF Sound
<1>2. /\ m.slot \in Slots /\ m.established \in BOOLEAN
      /\ m.reference \in NoReference .. MaxFeatures - 1
  BY <1>1, MatrixIs DEF GoodMatrix
<1>3. m.established => relation = m.slot
  <2> SUFFICES ASSUME m.established PROVE relation = m.slot
    OBVIOUS
  <2> DEFINE d == {i \in DOMAIN m.slot :
                     \E f \in Others(m, m.reference) : i = SlotIndex(m, f, m.reference)}
  <2>1. d = DOMAIN m.slot
    <3>1. ASSUME NEW i \in DOMAIN m.slot
          PROVE  \E f \in Others(m, m.reference) : i = SlotIndex(m, f, m.reference)
      <4>1. PICK f \in Others(m, m.reference) : i = Star(m, f)
        BY <1>1 DEF GoodMatrix
      <4>2. Star(m, f) = SlotIndex(m, f, m.reference)
        BY <1>1, StarsApart
      <4> QED
        BY <4>1, <4>2
    <3> QED
      BY <3>1
  <2>2. relation = Restrict(m.slot, d)
    BY DEF ProjectReferenceStar
  <2> HIDE DEF d, relation
  <2>3. m.slot \in [DOMAIN m.slot -> Relation]
    BY <1>2, SlotsAre
  <2> QED
    BY <2>1, <2>2, <2>3 DEF Restrict
<1>4. ~m.established => relation = << >> /\ DOMAIN m.slot = {}
  BY <1>1 DEF ProjectReferenceStar, GoodMatrix
<1>5. << >> \in Slots /\ DOMAIN << >> = {}
  <2>1. << >> \in [{} -> Relation]
    OBVIOUS
  <2>2. {} \in SUBSET Nat
    OBVIOUS
  <2> QED
    BY <2>1, <2>2, SlotsAre
<1> HIDE DEF relation
<1>6. relation \in Slots /\ DOMAIN relation = DOMAIN m.slot
  BY <1>2, <1>3, <1>4, <1>5
<1>7. u = [t EXCEPT !.relation = relation, !.reference = m.reference,
                    !.established = m.established]
  BY DEF Pack, relation
<1> HIDE DEF u
<1>8. /\ Body(u) /\ u.relation = relation /\ u.reference = m.reference
      /\ u.established = m.established
      /\ u.n = t.n /\ u.feature = t.feature /\ u.registration = t.registration
      /\ u.order = t.order /\ u.disabled = t.disabled
  <2>1. t \in Shape
    BY <1>1 DEF Body
  <2>2. u \in Shape
    BY <1>2, <1>6, <1>7, <2>1 DEF Shape
  <2>3. /\ u.relation = relation /\ u.reference = m.reference
        /\ u.established = m.established
        /\ u.n = t.n /\ u.feature = t.feature /\ u.registration = t.registration
        /\ u.order = t.order /\ u.disabled = t.disabled
    BY <1>7, <2>1 DEF Shape
  <2> HIDE DEF t, m
  <2> QED
    BY <1>1, <2>2, <2>3, BodyAgrees
<1>9. /\ b.n = m.n /\ b.reference = m.reference /\ b.established = m.established
      /\ b.slot = relation /\ IsMatrix(b)
  BY <1>1, <1>8, BuildIs
<1> HIDE DEF b
<1>10. Features(b) = Features(m) /\ Others(b, b.reference) = Others(m, m.reference)
  BY <1>9 DEF Features, Others
<1>11. \A f : Star(b, f) = Star(m, f)
  BY <1>9 DEF Star
<1>12. GoodMatrix(b)
  <2>1. /\ b.established => b.reference \in Features(b)
        /\ ~b.established => b.reference = NoReference /\ DOMAIN b.slot = {}
    BY <1>1, <1>6, <1>9, <1>10 DEF GoodMatrix
  <2>2. \A i \in DOMAIN b.slot : \E f \in Others(b, b.reference) : i = Star(b, f)
    BY <1>1, <1>6, <1>9, <1>10, <1>11 DEF GoodMatrix
  <2> QED
    BY <1>9, <2>1, <2>2 DEF GoodMatrix
<1>13. PICK w \in Transform : Framed(t.feature, m, w)
  BY DEF Sound
<1>14. Framed(u.feature, b, w)
  <2>1. ASSUME NEW f \in Features(b), u.feature[f].active
        PROVE  /\ b.established /\ Reached(b, f)
               /\ u.feature[f].sure => Toward(b, f) = Compose(w, Place[u.feature[f].sample])
    <3>1. /\ m.established /\ Reached(m, f)
          /\ t.feature[f].sure => Toward(m, f) = Compose(w, Place[t.feature[f].sample])
      BY <1>8, <1>10, <1>13, <2>1 DEF Framed
    <3>2. relation = m.slot
      BY <1>3, <3>1
    <3>3. Toward(b, f) = Toward(m, f) /\ Reached(b, f)
      BY <1>9, <1>11, <3>1, <3>2 DEF Toward, Reached
    <3> QED
      BY <1>8, <1>9, <3>1, <3>3
  <2> QED
    BY <2>1 DEF Framed
<1> QED
  BY <1>8, <1>12, <1>14 DEF u, b, Good

-----------------------------------------------------------------------------
(* What a match says of the probe *)

\* An active feature has a reference to be placed against.
LEMMA ActiveEstablished ==
  ASSUME NEW t, Good(t), NEW f \in Active(t)
  PROVE  t.established /\ f \in Features(t)
<1>1. Body(t)
  BY DEF Good
<1>2. f \in Features(t) /\ t.feature[f].active
  BY DEF Active
<1>3. f \in Features(BuildMatrix(t)) /\ BuildMatrix(t).established = t.established
  BY <1>1, <1>2, BuildIs
<1> QED
  BY <1>2, <1>3 DEF Good, Framed

\* What a match found leads from the probe to the reference.
LEMMA MatchReferenceIs ==
  ASSUME NEW t, Good(t), NEW f \in Features(t), NEW direct \in Transform
  PROVE  LET through == MatchReference(t, f, direct)
             m == BuildMatrix(t) IN
         through.found =>
           /\ through.map \in Transform /\ t.established
           /\ Toward(m, f) \in Transform /\ through.map = Compose(Toward(m, f), direct)
<1> DEFINE m == BuildMatrix(t)
           through == MatchReference(t, f, direct)
<1>1. Body(t) /\ GoodMatrix(m) /\ t.established \in BOOLEAN
  BY BodyIs DEF Good
<1>2. /\ m.reference = t.reference /\ m.established = t.established
      /\ m.slot = t.relation /\ Features(m) = Features(t) /\ IsMatrix(m)
  BY <1>1, BuildIs
<1> HIDE DEF m
<1>3. CASE t.established /\ f = t.reference
  <2>1. through = [found |-> TRUE, map |-> direct]
    BY <1>3 DEF MatchReference
  <2>2. Toward(m, f) = Identity
    BY <1>2, <1>3 DEF Toward
  <2> QED
    BY <1>3, <2>1, <2>2, IdentityIs, ComposeIdentity DEF m
<1>4. CASE t.established /\ f # t.reference /\ IsSet(m, f, t.reference)
  <2> DEFINE c == SlotOf(m, f, t.reference).map
  <2>1. through = [found |-> TRUE, map |-> Route(c, direct, f, t.reference)]
    BY <1>4 DEF MatchReference, m
  <2>2. f \in Others(m, m.reference)
    BY <1>2, <1>4 DEF Others
  <2>3. SlotIndex(m, f, t.reference) = Star(m, f) /\ f \in Nat /\ m.reference \in Nat
    BY <1>1, <1>2, <1>4, <2>2, StarsApart
  <2>4. Star(m, f) \in DOMAIN m.slot /\ c = m.slot[Star(m, f)].map
    BY <1>4, <2>3 DEF IsSet, SlotOf
  <2> HIDE DEF c
  <2>5. Reached(m, f) /\ Toward(m, f) \in Transform
    BY <1>1, <1>2, <2>4, TowardIs DEF Reached
  <2>6. Toward(m, f) = IF f > t.reference THEN c ELSE Invert(c)
    BY <1>2, <1>4, <2>4 DEF Toward
  <2>7. Route(c, direct, f, t.reference) = Compose(Toward(m, f), direct)
    <3>1. f > t.reference \/ f < t.reference
      BY <1>2, <1>4, <2>3
    <3> QED
      BY <1>2, <2>3, <2>6, <3>1 DEF Route
  <2> QED
    BY <1>4, <2>1, <2>5, <2>7, ComposeIs DEF m
<1>5. CASE ~t.established \/ (f # t.reference /\ ~IsSet(m, f, t.reference))
  <2>1. through = [found |-> FALSE, map |-> Identity]
    BY <1>1, <1>5 DEF MatchReference, m
  <2> QED
    BY <2>1
<1> QED
  BY <1>3, <1>4, <1>5

\* What is known of a probe is known in the frame of the template.
LEMMA RelationIs ==
  ASSUME NEW t, Good(t), NEW sample \in Sample, NEW features \in SUBSET Features(t),
         NEW r \in Relations(t, sample, features)
  PROVE  /\ r \in Knowledge
         /\ r.known => t.established
         /\ r.sure => r.known
         /\ \A w \in Transform : Framed(t.feature, BuildMatrix(t), w) =>
              (r.sure => r.map = Compose(w, Place[sample]))
<1> DEFINE m == BuildMatrix(t)
           through(f) == MatchReference(t, f, Measured(sample, t.feature[f].sample))
<1>1. CASE r = Nothing
  <2> DEFINE no == FALSE
  <2>1. r = [known |-> no, sure |-> no, map |-> Identity]
    BY <1>1 DEF Nothing
  <2>2. no \in BOOLEAN /\ Identity \in Transform
    BY IdentityIs
  <2>3. r \in Knowledge
    <3> HIDE DEF no
    <3> QED
      BY <2>1, <2>2 DEF Knowledge
  <2> QED
    BY <2>1, <2>3
<1>2. CASE r # Nothing
  <2>1. PICK f \in features :
          /\ t.feature[f].active /\ through(f).found
          /\ r = [known |-> TRUE, sure |-> t.feature[f].sure, map |-> through(f).map]
    BY <1>2 DEF Relations
  <2> DEFINE a == t.feature[f].sample
             q == Measured(sample, a)
             known == TRUE
             sure == t.feature[f].sure
             map == through(f).map
  <2>2. /\ Body(t) /\ f \in Features(t) /\ t.n \in Nat /\ t.feature \in Views(t.n)
        /\ Features(t) = 0 .. t.n - 1
    BY BodyIs DEF Good
  <2>3. a \in Sample /\ sure \in BOOLEAN /\ known \in BOOLEAN
    BY <2>2, ViewIs
  <2>4. q \in Transform /\ Compose(Place[a], q) = Place[sample] /\ Place[a] \in Transform
    BY <2>3, MeasuredIs, PlaceIs
  <2> HIDE DEF q, through
  <2>5. /\ map \in Transform /\ t.established
        /\ Toward(m, f) \in Transform /\ map = Compose(Toward(m, f), q)
    <3>1. through(f) = MatchReference(t, f, q)
      BY DEF through, q
    <3> QED
      BY <2>1, <2>2, <2>4, <3>1, MatchReferenceIs
  <2>6. r = [known |-> known, sure |-> sure, map |-> map]
    BY <2>1
  <2> HIDE DEF known, sure, map
  <2>7. r \in Knowledge /\ r.sure = sure /\ r.map = map
    BY <2>3, <2>5, <2>6 DEF Knowledge
  <2>8. r.known
    BY <2>6 DEF known
  <2>9. ASSUME NEW w \in Transform, Framed(t.feature, m, w), r.sure
        PROVE  r.map = Compose(w, Place[sample])
    <3>1. f \in Features(m)
      BY <2>2, BuildIs
    <3>2. Toward(m, f) = Compose(w, Place[a])
      BY <2>1, <2>7, <2>9, <3>1 DEF Framed, sure
    <3> HIDE DEF a, m
    <3>3. Compose(Compose(w, Place[a]), q) = Compose(w, Compose(Place[a], q))
      BY <2>4, ComposeAssociates
    <3> QED
      BY <2>4, <2>5, <2>7, <3>2, <3>3
  <2> QED
    BY <2>5, <2>7, <2>8, <2>9
<1> QED
  BY <1>1, <1>2

\* Evidence comes from a feature that can be placed.
LEMMA EvidenceIs ==
  ASSUME NEW t, Good(t), NEW sample \in Sample, NEW features \in SUBSET Features(t),
         NEW r \in Relations(t, sample, features), NEW flag \in EvidenceFlag(t, features, r)
  PROVE  flag \in BOOLEAN /\ (flag => t.established)
<1>1. CASE r.known
  BY <1>1, RelationIs DEF EvidenceFlag
<1>2. CASE ~r.known /\ features \cap Active(t) # {}
  BY <1>2, ActiveEstablished DEF EvidenceFlag
<1>3. CASE ~r.known /\ features \cap Active(t) = {}
  BY <1>3 DEF EvidenceFlag
<1> QED
  BY <1>1, <1>2, <1>3

\* The start of a study.
LEMMA StartSound ==
  ASSUME NEW t, Good(t), NEW sample \in Sample, NEW features \in SUBSET Features(t),
         NEW r \in Relations(t, sample, features)
  PROVE  Sound([t |-> t, m |-> BuildMatrix(t), relation |-> r], sample)
<1> DEFINE m == BuildMatrix(t)
           s == [t |-> t, m |-> m, relation |-> r]
<1>1. Body(t) /\ GoodMatrix(m) /\ m.n = t.n /\ t \in Shape /\ m \in Matrices
  BY BuildIs DEF Good, Body, GoodMatrix, IsMatrix
<1>2. r \in Knowledge
  BY RelationIs
<1>3. PICK w \in Transform : Framed(t.feature, m, w)
  BY DEF Good
<1>4. r.sure => r.map = Compose(w, Place[sample])
  BY <1>3, RelationIs
<1> HIDE DEF m
<1>5. s \in [t : Shape, m : Matrices, relation : Knowledge] /\ s.t = t /\ s.m = m
      /\ s.relation = r
  BY <1>1, <1>2
<1> HIDE DEF s
<1>6. Sound(s, sample)
  BY <1>1, <1>3, <1>4, <1>5 DEF Sound
<1> QED
  BY <1>6 DEF s, m

\* The retained features, when the probe brings evidence.
LEMMA PrepassSound ==
  ASSUME NEW t, Good(t), NEW sample \in Sample, NEW features \in SUBSET Features(t),
         NEW r \in Relations(t, sample, features), NEW retained,
         NEW flag \in BOOLEAN, flag => t.established
  PROVE  LET s == Prepass(t, sample, r, retained, flag) IN
         /\ Sound(s, sample) /\ Same(t, s.t)
         /\ s.m.established = t.established /\ s.m.reference = t.reference
         /\ ~t.established => ~s.relation.sure
<1> DEFINE m == BuildMatrix(t)
           b == [t |-> t, m |-> m, relation |-> r]
           s == Prepass(t, sample, r, retained, flag)
<1>1. Sound(b, sample)
  BY StartSound
<1>2. m.established = t.established /\ m.reference = t.reference /\ t.established \in BOOLEAN
  BY BuildIs, BodyIs DEF Good
<1>3. flag \in BOOLEAN /\ (flag => t.established)
  OBVIOUS
<1>4. ~t.established => ~r.sure
  BY RelationIs
<1> HIDE DEF m
<1>5. b.t = t /\ b.m = m /\ b.relation = r
  OBVIOUS
<1>6. s = IF flag THEN RefreshRetained(b, sample, retained) ELSE b
  BY DEF Prepass, m
<1> HIDE DEF s, b
<1>7. CASE flag
  <2> DEFINE c == RefreshRetained(b, sample, retained)
  <2>1. /\ Sound(c, sample) /\ c.m.established /\ c.m.reference = b.m.reference
        /\ Same(b.t, c.t)
    BY <1>1, <1>2, <1>3, <1>5, <1>7, RefreshRetainedSound
  <2>2. s = c
    BY <1>6, <1>7
  <2> HIDE DEF c
  <2>3. c.m.established \in BOOLEAN
    BY <2>1, MatrixIs DEF Sound, GoodMatrix
  <2> QED
    BY <1>2, <1>3, <1>5, <1>7, <2>1, <2>2, <2>3 DEF s
<1>8. CASE ~flag
  <2>1. s = b
    BY <1>6, <1>8
  <2>2. Same(t, t)
    BY DEF Same
  <2> QED
    BY <1>1, <1>2, <1>4, <1>5, <2>1, <2>2 DEF s
<1> QED
  BY <1>3, <1>7, <1>8

-----------------------------------------------------------------------------
(* Learning: action 0 and a new feature *)

\* No view is replaced.
SameViews(t, u) ==
  /\ u.n = t.n /\ u.disabled = t.disabled
  /\ \A f \in Features(t) : u.feature[f].sample = t.feature[f].sample

\* What action 0 leaves of the gallery.
LEMMA Action0Good ==
  ASSUME NEW t, Good(t), NEW sample \in Sample, NEW features \in SUBSET Features(t),
         NEW r \in Relations(t, sample, features), NEW retained,
         NEW flag \in BOOLEAN, flag => t.established
  PROVE  LET u == Action0(t, sample, r, retained, flag) IN Good(u) /\ SameViews(t, u)
<1> DEFINE s == Prepass(t, sample, r, retained, flag)
           p == Pack(s.t, s.m)
<1>1. Sound(s, sample) /\ Same(t, s.t)
  BY PrepassSound
<1>2. /\ Good(p) /\ p.n = s.t.n /\ p.feature = s.t.feature /\ p.disabled = s.t.disabled
  BY <1>1, PackGood
<1>3. SameViews(t, p) /\ SameViews(t, t)
  BY <1>1, <1>2 DEF Same, SameViews
<1>4. Action0(t, sample, r, retained, flag) = IF flag /\ retained # {} THEN p ELSE t
  BY DEF Action0
<1> HIDE DEF p
<1> QED
  BY <1>2, <1>3, <1>4

Grows(v, u) ==
  u = [v EXCEPT !.n = u.n, !.registration = u.registration, !.order = u.order,
                !.feature = u.feature]

\* One more row and one more view.
LEMMA GrownBody ==
  ASSUME NEW t, Body(t), t.n < MaxFeatures, NEW feature \in Views(t.n),
         \A f \in Features(t) : feature[f].base = t.feature[f].base
                                /\ feature[f].ordinal = t.feature[f].ordinal,
         NEW new \in StudiedFeature, new.base = t.registration, new.ordinal = t.n,
         NEW u, u.n = t.n + 1, u.registration = t.registration + t.n,
         u.order = With(t.order, t.n + 1, t.n), u.feature = With(feature, t.n, new),
         NEW v \in Shape,
         Grows(v, u)
  PROVE  /\ Body(u) /\ Features(u) = Features(t) \cup {t.n} /\ t.n \notin Features(t)
         /\ u.feature[t.n] = new /\ \A f \in Features(t) : u.feature[f] = feature[f]
<1> DEFINE n == t.n
<1>1. /\ n \in 1 .. MaxFeatures /\ n \in Nat /\ MaxFeatures \in Nat /\ n + 1 \in 1 .. MaxFeatures
      /\ Features(t) = 0 .. n - 1 /\ t.registration = RegistrationCount(n) /\ n > 0
  BY BodyIs DEF Body
<1>2. /\ Features(u) = 0 .. n /\ Features(u) = Features(t) \cup {n} /\ n \notin Features(t)
  BY <1>1 DEF Features
<1>3. /\ RegistrationCount(n + 1) = RegistrationCount(n) + n
      /\ RowBase(n) = RegistrationCount(n) /\ RegistrationCount(n + 1) \in Nat
  <2> HIDE DEF n
  <2>1. n + 1 \in Nat
    BY <1>1
  <2> QED
    BY <1>1, <2>1, RowIs
<1>4. /\ DOMAIN u.feature = 0 .. n /\ u.feature[n] = new
      /\ \A f \in 0 .. n - 1 : u.feature[f] = feature[f]
  <2>1. DOMAIN feature = 0 .. n - 1
    BY DEF Views
  <2> QED
    BY <1>1, <1>2, <2>1 DEF With
<1>5. u.feature \in Views(n + 1)
  <2>1. u.feature \in [0 .. n -> StudiedFeature]
    <3>1. \A f \in 0 .. n - 1 : feature[f] \in StudiedFeature
      BY DEF Views
    <3>2. DOMAIN feature = 0 .. n - 1
      BY DEF Views
    <3>3. u.feature \in [DOMAIN feature \cup {n} -> StudiedFeature]
      BY <3>1, <3>2 DEF With
    <3> QED
      BY <1>1, <1>2, <3>2, <3>3
  <2>2. (n + 1) - 1 = n
    BY <1>1
  <2> QED
    BY <2>1, <2>2 DEF Views
<1>6. PICK last \in 1 .. MaxFeatures : t.order \in [1 .. last -> 0 .. MaxFeatures - 1]
  BY BodyIs
<1>7. last >= n /\ DOMAIN t.order = 1 .. last
  <2>1. 1 .. n \subseteq DOMAIN t.order /\ n \in 1 .. n
    BY <1>1 DEF Body, OrderReadable
  <2>2. DOMAIN t.order = 1 .. last
    BY <1>6
  <2> QED
    BY <1>1, <1>6, <2>1, <2>2
<1>8. /\ DOMAIN u.order = 1 .. last \cup {n + 1} /\ u.order[n + 1] = n
      /\ \A i \in 1 .. last : i # n + 1 => u.order[i] = t.order[i]
  BY <1>7 DEF With
<1>9. u.order \in UNION {[1 .. k -> 0 .. MaxFeatures - 1] : k \in 1 .. MaxFeatures}
  <2>1. u.order \in [1 .. last \cup {n + 1} -> 0 .. MaxFeatures - 1]
    <3>1. n \in 0 .. MaxFeatures - 1
      BY <1>1
    <3>2. \A i \in DOMAIN t.order : t.order[i] \in 0 .. MaxFeatures - 1
      BY <1>6
    <3>3. u.order \in [DOMAIN t.order \cup {n + 1} -> 0 .. MaxFeatures - 1]
      BY <3>1, <3>2 DEF With
    <3> QED
      BY <1>7, <3>3
  <2>2. CASE last = n
    <3>1. 1 .. last \cup {n + 1} = 1 .. n + 1
      BY <1>1, <2>2
    <3> QED
      BY <1>1, <2>1, <3>1
  <2>3. CASE last > n
    <3>1. 1 .. last \cup {n + 1} = 1 .. last
      BY SMTT(30), <1>1, <1>6, <2>3
    <3> QED
      BY <1>6, <2>1, <3>1
  <2> QED
    BY <1>1, <1>6, <1>7, <2>2, <2>3
<1>10. u \in Shape
  <2>1. u.feature \in UNION {Views(k) : k \in 1 .. MaxFeatures}
    BY <1>1, <1>5
  <2>2. u.n \in 1 .. MaxFeatures /\ u.registration \in Nat
    BY <1>1, <1>3
  <2> QED
    BY <1>9, <2>1, <2>2 DEF Shape, Grows
<1>11. \A f \in Features(u) : u.feature[f].base = RowBase(f)
  BY <1>1, <1>2, <1>3, <1>4 DEF Body
<1>12. OrderReadable(u)
  <2>1. 1 .. u.n \subseteq DOMAIN u.order
    BY <1>1, <1>7, <1>8
  <2>2. {t.order[i] : i \in 1 .. n} = Features(t)
    BY DEF Body, OrderReadable
  <2>3. ASSUME NEW i \in 1 .. n + 1
        PROVE  u.order[i] \in 0 .. n
    <3>1. CASE i = n + 1
      BY <1>1, <1>8, <3>1
    <3>2. CASE i # n + 1
      <4>1. i \in 1 .. n /\ i \in 1 .. last
        BY <1>1, <1>6, <1>7, <3>2
      <4>2. t.order[i] \in 0 .. n - 1
        BY <1>1, <2>2, <4>1
      <4>3. u.order[i] = t.order[i]
        BY <1>8, <3>2, <4>1
      <4> QED
        BY <1>1, <4>2, <4>3
    <3> QED
      BY <3>1, <3>2
  <2>4. ASSUME NEW f \in 0 .. n
        PROVE  \E i \in 1 .. n + 1 : u.order[i] = f
    <3>1. CASE f = n
      BY <1>1, <1>8, <3>1
    <3>2. CASE f # n
      <4>0. f \in Features(t)
        BY <1>1, <3>2
      <4>1. PICK i \in 1 .. n : t.order[i] = f
        BY <2>2, <4>0
      <4>2. i \in 1 .. last /\ i # n + 1 /\ i \in 1 .. n + 1
        BY SMTT(30), <1>1, <1>6, <1>7
      <4> QED
        BY <1>8, <4>1, <4>2
    <3> QED
      BY <3>1, <3>2
  <2>5. {u.order[i] : i \in 1 .. u.n} = Features(u)
    BY SMTT(30), <1>2, <2>3, <2>4
  <2> QED
    BY <2>1, <2>5 DEF OrderReadable
<1>13. AgesRanked(u)
  <2>1. {t.feature[f].ordinal : f \in 0 .. n - 1} = 0 .. n - 1
    BY <1>1 DEF Body, AgesRanked
  <2>2. \A f \in 0 .. n - 1 : u.feature[f].ordinal = t.feature[f].ordinal
    BY <1>1, <1>4
  <2>3. ASSUME NEW f \in 0 .. n
        PROVE  u.feature[f].ordinal \in 0 .. n
    <3>1. CASE f = n
      BY <1>1, <1>4, <3>1
    <3>2. CASE f # n
      <4>1. f \in 0 .. n - 1
        BY <1>1, <3>2
      <4>2. t.feature[f].ordinal \in 0 .. n - 1
        BY <2>1, <4>1
      <4> QED
        BY <1>1, <2>2, <4>1, <4>2
    <3> QED
      BY <3>1, <3>2
  <2>4. ASSUME NEW k \in 0 .. n
        PROVE  \E f \in 0 .. n : u.feature[f].ordinal = k
    <3>1. CASE k = n
      BY <1>1, <1>4, <3>1
    <3>2. CASE k # n
      <4>1. k \in 0 .. n - 1
        BY <1>1, <3>2
      <4>2. PICK f \in 0 .. n - 1 : t.feature[f].ordinal = k
        BY <2>1, <4>1
      <4> QED
        BY <1>1, <2>2, <4>2
    <3> QED
      BY <3>1, <3>2
  <2>5. {u.feature[f].ordinal : f \in 0 .. n} = 0 .. n
    BY <2>3, <2>4
  <2> QED
    BY <1>2, <2>5 DEF AgesRanked
<1> QED
  BY <1>1, <1>2, <1>3, <1>4, <1>5, <1>10, <1>11, <1>12, <1>13 DEF Body

\* The first feature that is learnt: the matched one is the reference.
LEMMA RootedIs ==
  ASSUME NEW t, Body(t), NEW matched \in Features(t), NEW m, GoodMatrix(m), m.n = t.n,
         m.established = t.established, m.reference = t.reference,
         NEW w \in Transform, Framed(t.feature, m, w)
  PROVE  LET u == Rooted(t, matched) IN
         /\ u \in Shape /\ u.n = t.n /\ u.registration = t.registration /\ u.order = t.order
         /\ u.disabled = t.disabled /\ u.feature \in Views(t.n)
         /\ u.reference \in Features(t) /\ u.established
         /\ t.established => u.reference = t.reference
         /\ \A f \in Features(t) : /\ u.feature[f].base = t.feature[f].base
                                   /\ u.feature[f].ordinal = t.feature[f].ordinal
                                   /\ u.feature[f].sample = t.feature[f].sample
         /\ t.established => u.feature = t.feature
         /\ ~t.established => \A f \in Features(t) : u.feature[f].active => f = u.reference
<1>1. /\ t \in Shape /\ t.n \in 1 .. MaxFeatures /\ t.n \in Nat /\ MaxFeatures \in Nat
      /\ Features(t) = 0 .. t.n - 1 /\ t.feature \in Views(t.n)
  BY BodyIs DEF Body
<1>2. CASE t.established
  <2>1. t.reference \in Features(t)
    BY <1>2 DEF GoodMatrix, Features
  <2> QED
    BY <1>1, <1>2, <2>1 DEF Rooted
<1>3. CASE ~t.established
  <2> DEFINE yes == TRUE
             view == [t.feature[matched] EXCEPT !.active = yes]
             feature == [t.feature EXCEPT ![matched] = view]
             u == [t EXCEPT !.established = yes, !.reference = matched, !.feature = feature]
  <2>1. Rooted(t, matched) = u
    BY <1>3 DEF Rooted
  <2>2. yes \in BOOLEAN /\ t.feature[matched] \in StudiedFeature
    BY <1>1, ViewIs
  <2>3. yes
    OBVIOUS
  <2> HIDE DEF yes
  <2>4. /\ view \in StudiedFeature /\ view.base = t.feature[matched].base
        /\ view.ordinal = t.feature[matched].ordinal
        /\ view.sample = t.feature[matched].sample
    BY <2>2 DEF StudiedFeature
  <2> HIDE DEF view
  <2>5. /\ feature \in Views(t.n) /\ feature[matched] = view
        /\ \A f \in Features(t) : f # matched => feature[f] = t.feature[f]
    BY <1>1, <2>4 DEF Views
  <2> HIDE DEF feature
  <2>6. matched \in NoReference .. MaxFeatures - 1
    BY <1>1 DEF NoReference
  <2>7. feature \in UNION {Views(k) : k \in 1 .. MaxFeatures}
    BY <1>1, <2>5
  <2>8. u \in Shape
    BY <1>1, <2>2, <2>6, <2>7 DEF Shape
  <2>9. /\ u.n = t.n /\ u.registration = t.registration /\ u.order = t.order
        /\ u.disabled = t.disabled /\ u.feature = feature /\ u.reference = matched
    BY <1>1 DEF Shape
  <2>10. u.established = yes
    BY <1>1 DEF Shape
  <2> HIDE DEF u
  <2>11. \A f \in Features(t) : ~t.feature[f].active
    <3>1. Features(m) = Features(t)
      BY DEF Features
    <3> QED
      BY <1>3, <3>1 DEF Framed
  <2>12. \A f \in Features(t) : u.feature[f].active => f = u.reference
    BY <2>5, <2>9, <2>11
  <2>13. \A f \in Features(t) : /\ u.feature[f].base = t.feature[f].base
                                /\ u.feature[f].ordinal = t.feature[f].ordinal
                                /\ u.feature[f].sample = t.feature[f].sample
    BY <2>4, <2>5, <2>9
  <2> QED
    BY <1>3, <2>1, <2>3, <2>5, <2>8, <2>9, <2>10, <2>12, <2>13
<1> QED
  BY <1>2, <1>3

\* A placed feature is in the frame of the others.
LEMMA GrownFramed ==
  ASSUME NEW row, GoodMatrix(row), row.established, row.n \in Nat, NEW n \in Nat, row.n = n + 1,
         row.reference \in 0 .. n - 1,
         NEW feature \in Views(n + 1), NEW w \in Transform, NEW map \in Transform,
         \A g \in 0 .. n - 1 : feature[g].active =>
           /\ Reached(row, g)
           /\ feature[g].sure => Toward(row, g) = Compose(w, Place[feature[g].sample]),
         feature[n].sure => map = Compose(w, Place[feature[n].sample])
  PROVE  LET m == IF feature[n].active THEN StoreReference(row, n, map) ELSE row IN
         /\ GoodMatrix(m) /\ m.n = n + 1 /\ m.established
         /\ m.reference = row.reference /\ Framed(feature, m, w)
<1> DEFINE k == StoreReference(row, n, map)
<1>1. n \in Others(row, row.reference) /\ Features(row) = 0 .. n
  BY DEF Others, Features
<1>2. \A g \in 0 .. n : g = n \/ g \in 0 .. n - 1
  OBVIOUS
<1>3. CASE feature[n].active
  <2>1. /\ GoodMatrix(k) /\ k.n = row.n /\ k.reference = row.reference
        /\ k.established /\ Reached(k, n) /\ Toward(k, n) = map
        /\ \A g \in Features(row) : g # n /\ Reached(row, g) =>
              Reached(k, g) /\ Toward(k, g) = Toward(row, g)
    BY <1>1, StoreReferenceGood
  <2> HIDE DEF k
  <2>2. Features(k) = 0 .. n
    BY <1>1, <2>1 DEF Features
  <2>3. ASSUME NEW g \in 0 .. n, feature[g].active
        PROVE  /\ k.established /\ Reached(k, g)
               /\ feature[g].sure => Toward(k, g) = Compose(w, Place[feature[g].sample])
    <3>1. CASE g = n
      BY <2>1, <3>1
    <3>2. CASE g # n
      BY <1>1, <1>2, <2>1, <2>3, <3>2
    <3> QED
      BY <3>1, <3>2
  <2>4. Framed(feature, k, w)
    BY <2>2, <2>3 DEF Framed
  <2> QED
    BY <1>3, <2>1, <2>4 DEF k
<1>4. CASE ~feature[n].active
  <2>1. Framed(feature, row, w)
    BY <1>1, <1>2, <1>4 DEF Framed
  <2> QED
    BY <1>4, <2>1
<1> QED
  BY <1>3, <1>4

\* goodix_milan_study_append: a template with one more view, the probe's.
LEMMA AppendGood ==
  ASSUME NEW t, Good(t), ~AtCapacity(t), NEW sample \in Sample,
         NEW features \in SUBSET Features(t), NEW r \in Relations(t, sample, features),
         NEW matched \in Features(t), NEW retained,
         NEW flag \in BOOLEAN, flag => t.established
  PROVE  LET u == AppendFeature(t, sample, matched, r, retained, flag) IN
         /\ Good(u) /\ u.established /\ u.n = t.n + 1 /\ u.disabled = t.disabled
         /\ \A f \in Features(t) : u.feature[f].sample = t.feature[f].sample
         /\ u.feature[t.n].sample = sample
<1> DEFINE s == Prepass(t, sample, r, retained, flag)
           n == s.t.n
           new == NewFeature(s.t, sample, matched, s.relation)
           rooted == Rooted(s.t, matched)
           grown == [rooted EXCEPT !.n = n + 1, !.registration = @ + n,
                                   !.order = With(@, n + 1, n),
                                   !.feature = With(@, n, new)]
           row == [AppendRow(s.m, s.t.registration) EXCEPT
                     !.reference = rooted.reference, !.established = TRUE]
           map == s.relation.map
           m == IF new.active THEN StoreReference(row, n, map) ELSE row
           placed == [t |-> grown, relation |-> s.relation, m |-> m]
           done == IF t.established THEN placed ELSE RefreshRetained(placed, sample, retained)
           u == AppendFeature(t, sample, matched, r, retained, flag)
<1>1. /\ Sound(s, sample) /\ Same(t, s.t)
      /\ s.m.established = t.established /\ s.m.reference = t.reference
      /\ ~t.established => ~s.relation.sure
  BY PrepassSound
<1>2. u = Pack(done.t, done.m)
  BY DEF AppendFeature
<1> HIDE DEF s, u
<1>3. /\ Body(s.t) /\ GoodMatrix(s.m) /\ s.m.n = n /\ s.t \in Shape
      /\ s.relation \in Knowledge /\ map \in Transform /\ s.relation.sure \in BOOLEAN
  BY <1>1 DEF Sound, Body, Knowledge
<1>4. PICK w \in Transform : /\ Framed(s.t.feature, s.m, w)
                             /\ s.relation.sure => map = Compose(w, Place[sample])
  BY <1>1 DEF Sound
<1>5. /\ n \in 1 .. MaxFeatures /\ n \in Nat /\ MaxFeatures \in Nat /\ n < MaxFeatures /\ n > 0
      /\ Features(s.t) = 0 .. n - 1 /\ Features(t) = 0 .. n - 1 /\ Features(s.m) = 0 .. n - 1
      /\ t.n = n /\ s.t.feature \in Views(n) /\ s.t.registration = RegistrationCount(n)
      /\ s.t.established \in BOOLEAN /\ s.t.established = t.established
      /\ s.t.reference = t.reference /\ s.t.registration \in Nat
      /\ t.established \in BOOLEAN
  <2>1. t.n = n /\ Body(t)
    BY <1>1 DEF Same, Good
  <2>2. t.n # MaxFeatures
    BY DEF AtCapacity
  <2> QED
    BY <1>1, <1>3, <2>1, <2>2, BodyIs DEF Same, Body, Features
<1>6. matched \in Features(s.t)
  BY <1>5
<1>7. /\ rooted \in Shape /\ rooted.n = n /\ rooted.registration = s.t.registration
      /\ rooted.order = s.t.order /\ rooted.disabled = s.t.disabled
      /\ rooted.feature \in Views(n)
      /\ rooted.reference \in 0 .. n - 1 /\ rooted.established
      /\ t.established => rooted.reference = t.reference
      /\ \A f \in 0 .. n - 1 : /\ rooted.feature[f].base = s.t.feature[f].base
                               /\ rooted.feature[f].ordinal = s.t.feature[f].ordinal
                               /\ rooted.feature[f].sample = s.t.feature[f].sample
      /\ t.established => rooted.feature = s.t.feature
      /\ ~t.established => \A f \in 0 .. n - 1 :
                             rooted.feature[f].active => f = rooted.reference
  <2> HIDE DEF rooted, n
  <2> DEFINE T == s.t
             M == s.m
  <2>1. /\ Body(T) /\ matched \in Features(T) /\ GoodMatrix(M) /\ M.n = T.n
        /\ M.established = T.established /\ M.reference = T.reference
        /\ Framed(T.feature, M, w)
    BY <1>1, <1>3, <1>4, <1>5, <1>6 DEF n
  <2>2. T.n = n /\ Features(T) = 0 .. n - 1 /\ T.established = t.established
        /\ T.reference = t.reference
    BY <1>5 DEF n
  <2>3. rooted = Rooted(T, matched)
    BY DEF rooted
  <2> HIDE DEF T, M
  <2>4. /\ rooted \in Shape /\ rooted.n = T.n /\ rooted.registration = T.registration
        /\ rooted.order = T.order /\ rooted.disabled = T.disabled
        /\ rooted.feature \in Views(T.n)
        /\ rooted.reference \in Features(T) /\ rooted.established
        /\ T.established => rooted.reference = T.reference
        /\ \A f \in Features(T) : /\ rooted.feature[f].base = T.feature[f].base
                                  /\ rooted.feature[f].ordinal = T.feature[f].ordinal
                                  /\ rooted.feature[f].sample = T.feature[f].sample
        /\ T.established => rooted.feature = T.feature
        /\ ~T.established => \A f \in Features(T) :
                               rooted.feature[f].active => f = rooted.reference
    BY <2>1, <2>3, RootedIs
  <2> QED
    BY <2>2, <2>4 DEF T
<1> HIDE DEF rooted
<1>8. /\ new \in StudiedFeature /\ new.base = s.t.registration /\ new.ordinal = n
      /\ new.sample = sample /\ new.sure = s.relation.sure
  <2> DEFINE active == s.t.feature[matched].active \/ ~s.t.established
  <2>1. active \in BOOLEAN /\ s.t.feature[matched].generation \in Nat
    BY <1>5, ViewIs
  <2>2. new = [sample |-> sample, active |-> active, base |-> s.t.registration,
               ordinal |-> n, generation |-> s.t.feature[matched].generation,
               sure |-> s.relation.sure]
    BY DEF NewFeature
  <2> HIDE DEF active, new
  <2> QED
    BY <1>3, <1>5, <2>1, <2>2 DEF StudiedFeature
<1> HIDE DEF new
<1>9. /\ Body(grown) /\ grown.n = n + 1 /\ Features(grown) = 0 .. n
      /\ grown.disabled = s.t.disabled /\ grown.feature \in Views(n + 1)
      /\ grown.feature[n] = new /\ \A f \in 0 .. n - 1 : grown.feature[f] = rooted.feature[f]
  <2>1. /\ grown.n = n + 1 /\ grown.registration = s.t.registration + n
        /\ grown.order = With(s.t.order, n + 1, n)
        /\ grown.feature = With(rooted.feature, n, new)
    BY <1>7 DEF Shape
  <2>2. Grows(rooted, grown)
    BY <1>7, <2>1 DEF Grows
  <2>3. grown.disabled = rooted.disabled
    BY <1>7 DEF Shape
  <2> HIDE DEF grown
  <2> DEFINE T == s.t
  <2>5. /\ Body(T) /\ T.n = n /\ T.n < MaxFeatures /\ Features(T) = 0 .. n - 1
        /\ new.base = T.registration
    BY <1>3, <1>5, <1>8
  <2>6. \A f \in Features(T) : /\ rooted.feature[f].base = T.feature[f].base
                               /\ rooted.feature[f].ordinal = T.feature[f].ordinal
    BY <1>7, <2>5
  <2>7. /\ grown.registration = T.registration + T.n
        /\ grown.order = With(T.order, T.n + 1, T.n)
        /\ grown.n = T.n + 1 /\ rooted.feature \in Views(T.n)
        /\ grown.feature = With(rooted.feature, T.n, new) /\ new.ordinal = T.n
    BY <1>7, <1>8, <2>1, <2>5
  <2> HIDE DEF T, n
  <2>8. /\ Body(grown) /\ Features(grown) = Features(T) \cup {T.n}
        /\ grown.feature[T.n] = new
        /\ \A f \in Features(T) : grown.feature[f] = rooted.feature[f]
    BY ZenonT(40), <1>7, <1>8, <2>2, <2>5, <2>6, <2>7, GrownBody
  <2>9. grown.feature \in Views(n + 1) /\ Features(grown) = 0 .. n
    BY <1>5, <2>1, <2>8, BodyIs DEF Body, Features
  <2> QED
    BY <1>7, <2>1, <2>3, <2>5, <2>8, <2>9 DEF T
<1> HIDE DEF grown
<1>10. /\ GoodMatrix(row) /\ row.n = n + 1 /\ row.reference = rooted.reference
       /\ row.established
       /\ t.established => \A g \in 0 .. n - 1 :
            (Reached(s.m, g) => Reached(row, g)) /\ Toward(row, g) = Toward(s.m, g)
  <2> DEFINE M == s.m
             reference == rooted.reference
  <2>1. /\ GoodMatrix(M) /\ M.n < MaxFeatures /\ reference \in Features(M)
        /\ M.established => reference = M.reference
    BY <1>1, <1>3, <1>5, <1>7
  <2>5. M.n = n /\ Features(M) = 0 .. n - 1 /\ M.established = t.established
    BY <1>1, <1>3, <1>5
  <2>2. row = NewRow(M, reference)
    BY <1>5, <2>5 DEF NewRow
  <2>3. reference = rooted.reference
    OBVIOUS
  <2> HIDE DEF M, reference, row
  <2>4. /\ GoodMatrix(row) /\ row.n = M.n + 1 /\ row.reference = reference /\ row.established
        /\ M.established => \A g \in Features(M) :
             (Reached(M, g) => Reached(row, g)) /\ Toward(row, g) = Toward(M, g)
    <3>1. RowAdded(M, reference, row)
      BY <2>1, <2>2, AppendRowGood
    <3> QED
      BY <3>1 DEF RowAdded
  <2> QED
    BY <2>3, <2>4, <2>5 DEF M
<1> HIDE DEF row
<1>11. PICK v \in Transform :
         /\ \A g \in 0 .. n - 1 : rooted.feature[g].active =>
              /\ Reached(row, g)
              /\ rooted.feature[g].sure =>
                   Toward(row, g) = Compose(v, Place[rooted.feature[g].sample])
         /\ s.relation.sure => map = Compose(v, Place[sample])
  <2>1. CASE t.established
    <3>1. \A g \in 0 .. n - 1 : rooted.feature[g].active =>
            /\ Reached(row, g)
            /\ rooted.feature[g].sure =>
                 Toward(row, g) = Compose(w, Place[rooted.feature[g].sample])
      BY SMTT(30), <1>4, <1>5, <1>7, <1>10, <2>1 DEF Framed
    <3> QED
      BY <1>4, <3>1
  <2>2. CASE ~t.established
    <3> DEFINE f == rooted.reference
               a == Place[rooted.feature[f].sample]
               v == Invert(a)
    <3>1. a \in Transform
      BY <1>5, <1>7, ViewIs, PlaceIs
    <3>2. v \in Transform /\ Compose(v, a) = Identity
      BY <3>1, InvertIs, ComposeIdentity
    <3>3. Reached(row, f) /\ Toward(row, f) = Identity
      BY <1>10 DEF Reached, Toward
    <3> HIDE DEF v
    <3>4. \A g \in 0 .. n - 1 : rooted.feature[g].active =>
            /\ Reached(row, g)
            /\ rooted.feature[g].sure =>
                 Toward(row, g) = Compose(v, Place[rooted.feature[g].sample])
      BY <1>7, <2>2, <3>2, <3>3
    <3> QED
      BY <1>1, <2>2, <3>2, <3>4
  <2> QED
    BY <1>5, <2>1, <2>2
<1>12. /\ GoodMatrix(m) /\ m.n = n + 1 /\ m.established
       /\ m.reference = rooted.reference /\ Framed(grown.feature, m, v)
  <2>1. m = IF grown.feature[n].active THEN StoreReference(row, n, map) ELSE row
    BY <1>9
  <2>2. \A g \in 0 .. n - 1 : grown.feature[g].active =>
          /\ Reached(row, g)
          /\ grown.feature[g].sure => Toward(row, g) = Compose(v, Place[grown.feature[g].sample])
    BY <1>9, <1>11
  <2>3. grown.feature[n].sure => map = Compose(v, Place[grown.feature[n].sample])
    BY <1>8, <1>9, <1>11
  <2>4. row.n \in Nat /\ row.n = n + 1 /\ row.reference \in 0 .. n - 1
    BY <1>5, <1>7, <1>10
  <2> DEFINE feature == grown.feature
  <2> HIDE DEF m, map, feature, n
  <2>5. n \in Nat /\ feature \in Views(n + 1)
    BY <1>5, <1>9 DEF feature
  <2>6. /\ GoodMatrix(m) /\ m.n = n + 1 /\ m.established
        /\ m.reference = row.reference /\ Framed(feature, m, v)
    BY <1>3, <1>10, <2>1, <2>2, <2>3, <2>4, <2>5, GrownFramed DEF feature
  <2> QED
    BY <1>10, <2>6 DEF feature
<1> HIDE DEF m
<1>13. /\ Sound(placed, sample) /\ placed.t = grown /\ placed.m = m
  <2>1. grown \in Shape /\ m \in Matrices
    BY <1>9, <1>12 DEF Body, GoodMatrix, IsMatrix
  <2>2. /\ placed \in [t : Shape, m : Matrices, relation : Knowledge]
        /\ placed.t = grown /\ placed.m = m /\ placed.relation = s.relation
    BY <1>3, <2>1
  <2> HIDE DEF placed
  <2> QED
    BY <1>9, <1>11, <1>12, <2>2 DEF Sound
<1> HIDE DEF placed
<1>14. Sound(done, sample) /\ done.m.established /\ Same(grown, done.t)
  <2>1. CASE t.established
    <3>1. Same(grown, grown)
      BY DEF Same
    <3> QED
      BY <1>12, <1>13, <2>1, <3>1
  <2>2. CASE ~t.established
    BY <1>12, <1>13, <2>2, RefreshRetainedSound
  <2> QED
    BY <2>1, <2>2
<1> HIDE DEF done
<1>15. Good(u) /\ u.established = done.m.established /\ u.n = done.t.n
       /\ u.feature = done.t.feature /\ u.disabled = done.t.disabled
  BY <1>2, <1>14, PackGood
<1>16. /\ u.n = n + 1 /\ u.disabled = t.disabled /\ u.feature[n].sample = sample
       /\ \A f \in 0 .. n - 1 : u.feature[f].sample = t.feature[f].sample
  <2>1. n \in 0 .. n /\ \A f \in 0 .. n - 1 : f \in 0 .. n
    BY <1>5
  <2> HIDE DEF n
  <2> QED
    BY SMTT(30), <1>1, <1>5, <1>7, <1>8, <1>9, <1>14, <1>15, <2>1 DEF Same
<1> QED
  BY <1>5, <1>14, <1>15, <1>16 DEF u

-----------------------------------------------------------------------------
(* Learning: a replaced feature *)

\* The ages when one feature becomes the newest.
LEMMA YoungerAges ==
  ASSUME NEW t, Body(t), NEW target \in Features(t), NEW new \in StudiedFeature,
         new.ordinal = t.n - 1, new.base = t.feature[target].base
  PROVE  LET feature == With(Younger(t, target), target, new) IN
         /\ ViewsFit(t, feature) /\ feature[target] = new
         /\ SameBut(Features(t), target, t.feature, feature)
<1> DEFINE n == t.n
           age(f) == t.feature[f].ordinal
           view(f) == [t.feature[f] EXCEPT !.ordinal = IF @ > age(target) THEN @ - 1 ELSE @]
           feature == With(Younger(t, target), target, new)
<1>1. /\ n \in Nat /\ n > 0 /\ Features(t) = 0 .. n - 1 /\ t.feature \in Views(n)
  BY BodyIs
<1>2. /\ \A f \in Features(t) : age(f) \in 0 .. n - 1
      /\ \A k \in 0 .. n - 1 : \E f \in Features(t) : age(f) = k
  BY <1>1, AgesAre
<1>3. ASSUME NEW f \in Features(t)
      PROVE  /\ view(f) \in StudiedFeature /\ view(f).sample = t.feature[f].sample
             /\ view(f).active = t.feature[f].active /\ view(f).sure = t.feature[f].sure
             /\ view(f).base = t.feature[f].base
             /\ view(f).ordinal = IF age(f) > age(target) THEN age(f) - 1 ELSE age(f)
  <2> DEFINE o == IF age(f) > age(target) THEN age(f) - 1 ELSE age(f)
  <2>1. t.feature[f] \in StudiedFeature
    BY <1>1, ViewIs
  <2>2. o \in Int
    BY <1>2
  <2>3. view(f) = [t.feature[f] EXCEPT !.ordinal = o]
    OBVIOUS
  <2> HIDE DEF o, view
  <2>4. /\ view(f) \in StudiedFeature /\ view(f).sample = t.feature[f].sample
        /\ view(f).active = t.feature[f].active /\ view(f).sure = t.feature[f].sure
        /\ view(f).base = t.feature[f].base /\ view(f).ordinal = o
    BY <2>1, <2>2, <2>3 DEF StudiedFeature
  <2> QED
    BY <2>4 DEF o
<1> HIDE DEF view
<1>4. Younger(t, target) = [f \in Features(t) |-> view(f)]
  BY DEF Younger, view
<1>5. /\ feature[target] = new /\ DOMAIN feature = Features(t)
      /\ \A f \in Features(t) : f # target => feature[f] = view(f)
  <2> DEFINE y == Younger(t, target)
  <2>1. DOMAIN y = Features(t) /\ \A f \in Features(t) : y[f] = view(f)
    BY <1>4
  <2> HIDE DEF y
  <2> QED
    BY <2>1 DEF With, y
<1>6. feature \in Views(n)
  <2>1. \A f \in Features(t) : feature[f] \in StudiedFeature
    BY <1>3, <1>5
  <2>2. feature = [f \in DOMAIN feature |-> feature[f]]
    BY DEF With
  <2> HIDE DEF feature
  <2> QED
    BY <1>1, <1>5, <2>1, <2>2 DEF Views
<1> HIDE DEF feature
<1>7. \A f \in Features(t) : f # target =>
        feature[f].ordinal = IF age(f) > age(target) THEN age(f) - 1 ELSE age(f)
  BY <1>3, <1>5
<1>8. \A f \in Features(t) : feature[f].ordinal \in 0 .. n - 1
  <2>1. ASSUME NEW f \in Features(t)
        PROVE  feature[f].ordinal \in 0 .. n - 1
    <3>1. CASE f = target
      BY <1>1, <1>5, <3>1
    <3>2. CASE f # target
      <4>1. /\ age(f) \in 0 .. n - 1 /\ age(target) \in 0 .. n - 1
            /\ feature[f].ordinal = IF age(f) > age(target) THEN age(f) - 1 ELSE age(f)
        BY <1>2, <1>7, <3>2
      <4> HIDE DEF age, n
      <4> QED
        BY <1>1, <4>1
    <3> QED
      BY <3>1, <3>2
  <2> QED
    BY <2>1
<1>9. ASSUME NEW k \in 0 .. n - 1
      PROVE  \E f \in Features(t) : feature[f].ordinal = k
  <2>1. CASE k = n - 1
    BY <1>5, <2>1
  <2>2. CASE k # n - 1 /\ k < age(target)
    <3>1. PICK f \in Features(t) : age(f) = k
      BY <1>2
    <3>2. f # target /\ ~(age(f) > age(target))
      BY <1>2, <2>2, <3>1
    <3> QED
      BY <1>7, <3>1, <3>2
  <2>3. CASE k # n - 1 /\ k >= age(target)
    <3>1. k + 1 \in 0 .. n - 1
      BY <1>1, <2>3
    <3>2. PICK f \in Features(t) : age(f) = k + 1
      BY <1>2, <3>1
    <3>3. f # target /\ age(f) > age(target)
      BY <1>2, <2>3, <3>2
    <3>4. feature[f].ordinal = age(f) - 1
      BY <1>7, <3>3
    <3> QED
      BY <3>2, <3>4
  <2> QED
    BY <1>2, <2>1, <2>2, <2>3
<1> QED
  <2>1. SameBut(Features(t), target, t.feature, feature)
    BY <1>3, <1>5 DEF SameBut
  <2>2. ViewsFit(t, feature)
    BY <1>1, <1>3, <1>5, <1>6, <1>8, <1>9 DEF ViewsFit
  <2> QED
    BY <1>5, <2>1, <2>2 DEF feature

\* goodix_milan_study_replace: the probe takes the place of the target.
LEMMA ReplaceGood ==
  ASSUME NEW sample \in Sample, NEW s, Sound(s, sample), s.m.established,
         NEW matched \in Features(s.t), NEW target \in Features(s.t), NEW flag \in BOOLEAN
  PROVE  LET u == ReplaceFeature(s, sample, matched, target, flag) IN
         /\ Good(u) /\ u.established /\ u.n = s.t.n /\ u.disabled = s.t.disabled
         /\ u.feature[target].sample = sample
         /\ \A f \in Features(s.t) : f # target => u.feature[f].sample = s.t.feature[f].sample
<1> DEFINE t == s.t
           k == s.m
           new == Replacement(s, sample, matched, target, flag)
           feature == With(Younger(t, target), target, new)
           grown == [t EXCEPT !.feature = feature]
           m == IF flag THEN ReplaceRelation(k, target, s.relation.map)
                ELSE IF target # k.reference THEN ClearIncident(k, target) ELSE k
           p == [t |-> grown, m |-> m, relation |-> s.relation]
           u == ReplaceFeature(s, sample, matched, target, flag)
<1>1. /\ Body(t) /\ GoodMatrix(k) /\ k.n = t.n /\ t.n \in Nat /\ t.feature \in Views(t.n)
      /\ Features(t) = 0 .. t.n - 1 /\ Features(k) = Features(t)
      /\ s.relation \in Knowledge /\ s.relation.map \in Transform
      /\ s.relation.sure \in BOOLEAN /\ k.established
  <2>1. Body(t) /\ GoodMatrix(k) /\ k.n = t.n /\ s.relation \in Knowledge
    BY DEF Sound
  <2> QED
    BY <2>1, BodyIs DEF Knowledge, Features
<1>2. PICK w \in Transform : /\ Framed(t.feature, k, w)
                             /\ s.relation.sure => s.relation.map = Compose(w, Place[sample])
  BY DEF Sound
<1>3. /\ new \in StudiedFeature /\ new.ordinal = t.n - 1 /\ new.base = t.feature[target].base
      /\ new.sample = sample /\ new.sure = s.relation.sure
      /\ new.active => flag /\ t.feature[target].active
  <2> DEFINE old == t.feature[target]
             active == old.active /\ flag
             generation == IF flag THEN t.feature[matched].generation ELSE old.generation
             sure == s.relation.sure
  <2>1. old \in StudiedFeature /\ t.feature[matched] \in StudiedFeature
    BY <1>1, ViewIs
  <2>2. active \in BOOLEAN /\ generation \in Nat /\ sure \in BOOLEAN /\ t.n - 1 \in Int
    BY SMTT(30), <1>1, <2>1 DEF StudiedFeature
  <2>3. new = [old EXCEPT !.sample = sample, !.ordinal = t.n - 1, !.active = active,
                          !.generation = generation, !.sure = sure]
    BY <1>1, <2>1 DEF Replacement, StudiedFeature
  <2>4. active => flag /\ old.active
    OBVIOUS
  <2> HIDE DEF active, generation, sure, new, old
  <2>5. new \in StudiedFeature
    BY <2>1, <2>2, <2>3 DEF StudiedFeature
  <2>6. /\ new.ordinal = t.n - 1 /\ new.base = old.base /\ new.sample = sample
        /\ new.sure = sure /\ new.active = active
    BY <2>1, <2>3 DEF StudiedFeature
  <2> QED
    BY <2>4, <2>5, <2>6 DEF sure, old
<1> HIDE DEF new
<1>4. /\ ViewsFit(t, feature) /\ feature[target] = new
      /\ SameBut(Features(t), target, t.feature, feature) /\ feature \in Views(t.n)
  <2> HIDE DEF t
  <2>1. target \in Features(t)
    BY DEF t
  <2>2. /\ ViewsFit(t, feature) /\ feature[target] = new
        /\ SameBut(Features(t), target, t.feature, feature)
    BY <1>1, <1>3, <2>1, YoungerAges
  <2> QED
    BY <2>2 DEF ViewsFit
<1> HIDE DEF feature
<1>5. /\ Body(grown) /\ grown.feature = feature /\ grown.n = t.n
      /\ grown.disabled = t.disabled
  <2>1. grown = WithViews(t, feature)
    BY DEF WithViews
  <2> HIDE DEF grown, t
  <2> QED
    BY <1>1, <1>4, <2>1, BodyChanged
<1>6. u = Pack(grown, m)
  BY DEF ReplaceFeature, feature, new
<1> HIDE DEF grown, u
<1>7. /\ GoodMatrix(m) /\ m.n = t.n /\ m.established /\ \E v \in Transform : Framed(feature, m, v)
  <2>1. CASE flag
    <3> DEFINE q == s.relation.map
               F == t.feature
               r == ReplaceRelation(k, target, q)
    <3>1. feature[target].sure => q = Compose(w, Place[feature[target].sample])
      BY <1>2, <1>3, <1>4
    <3>2. /\ target \in Features(k) /\ q \in Transform /\ F \in Views(k.n)
          /\ Framed(F, k, w) /\ feature \in Views(k.n)
      BY <1>1, <1>2, <1>4
    <3>3. SameBut(Features(k), target, F, feature)
      BY <1>1, <1>4
    <3> HIDE DEF k, q, F
    <3>4. Reframed(k, r, target, feature, w)
      BY <1>1, <3>1, <3>2, <3>3, ReplaceRelationFramed
    <3> QED
      BY <1>1, <2>1, <3>4 DEF q, Reframed
  <2>2. CASE ~flag
    <3>1. ~feature[target].active
      BY <1>3, <1>4, <2>2
    <3>2. /\ GoodMatrix(m) /\ m.n = k.n /\ m.established
          /\ \A g \in Features(k) : g # target /\ Reached(k, g) =>
               Reached(m, g) /\ Toward(m, g) = Toward(k, g)
      <4>1. CASE target # k.reference
        <5>1. target \in Others(k, k.reference)
          BY <1>1, <4>1 DEF Others
        <5> QED
          BY <1>1, <2>2, <4>1, <5>1, ClearIncidentGood
      <4>2. CASE target = k.reference
        BY <1>1, <2>2, <4>2
      <4> QED
        BY <4>1, <4>2
    <3> HIDE DEF m
    <3>3. Features(m) = Features(k)
      BY <3>2 DEF Features
    <3>4. Framed(feature, m, w)
      <4>1. ASSUME NEW f \in Features(m), feature[f].active
            PROVE  /\ m.established /\ Reached(m, f)
                   /\ feature[f].sure => Toward(m, f) = Compose(w, Place[feature[f].sample])
        <5>1. f # target /\ f \in Features(t) /\ f \in Features(k)
          BY <1>1, <3>1, <3>3, <4>1
        <5>2. /\ Reached(k, f)
              /\ t.feature[f].sure => Toward(k, f) = Compose(w, Place[t.feature[f].sample])
          BY <1>2, <1>4, <4>1, <5>1 DEF Framed, SameBut
        <5> QED
          BY <1>4, <3>2, <5>1, <5>2 DEF SameBut
      <4> QED
        BY <4>1 DEF Framed
    <3> QED
      BY <1>1, <3>2, <3>4
  <2> QED
    BY <2>1, <2>2
<1> HIDE DEF m
<1>8. PICK v \in Transform : Framed(feature, m, v)
  BY <1>7
<1> DEFINE no == FALSE
           relation == [known |-> no, sure |-> no, map |-> Identity]
           z == [t |-> grown, m |-> m, relation |-> relation]
<1>9. Sound(z, sample)
  <2>1. no \in BOOLEAN /\ ~no
    OBVIOUS
  <2> HIDE DEF no
  <2>2. relation \in Knowledge /\ relation.sure = no
    BY <2>1, IdentityIs DEF Knowledge
  <2> HIDE DEF relation
  <2>3. grown \in Shape /\ m \in Matrices
    BY <1>5, <1>7 DEF Body, GoodMatrix, IsMatrix
  <2>4. /\ z \in [t : Shape, m : Matrices, relation : Knowledge]
        /\ z.t = grown /\ z.m = m /\ z.relation = relation
    BY <2>2, <2>3
  <2> HIDE DEF z
  <2> QED
    BY <1>5, <1>7, <1>8, <2>1, <2>2, <2>4 DEF Sound
<1>10. z.t = grown /\ z.m = m
  OBVIOUS
<1> HIDE DEF z
<1>11. Good(u) /\ u.established = m.established /\ u.n = grown.n
       /\ u.feature = grown.feature /\ u.disabled = grown.disabled
  BY <1>6, <1>9, <1>10, PackGood
<1> QED
  BY <1>3, <1>4, <1>5, <1>7, <1>11 DEF u, SameBut

-----------------------------------------------------------------------------
(* Ages, order and the end of a study *)

\* The relations and what they place are those of a good template.
LEMMA GoodAgain ==
  ASSUME NEW t, Good(t), NEW u, Body(u), u.n = t.n, u.relation = t.relation,
         u.reference = t.reference, u.established = t.established,
         \A f \in Features(t) : /\ u.feature[f].active = t.feature[f].active
                                /\ u.feature[f].sure = t.feature[f].sure
                                /\ u.feature[f].sample = t.feature[f].sample
  PROVE  Good(u)
<1> DEFINE m == BuildMatrix(t)
           k == BuildMatrix(u)
<1>1. Body(t) /\ GoodMatrix(m)
  BY DEF Good
<1>2. Features(u) = Features(t) /\ Features(m) = Features(t)
  BY <1>1, BuildIs DEF Features
<1>3. k = m
  <2>1. \A f \in Features(t) : u.feature[f].base = t.feature[f].base
    BY <1>1, <1>2 DEF Body
  <2> QED
    BY <1>2, <2>1 DEF BuildMatrix
<1> HIDE DEF k, m
<1>4. PICK w \in Transform : Framed(t.feature, m, w)
  BY DEF Good, m
<1>5. Framed(u.feature, m, w)
  BY <1>2, <1>4 DEF Framed
<1> QED
  BY <1>1, <1>3, <1>5 DEF Good, k

\* The order in which features are sorted.
LEMMA OlderIs ==
  ASSUME NEW t, Body(t), NEW f \in Features(t), NEW g \in Features(t)
  PROVE  /\ ~Older(t, f, f)
         /\ \A h \in Features(t) : Older(t, f, g) /\ Older(t, g, h) => Older(t, f, h)
         /\ f # g => Older(t, f, g) \/ Older(t, g, f)
<1> DEFINE age == [h \in Features(t) |-> t.feature[h].ordinal]
<1>1. /\ \A h \in Features(t) : /\ t.feature[h].active \in BOOLEAN
                                /\ t.feature[h].generation \in Nat
                                /\ t.feature[h].ordinal \in Int
      /\ t.n \in Nat /\ Features(t) = 0 .. t.n - 1
  BY BodyIs, ViewIs
<1>2. age \in Surjection(Features(t), Features(t))
  BY AgesAre DEF Surjection
<1>3. IsFiniteSet(Features(t))
  <2>1. 0 \in Int /\ t.n - 1 \in Int
    BY <1>1
  <2> HIDE DEF age
  <2>2. IsFiniteSet(0 .. t.n - 1)
    BY <2>1, FS_Interval
  <2> QED
    BY <1>1, <2>2
<1>4. age \in Injection(Features(t), Features(t))
  <2> HIDE DEF age
  <2> QED
    BY <1>2, <1>3, FS_Surjection
<1>5. f # g => t.feature[f].ordinal # t.feature[g].ordinal
  BY <1>4 DEF Injection, IsInjective
<1>6. ~Older(t, f, f)
  BY <1>1 DEF Older
<1>7. f # g => Older(t, f, g) \/ Older(t, g, f)
  BY SMTT(30), <1>1, <1>5 DEF Older
<1>8. ASSUME NEW h \in Features(t), Older(t, f, g), Older(t, g, h)
      PROVE  Older(t, f, h)
  <2> DEFINE a == t.feature[f]
             b == t.feature[g]
             c == t.feature[h]
  <2>1. /\ IF a.active # b.active THEN a.active
           ELSE IF a.generation # b.generation THEN a.generation > b.generation
           ELSE a.ordinal > b.ordinal
        /\ IF b.active # c.active THEN b.active
           ELSE IF b.generation # c.generation THEN b.generation > c.generation
           ELSE b.ordinal > c.ordinal
    BY <1>8 DEF Older
  <2>2. Older(t, f, h) <=> IF a.active # c.active THEN a.active
           ELSE IF a.generation # c.generation THEN a.generation > c.generation
           ELSE a.ordinal > c.ordinal
    BY DEF Older
  <2>3. /\ a.active \in BOOLEAN /\ b.active \in BOOLEAN /\ c.active \in BOOLEAN
        /\ a.generation \in Nat /\ b.generation \in Nat /\ c.generation \in Nat
        /\ a.ordinal \in Int /\ b.ordinal \in Int /\ c.ordinal \in Int
    BY <1>1
  <2> HIDE DEF a, b, c
  <2>4. CASE a.active = b.active /\ b.active = c.active
    BY <2>1, <2>2, <2>3, <2>4
  <2>5. CASE a.active # b.active \/ b.active # c.active
    <3>1. a.active # c.active /\ a.active
      BY <2>1, <2>3, <2>5, Zenon
    <3> QED
      BY <2>2, <3>1
  <2> QED
    BY <2>4, <2>5
<1> QED
  BY <1>6, <1>7, <1>8

\* Sorting names each feature once.
LEMMA SortedIs ==
  ASSUME NEW t, Body(t)
  PROVE  LET order == Sorted(t, [i \in 1 .. t.n |-> t.order[i]]) IN
         /\ order \in [1 .. t.n -> Features(t)]
         /\ \A f \in Features(t) : \E k \in 1 .. t.n : order[k] = f
<1> DEFINE n == t.n
           o == [i \in 1 .. n |-> t.order[i]]
           before(i) == {j \in 1 .. n : Older(t, o[j], o[i])}
           rank == [i \in 1 .. n |-> Cardinality(before(i))]
           at(k) == CHOOSE i \in 1 .. n : Cardinality(before(i)) = k - 1
<1>1. n \in Nat /\ n > 0 /\ Features(t) = 0 .. n - 1
  BY BodyIs
<1>2. /\ IsFiniteSet(1 .. n) /\ Cardinality(1 .. n) = n
      /\ IsFiniteSet(0 .. n - 1) /\ Cardinality(0 .. n - 1) = n
  <2>1. IsFiniteSet(1 .. n) /\ Cardinality(1 .. n) = IF 1 > n THEN 0 ELSE n - 1 + 1
    BY SMTT(30), <1>1, FS_Interval
  <2>2. /\ IsFiniteSet(0 .. n - 1)
        /\ Cardinality(0 .. n - 1) = IF 0 > n - 1 THEN 0 ELSE n - 1 - 0 + 1
    BY SMTT(30), <1>1, FS_Interval
  <2> QED
    BY <1>1, <2>1, <2>2
<1>3. \A i \in 1 .. n : o[i] \in Features(t)
  BY DEF Body, OrderReadable
<1>4. \A f \in Features(t) : \E i \in 1 .. n : o[i] = f
  BY DEF Body, OrderReadable
<1>5. o \in Surjection(1 .. n, Features(t))
  BY <1>3, <1>4 DEF Surjection
<1>6. \A i, j \in 1 .. n : o[i] = o[j] => i = j
  <2>1. o \in Injection(1 .. n, Features(t))
    BY <1>1, <1>2, <1>5, FS_Surjection
  <2> QED
    BY <2>1 DEF Injection, IsInjective
<1> HIDE DEF o
<1>7. ASSUME NEW i \in 1 .. n
      PROVE  IsFiniteSet(before(i)) /\ Cardinality(before(i)) \in 0 .. n - 1
  <2>1. i \notin before(i)
    BY <1>3, OlderIs
  <2>2. before(i) \in SUBSET (1 .. n)
    OBVIOUS
  <2>3. IsFiniteSet(before(i)) /\ Cardinality(before(i)) <= n
        /\ (Cardinality(before(i)) = n => before(i) = 1 .. n)
    BY ZenonT(40), <1>2, <2>2, FS_Subset
  <2>4. Cardinality(before(i)) \in Nat
    BY <2>3, FS_CardinalityType
  <2> HIDE DEF before
  <2> QED
    BY <1>1, <2>1, <2>3, <2>4
<1>8. ASSUME NEW i \in 1 .. n, NEW j \in 1 .. n, Older(t, o[i], o[j])
      PROVE  Cardinality(before(i)) # Cardinality(before(j))
  <2>1. before(i) \subseteq before(j)
    <3>1. ASSUME NEW l \in 1 .. n, Older(t, o[l], o[i])
          PROVE  Older(t, o[l], o[j])
      BY <1>3, <1>8, <3>1, OlderIs
    <3> QED
      BY <3>1
  <2>2. i \in before(j) /\ i \notin before(i)
    BY <1>3, <1>8, OlderIs
  <2>3. IsFiniteSet(before(j))
    BY <1>7
  <2> HIDE DEF before
  <2> QED
    BY <2>1, <2>2, <2>3, FS_Subset
<1>9. \A i, j \in 1 .. n : Cardinality(before(i)) = Cardinality(before(j)) => i = j
  <2>1. ASSUME NEW i \in 1 .. n, NEW j \in 1 .. n, i # j
        PROVE  Cardinality(before(i)) # Cardinality(before(j))
    <3>1. o[i] # o[j] /\ o[i] \in Features(t) /\ o[j] \in Features(t)
      BY <1>3, <1>6, <2>1
    <3>2. Older(t, o[i], o[j]) \/ Older(t, o[j], o[i])
      BY <3>1, OlderIs
    <3> HIDE DEF before
    <3> QED
      BY <1>8, <3>2
  <2> HIDE DEF before
  <2> QED
    BY <2>1
<1>10. Sorted(t, o) = [k \in 1 .. n |-> o[at(k)]]
  <2>1. DOMAIN o = 1 .. n
    BY DEF o
  <2> QED
    BY <2>1 DEF Sorted
<1> HIDE DEF before
<1>11. rank \in Injection(1 .. n, 0 .. n - 1)
  <2>1. rank \in [1 .. n -> 0 .. n - 1]
    BY <1>7
  <2> QED
    BY <1>9, <2>1 DEF Injection, IsInjective
<1>12. rank \in Surjection(1 .. n, 0 .. n - 1)
  <2> HIDE DEF rank
  <2> QED
    BY <1>2, <1>11, FS_Injection
<1>13. ASSUME NEW k \in 1 .. n
       PROVE  at(k) \in 1 .. n /\ Cardinality(before(at(k))) = k - 1
  <2>1. k - 1 \in 0 .. n - 1
    BY <1>1
  <2>2. \E i \in 1 .. n : Cardinality(before(i)) = k - 1
    BY <1>12, <2>1 DEF Surjection
  <2> QED
    BY <2>2
<1> HIDE DEF at
<1> DEFINE order == Sorted(t, o)
<1>14. order \in [1 .. n -> Features(t)]
  BY <1>3, <1>10, <1>13
<1>15. ASSUME NEW f \in Features(t)
       PROVE  \E k \in 1 .. n : order[k] = f
  <2>1. PICK i \in 1 .. n : o[i] = f
    BY <1>4
  <2> DEFINE k == Cardinality(before(i)) + 1
  <2>2. k \in 1 .. n /\ k - 1 = Cardinality(before(i))
    BY <1>1, <1>7
  <2> HIDE DEF k
  <2>3. at(k) = i
    BY <1>9, <1>13, <2>2
  <2> QED
    BY <1>10, <2>1, <2>2, <2>3
<1> QED
  BY <1>14, <1>15 DEF o

\* A template that is sorted.
LEMMA SortOrderGood ==
  ASSUME NEW t, Good(t)
  PROVE  LET u == SortOrder(t) IN
         Good(u) /\ u.n = t.n /\ u.feature = t.feature /\ u.disabled = t.disabled
         /\ u.established = t.established
<1> DEFINE order == Sorted(t, [i \in 1 .. t.n |-> t.order[i]])
           u == SortOrder(t)
<1>1. Body(t) /\ t \in Shape /\ t.n \in 1 .. MaxFeatures /\ Features(t) = 0 .. t.n - 1
      /\ t.n \in Nat /\ MaxFeatures \in Nat
  BY BodyIs DEF Good, Body
<1>2. u = [t EXCEPT !.order = order]
  BY DEF SortOrder
<1>3. /\ order \in [1 .. t.n -> Features(t)]
      /\ \A f \in Features(t) : \E k \in 1 .. t.n : order[k] = f
  BY <1>1, SortedIs
<1> HIDE DEF order, u
<1>4. order \in UNION {[1 .. v -> 0 .. MaxFeatures - 1] : v \in 1 .. MaxFeatures}
  <2>1. order \in [1 .. t.n -> 0 .. MaxFeatures - 1]
    BY <1>1, <1>3
  <2> QED
    BY <1>1, <2>1
<1>5. u \in Shape
  BY <1>1, <1>2, <1>4 DEF Shape
<1>6. /\ u.n = t.n /\ u.feature = t.feature /\ u.reference = t.reference
      /\ u.established = t.established /\ u.relation = t.relation
      /\ u.registration = t.registration /\ u.order = order /\ u.disabled = t.disabled
  BY <1>1, <1>2 DEF Shape
<1>7. Features(u) = Features(t)
  BY <1>6 DEF Features
<1>8. OrderReadable(u)
  <2>1. DOMAIN order = 1 .. t.n /\ {order[k] : k \in 1 .. t.n} = Features(t)
    BY <1>3
  <2> QED
    BY <1>6, <1>7, <2>1 DEF OrderReadable
<1>9. Body(u)
  BY <1>1, <1>5, <1>6, <1>7, <1>8 DEF Body, AgesRanked
<1>10. Good(u)
  BY <1>6, <1>9, GoodAgain
<1> QED
  BY <1>6, <1>10 DEF u

\* goodix_milan_template_update_match_lifecycle
LEMMA LifecycleGood ==
  ASSUME NEW t, Good(t), NEW mask \in SUBSET Features(t), NEW sort \in BOOLEAN
  PROVE  LET u == UpdateLifecycle(t, mask, sort) IN
         Good(u) /\ SameViews(t, u) /\ u.established = t.established
<1> DEFINE view(f) == [t.feature[f] EXCEPT !.generation = IF f \in mask THEN @ + 1 ELSE @]
           feature == [f \in DOMAIN t.feature |-> view(f)]
           met == [t EXCEPT !.feature = feature]
           u == UpdateLifecycle(t, mask, sort)
<1>1. Body(t) /\ t.feature \in Views(t.n) /\ Features(t) = 0 .. t.n - 1 /\ t.n \in Nat
      /\ DOMAIN t.feature = Features(t)
  BY BodyIs DEF Good, Views
<1>2. ASSUME NEW f \in Features(t)
      PROVE  /\ view(f) \in StudiedFeature /\ view(f).sample = t.feature[f].sample
             /\ view(f).active = t.feature[f].active /\ view(f).sure = t.feature[f].sure
             /\ view(f).base = t.feature[f].base /\ view(f).ordinal = t.feature[f].ordinal
  <2> DEFINE g == IF f \in mask THEN t.feature[f].generation + 1 ELSE t.feature[f].generation
  <2>1. t.feature[f] \in StudiedFeature /\ t.feature[f].generation \in Nat
    BY <1>1, ViewIs
  <2>2. g \in Nat /\ view(f) = [t.feature[f] EXCEPT !.generation = g]
    BY <2>1
  <2> HIDE DEF g, view
  <2> QED
    BY <2>1, <2>2 DEF StudiedFeature
<1>3. u = IF mask # {} /\ sort /\ t.n > 1 THEN SortOrder(met) ELSE met
  BY DEF UpdateLifecycle
<1> HIDE DEF u
<1> HIDE DEF view
<1>4. feature \in Views(t.n) /\ \A f \in Features(t) : feature[f] = view(f)
  BY <1>1, <1>2 DEF Views
<1> HIDE DEF feature
<1>5. ViewsFit(t, feature)
  <2>1. /\ \A f \in Features(t) : t.feature[f].ordinal \in Features(t)
        /\ \A k \in Features(t) : \E f \in Features(t) : t.feature[f].ordinal = k
    BY <1>1, AgesAre
  <2>2. \A f \in Features(t) : /\ feature[f].base = t.feature[f].base
                              /\ feature[f].ordinal = t.feature[f].ordinal
    BY <1>2, <1>4
  <2> QED
    BY <1>4, <2>1, <2>2 DEF ViewsFit
<1>6. /\ Body(met) /\ met.feature = feature /\ met.n = t.n /\ met.reference = t.reference
      /\ met.established = t.established /\ met.relation = t.relation
      /\ met.disabled = t.disabled
  <2>1. met = WithViews(t, feature)
    BY DEF WithViews
  <2> HIDE DEF met
  <2> QED
    BY <1>1, <1>5, <2>1, BodyChanged
<1> HIDE DEF met
<1>7. \A f \in Features(t) : /\ met.feature[f].active = t.feature[f].active
                             /\ met.feature[f].sure = t.feature[f].sure
                             /\ met.feature[f].sample = t.feature[f].sample
  BY <1>2, <1>4, <1>6
<1>8. Good(met)
  BY <1>6, <1>7, GoodAgain
<1>9. SameViews(t, met) /\ met.established = t.established
  BY <1>6, <1>7 DEF SameViews
<1>10. Good(u) /\ SameViews(t, u) /\ u.established = t.established
  <2>1. Good(SortOrder(met)) /\ SameViews(t, SortOrder(met))
        /\ SortOrder(met).established = t.established
    BY <1>8, <1>9, SortOrderGood DEF SameViews
  <2> QED
    BY <1>3, <1>8, <1>9, <2>1
<1> QED
  BY <1>10 DEF u

\* goodix_milan_study_finalize
LEMMA FinalizeGood ==
  ASSUME NEW t, Good(t), NEW q, q.disabled \in BOOLEAN, NEW final \in BOOLEAN
  PROVE  LET u == Finalize(t, q, final) IN
         Good(u) /\ u.n = t.n /\ u.feature = t.feature /\ u.disabled = q.disabled
<1> DEFINE s == IF final THEN SortOrder(t) ELSE t
           u == Finalize(t, q, final)
<1>1. Good(s) /\ s.n = t.n /\ s.feature = t.feature
  BY SortOrderGood
<1>2. u = [s EXCEPT !.disabled = q.disabled]
  BY DEF Finalize
<1> HIDE DEF s, u
<1>3. Body(s) /\ s \in Shape
  BY <1>1 DEF Good, Body
<1>4. u \in Shape
  BY <1>2, <1>3 DEF Shape
<1>5. /\ u.n = s.n /\ u.feature = s.feature /\ u.reference = s.reference
      /\ u.established = s.established /\ u.relation = s.relation
      /\ u.registration = s.registration /\ u.order = s.order /\ u.disabled = q.disabled
  BY <1>2, <1>3 DEF Shape
<1>6. Body(u)
  BY <1>3, <1>4, <1>5, BodyAgrees
<1>7. Good(u)
  BY <1>1, <1>5, <1>6, GoodAgain
<1> QED
  BY <1>1, <1>5, <1>7 DEF u

-----------------------------------------------------------------------------
(* What a good template is *)

\* Where the template itself places a feature.
LEMMA TemplateHasPlaces ==
  ASSUME NEW t, Body(t), GoodMatrix(BuildMatrix(t)), t.established,
         NEW f \in Features(t), Reached(BuildMatrix(t), f)
  PROVE  /\ Toward(BuildMatrix(t), f) \in Transform
         /\ ToReference(t, f) = Toward(BuildMatrix(t), f)
         /\ FromReference(t, f) = Invert(Toward(BuildMatrix(t), f))
<1> DEFINE m == BuildMatrix(t)
           r == t.reference
           kept == t.relation[SlotAt(f, r)].map
<1>1. /\ m.reference = r /\ m.slot = t.relation /\ m.established
      /\ Features(m) = Features(t) /\ Body(t) /\ GoodMatrix(m)
      /\ r \in Features(t)
  BY BuildIs DEF GoodMatrix
<1>2. Features(t) \subseteq Nat /\ t.relation \in Slots /\ Features(t) = 0 .. t.n - 1
  BY <1>1, BodyIs
<1> HIDE DEF m, r
<1>3. CASE f = r
  <2>1. Toward(m, f) = Identity
    BY <1>1, <1>3 DEF Toward
  <2>2. ToReference(t, f) = Identity /\ FromReference(t, f) = Identity
    BY <1>3 DEF ToReference, FromReference, ReferenceTransform, r
  <2>3. Invert(Identity) = Identity /\ Identity \in Transform
    BY IdentityIs, ComposeIdentity, InverseIsUnique
  <2> QED
    BY <2>1, <2>2, <2>3 DEF m
<1>4. CASE f # r
  <2>1. Star(m, f) = SlotAt(f, r)
    BY <1>1 DEF Star
  <2>2. SlotAt(f, r) \in DOMAIN t.relation
    BY <1>1, <1>4, <2>1 DEF Reached, m
  <2>3. kept \in Transform
    BY <1>2, <2>2, SlotsAre
  <2>4. RelationTransform(t, f, r) = kept
    BY <2>2 DEF RelationTransform, SlotAt
  <2>5. Toward(m, f) = IF f > r THEN kept ELSE Invert(kept)
    BY <1>1, <1>4, <2>1 DEF Toward
  <2>6. ToReference(t, f) = IF (f > r) = FALSE THEN Invert(kept) ELSE kept
    BY <1>4, <2>4 DEF ToReference, ReferenceTransform, r
  <2>7. FromReference(t, f) = IF (f > r) = TRUE THEN Invert(kept) ELSE kept
    BY <1>4, <2>4 DEF FromReference, ReferenceTransform, r
  <2> HIDE DEF kept
  <2>8. Invert(kept) \in Transform /\ Invert(Invert(kept)) = kept
    BY <2>3, InvertIs, InvertTwice
  <2>9. CASE f > r
    BY <2>3, <2>5, <2>6, <2>7, <2>9 DEF m
  <2>10. CASE ~(f > r)
    BY <2>3, <2>5, <2>6, <2>7, <2>8, <2>10 DEF m
  <2> QED
    BY <2>9, <2>10
<1> QED
  BY <1>3, <1>4

\* A good template is well formed.
LEMMA GoodIsTemplate ==
  ASSUME NEW t, Good(t)
  PROVE  IsTemplate(t)
<1> DEFINE m == BuildMatrix(t)
<1>1. /\ m.reference = t.reference /\ m.slot = t.relation /\ m.n = t.n
      /\ m.established = t.established
      /\ Features(m) = Features(t) /\ Body(t) /\ GoodMatrix(m)
  BY BuildIs DEF Good
<1>2. /\ t.n \in 1 .. MaxFeatures /\ t.n \in Nat /\ MaxFeatures \in Nat
      /\ Features(t) = 0 .. t.n - 1 /\ t.feature \in Views(t.n)
      /\ t.established \in BOOLEAN /\ t.disabled \in BOOLEAN /\ t.relation \in Slots
      /\ t.reference \in NoReference .. MaxFeatures - 1
      /\ t.order \in UNION {[1 .. v -> 0 .. MaxFeatures - 1] : v \in 1 .. MaxFeatures}
  BY <1>1, BodyIs
<1>3. t = [n |-> t.n, feature |-> t.feature, reference |-> t.reference,
           established |-> t.established, relation |-> t.relation,
           registration |-> t.registration, order |-> t.order, disabled |-> t.disabled]
  BY <1>1 DEF Body, Shape
<1> HIDE DEF m
<1> DEFINE slots == DOMAIN t.relation
<1>4. t.relation \in [slots -> Relation] /\ slots \subseteq Nat
  BY <1>2, SlotsAre
<1>5. ASSUME NEW i \in slots
      PROVE  i \in 1 .. RegistrationCount(MaxFeatures) - 1
  <2>1. m.established
    BY <1>1, <1>5 DEF GoodMatrix
  <2>2. PICK f \in Others(m, m.reference) : i = Star(m, f)
    BY <1>1, <1>5 DEF GoodMatrix
  <2>3. i \in 1 .. RegistrationCount(t.n) - 1
    BY <1>1, <2>1, <2>2, StarsApart
  <2>4. RegistrationCount(t.n) <= RegistrationCount(MaxFeatures)
        /\ RegistrationCount(t.n) \in Nat /\ RegistrationCount(MaxFeatures) \in Nat
    <3>1. /\ RowBase(t.n) = RegistrationCount(t.n) /\ RegistrationCount(t.n) \in Nat
          /\ RowBase(MaxFeatures) = RegistrationCount(MaxFeatures)
          /\ RegistrationCount(MaxFeatures) \in Nat
      <4>1. t.n > 0 /\ MaxFeatures > 0
        BY <1>2
      <4> QED
        BY <1>2, <4>1, RowIs
    <3>2. t.n < MaxFeatures => RowBase(t.n) + t.n <= RowBase(MaxFeatures)
      BY <1>2, RowsApart
    <3> QED
      BY <1>2, <3>1, <3>2
  <2> QED
    BY <2>3, <2>4
<1>6. slots \in SUBSET (1 .. RegistrationCount(MaxFeatures) - 1)
  BY <1>5
<1>7. \E views \in 1 .. MaxFeatures : t.order \in [1 .. views -> 0 .. MaxFeatures - 1]
  BY <1>2
<1>8. t.feature \in [Features(t) -> StudiedFeature]
  BY <1>2 DEF Views
<1> HIDE DEF slots
<1>9. \E s \in SUBSET (1 .. RegistrationCount(MaxFeatures) - 1) : t.relation \in [s -> Relation]
  BY <1>4, <1>6
<1> QED
  BY <1>2, <1>3, <1>7, <1>8, <1>9 DEF IsTemplate

\* And one the next authentication reads.
LEMMA GoodIsReadable ==
  ASSUME NEW t, Good(t)
  PROVE  /\ Readable(t) /\ AgesRanked(t)
         /\ t.established => t.reference \in Features(t)
         /\ ~t.established => t.reference = NoReference /\ t.relation = << >>
<1> DEFINE m == BuildMatrix(t)
<1>1. /\ m.reference = t.reference /\ m.slot = t.relation /\ m.n = t.n
      /\ m.established = t.established
      /\ Features(m) = Features(t) /\ Body(t) /\ GoodMatrix(m)
  BY BuildIs DEF Good
<1>2. /\ t.n \in 1 .. MaxFeatures /\ t.n \in Nat /\ Features(t) = 0 .. t.n - 1
      /\ t.relation \in Slots
  BY <1>1, BodyIs
<1> HIDE DEF m
<1>3. /\ t.established => t.reference \in Features(t)
      /\ ~t.established => t.reference = NoReference
  BY <1>1 DEF GoodMatrix
<1>4. ASSUME ~t.established
      PROVE  t.relation = << >>
  <2>1. DOMAIN t.relation = {}
    BY <1>1, <1>4 DEF GoodMatrix
  <2>2. t.relation \in [{} -> Relation]
    BY <1>2, <2>1, SlotsAre
  <2>3. t.relation \in Seq({})
    BY <2>2
  <2> QED
    BY <2>2, <2>3
<1>5. ASSUME NEW i \in DOMAIN t.relation
      PROVE  /\ i \in 1 .. t.registration - 1
             /\ \E f \in Others(t, t.reference) : SlotIndex(m, f, t.reference) = i
  <2>1. m.established
    BY <1>1, <1>5 DEF GoodMatrix
  <2>2. PICK f \in Others(m, m.reference) : i = Star(m, f)
    BY <1>1, <1>5 DEF GoodMatrix
  <2>3. i \in 1 .. RegistrationCount(t.n) - 1 /\ SlotIndex(m, f, m.reference) = i
    BY <1>1, <2>1, <2>2, StarsApart
  <2>4. f \in Others(t, t.reference)
    BY <1>1, <2>2 DEF Others
  <2>5. t.registration = RegistrationCount(t.n)
    BY <1>1 DEF Body
  <2> QED
    BY <1>1, <2>3, <2>4, <2>5
<1>6. /\ t.registration = RegistrationCount(t.n) /\ OrderReadable(t) /\ AgesRanked(t)
      /\ \A f \in Features(t) : t.feature[f].base = RowBase(f)
  BY <1>1 DEF Body
<1>7. MatrixReadable(t)
  BY <1>2, <1>3, <1>4, <1>5, <1>6 DEF MatrixReadable, m
<1> QED
  BY <1>3, <1>4, <1>6, <1>7 DEF Readable

\* And one a match accepts.
LEMMA GoodIsNormalizable ==
  ASSUME NEW t, Good(t)
  PROVE  Normalizable(t)
<1>1. /\ t.established => t.reference \in Features(t)
      /\ ~t.established => t.reference = NoReference /\ t.relation = << >>
  BY GoodIsReadable
<1>2. ~t.established => \A f \in Features(t) : ~t.feature[f].active
  BY ActiveEstablished DEF Active
<1> QED
  BY <1>1, <1>2 DEF Normalizable, HasReference

\* Its sure features lie where their samples lie.
LEMMA GoodIsPlaced ==
  ASSUME NEW t, Good(t)
  PROVE  PlacedTrue(t)
<1> DEFINE m == BuildMatrix(t)
<1>1. PICK w \in Transform : Framed(t.feature, m, w)
  BY DEF Good
<1>2. Features(m) = Features(t) /\ t.n \in Nat /\ Features(t) = 0 .. t.n - 1
      /\ t.feature \in Views(t.n)
  BY BodyIs, BuildIs DEF Good
<1> HIDE DEF m
<1>3. SUFFICES ASSUME NEW f \in Features(t), t.feature[f].active, t.feature[f].sure,
                      NEW g \in Features(t), t.feature[g].active, t.feature[g].sure,
                      t.established
               PROVE  Compose(FromReference(t, g), ToReference(t, f))
                        = Measured(t.feature[f].sample, t.feature[g].sample)
  BY DEF PlacedTrue
<1> DEFINE a == t.feature[f].sample
           b == t.feature[g].sample
<1>4. /\ Reached(m, f) /\ Toward(m, f) = Compose(w, Place[a])
      /\ Reached(m, g) /\ Toward(m, g) = Compose(w, Place[b])
  BY <1>1, <1>2, <1>3 DEF Framed
<1>5. a \in Sample /\ b \in Sample
  BY <1>2, ViewIs
<1> HIDE DEF a, b
<1>6. ToReference(t, f) = Compose(w, Place[a])
  BY <1>3, <1>4, TemplateHasPlaces DEF m, Good
<1>7. FromReference(t, g) = Invert(Compose(w, Place[b]))
  BY <1>3, <1>4, TemplateHasPlaces DEF m, Good
<1>8. Place[a] \in Transform /\ Place[b] \in Transform /\ Invert(w) \in Transform
      /\ Invert(Place[b]) \in Transform
  BY <1>5, PlaceIs, InvertIs
<1>9. Invert(Compose(w, Place[b])) = Compose(Invert(Place[b]), Invert(w))
  BY <1>8, InvertCompose
<1>10. Compose(Compose(Invert(Place[b]), Invert(w)), Compose(w, Place[a]))
         = Compose(Invert(Place[b]), Compose(Invert(w), Compose(w, Place[a])))
  <2>1. Compose(w, Place[a]) \in Transform
    BY <1>8, ComposeIs
  <2> QED
    BY <1>8, <2>1, ComposeAssociates
<1>11. Compose(Invert(w), Compose(w, Place[a])) = Place[a]
  BY <1>8, Cancels
<1> QED
  BY <1>6, <1>7, <1>9, <1>10, <1>11 DEF Measured, a, b

\* The print of an authentication is good.
LEMMA StoredGood ==
  ASSUME NEW t \in Stored
  PROVE  Good(t)
<1> DEFINE m == BuildMatrix(t)
<1>1. /\ IsTemplate(t) /\ Readable(t) /\ Normalizable(t) /\ AgesRanked(t) /\ PlacedTrue(t)
      /\ \A f \in Active(t) : HasRoute(m, f)
  BY StoredAssumption
<1>2. t \in Shape /\ t.feature \in Views(t.n) /\ t.n \in 1 .. MaxFeatures
  <2>1. /\ t.n \in 1 .. MaxFeatures /\ t.reference \in NoReference .. MaxFeatures - 1
        /\ t.established \in BOOLEAN /\ t.disabled \in BOOLEAN
    BY <1>1 DEF IsTemplate
  <2>2. t.feature \in Views(t.n)
    BY <1>1 DEF IsTemplate, Views, Features
  <2>3. t.relation \in Slots
    <3>1. PICK s \in SUBSET (1 .. RegistrationCount(MaxFeatures) - 1) :
            t.relation \in [s -> Relation]
      BY <1>1 DEF IsTemplate
    <3>2. s \in SUBSET Nat
      BY <3>1
    <3> QED
      BY <3>1, <3>2 DEF Slots
  <2>4. t.order \in UNION {[1 .. v -> 0 .. MaxFeatures - 1] : v \in 1 .. MaxFeatures}
    BY <1>1 DEF IsTemplate
  <2>5. t.registration \in Nat
    <3>1. t.registration = RegistrationCount(t.n) /\ t.n \in Nat
      BY <1>1, <2>1, TemplateAssumption DEF Readable, MatrixReadable
    <3> QED
      BY <3>1, RowIs
  <2>6. t = [n |-> t.n, feature |-> t.feature, reference |-> t.reference,
             established |-> t.established, relation |-> t.relation,
             registration |-> t.registration, order |-> t.order, disabled |-> t.disabled]
    BY <1>1 DEF IsTemplate
  <2>7. t.feature \in UNION {Views(k) : k \in 1 .. MaxFeatures}
    BY <2>1, <2>2
  <2> QED
    BY <2>1, <2>2, <2>3, <2>4, <2>5, <2>6, <2>7 DEF Shape
<1>3. Body(t)
  BY <1>1, <1>2 DEF Body, Readable, MatrixReadable
<1>4. /\ m.reference = t.reference /\ m.slot = t.relation /\ m.n = t.n
      /\ m.established = t.established /\ Features(m) = Features(t) /\ IsMatrix(m)
  BY <1>3, BuildIs
<1>5. t.n \in Nat /\ Features(t) = 0 .. t.n - 1 /\ t.established \in BOOLEAN
  BY <1>3, BodyIs
<1> HIDE DEF m
<1>6. t.established => t.reference \in Features(t)
  BY <1>1 DEF Readable, MatrixReadable
<1>7. ~t.established => /\ t.reference = NoReference /\ t.relation = << >>
                        /\ \A f \in Features(t) : ~t.feature[f].active
  BY <1>1, <1>6 DEF Normalizable, HasReference
<1>8. GoodMatrix(m)
  <2>1. ~m.established => DOMAIN m.slot = {}
    BY <1>4, <1>7
  <2>2. ASSUME NEW i \in DOMAIN m.slot
        PROVE  \E f \in Others(m, m.reference) : i = Star(m, f)
    <3>1. PICK f \in Others(t, t.reference) : SlotIndex(m, f, t.reference) = i
      BY <1>1, <1>4, <2>2 DEF Readable, MatrixReadable, m
    <3>2. f \in Others(m, m.reference) /\ f \in Features(m)
      BY <1>4, <3>1 DEF Others
    <3>3. t.reference \in Features(m)
      BY <1>4, <1>6, <2>1, <2>2
    <3>4. i = Star(m, f)
      BY <1>4, <3>1, <3>2, <3>3, SlotIndexIs DEF Star
    <3> QED
      BY <3>2, <3>4
  <2> QED
    BY <1>4, <1>6, <1>7, <2>1, <2>2 DEF GoodMatrix
<1>9. ASSUME NEW f \in Features(t), t.feature[f].active
      PROVE  t.established /\ Reached(m, f)
  <2>1. HasRoute(m, f)
    BY <1>1, <1>9 DEF Active, m
  <2>2. t.established /\ t.reference \in Features(m) /\ f \in Features(m)
    BY <1>4, <1>6, <1>9, <2>1 DEF HasRoute
  <2>3. SlotIndex(m, f, t.reference) = Star(m, f)
    BY <1>4, <2>2, SlotIndexIs DEF Star
  <2> QED
    BY <1>4, <2>1, <2>2, <2>3 DEF HasRoute, IsSet, Reached
<1> DEFINE known == {f \in Features(t) : t.feature[f].active /\ t.feature[f].sure}
<1>10. \E w \in Transform : Framed(t.feature, m, w)
  <2>1. CASE known = {}
    <3>1. Framed(t.feature, m, Identity)
      BY <1>4, <1>9, <2>1 DEF Framed
    <3> QED
      BY <3>1, IdentityIs
  <2>2. CASE known # {}
    <3>1. PICK g \in Features(t) : t.feature[g].active /\ t.feature[g].sure
      BY <2>2
    <3> DEFINE T == Toward(m, g)
               P == Place[t.feature[g].sample]
               w == Compose(T, Invert(P))
    <3>2. T \in Transform /\ P \in Transform /\ Invert(P) \in Transform /\ w \in Transform
          /\ FromReference(t, g) = Invert(T) /\ t.established
      <4>1. t.established /\ Reached(m, g) /\ t.feature[g].sample \in Sample
        BY <1>2, <1>5, <1>9, <3>1, ViewIs
      <4>2. T \in Transform /\ FromReference(t, g) = Invert(T)
        BY <1>3, <1>8, <4>1, TemplateHasPlaces DEF m
      <4> HIDE DEF T
      <4> QED
        BY <4>1, <4>2, PlaceIs, InvertIs, ComposeIs
    <3> HIDE DEF T, P
    <3>3. ASSUME NEW f \in Features(t), t.feature[f].active, t.feature[f].sure
          PROVE  Toward(m, f) = Compose(w, Place[t.feature[f].sample])
      <4> DEFINE U == Toward(m, f)
                 R == Place[t.feature[f].sample]
      <4>1. t.established /\ Reached(m, f) /\ t.feature[f].sample \in Sample
        BY <1>2, <1>5, <1>9, <3>3, ViewIs
      <4>2. U \in Transform /\ ToReference(t, f) = U
        BY <1>3, <1>8, <4>1, TemplateHasPlaces DEF m
      <4>3. R \in Transform
        BY <4>1, PlaceIs
      <4>4. CASE f = g
        <5>1. U = T /\ R = P
          BY <4>4 DEF T, P
        <5> HIDE DEF U, R
        <5>2. Compose(Compose(T, Invert(P)), P) = T
          BY <3>2, Cancels
        <5> QED
          BY <5>1, <5>2 DEF U, R
      <4>5. CASE f # g
        <5>1. Compose(FromReference(t, g), ToReference(t, f))
                = Measured(t.feature[f].sample, t.feature[g].sample)
          BY <1>1, <3>1, <3>3, <4>1, <4>5 DEF PlacedTrue
        <5>2. Compose(Invert(T), U) = Compose(Invert(P), R)
          BY <3>2, <4>2, <5>1 DEF Measured, P
        <5> HIDE DEF U, R
        <5>3. Compose(T, Compose(Invert(T), U)) = U
          BY <3>2, <4>2, Cancels
        <5>4. Compose(T, Compose(Invert(P), R)) = Compose(w, R)
          BY <3>2, <4>3, ComposeAssociates
        <5> QED
          BY <5>2, <5>3, <5>4 DEF U, R
      <4> QED
        BY <4>4, <4>5
    <3> HIDE DEF w
    <3>4. Framed(t.feature, m, w)
      BY <1>4, <1>9, <3>3 DEF Framed
    <3> QED
      BY <3>2, <3>4
  <2> QED
    BY <2>1, <2>2
<1> QED
  BY <1>3, <1>8, <1>10 DEF Good, m

-----------------------------------------------------------------------------
(* What waits in the queue *)

\* The samples that wait.
Waits(q) == {q.entry[s].sample : s \in Taken(q)}

\* None of them waits twice.
Apart(q) ==
  \A s, r \in Taken(q) : q.entry[s].sample = q.entry[r].sample => s = r

\* A sample that is queued is the only one of its kind.
LEMMA EnqueueWaits ==
  ASSUME NEW q, QueueInv(q), Apart(q), NEW sample \in Sample \ {NoSample},
         sample \notin Waits(q), NEW duplicate
  PROVE  LET p == Enqueue(q, sample, duplicate) IN
         /\ Apart(p) /\ Waits(p) \subseteq Waits(q) \cup {sample}
         /\ p.disabled = q.disabled
<1> DEFINE p == Enqueue(q, sample, duplicate)
           d == Destination(q)
           full == Occupied(q) = QueueCapacity
           rank == IF full THEN QueueCapacity - 1 ELSE Occupied(q)
           aged == IF full THEN [s \in Slot |-> [q.entry[s] EXCEPT !.rank = @ - 1]] ELSE q.entry
           e == [aged EXCEPT ![d] = [sample |-> sample, rank |-> rank]]
<1>1. CASE q.disabled \/ (duplicate /\ Occupied(q) # 0)
  <2>1. p = q
    BY <1>1 DEF Enqueue
  <2> QED
    BY <2>1
<1>2. CASE ~(q.disabled \/ (duplicate /\ Occupied(q) # 0))
  <2>1. /\ ~q.disabled /\ Ranked(q.entry) /\ Taken(q) = Waiting(q.entry) /\ d \in Slot
        /\ q.entry \in [Slot -> Entry]
    BY <1>2, TakenWaits, DestinationFound DEF Ranked
  <2>2. p = [q EXCEPT !.entry = e]
    BY <1>2 DEF Enqueue
  <2>3. p.entry = e /\ p.disabled = q.disabled
    BY <2>2 DEF QueueInv, QueueFields
  <2>4. DOMAIN aged = Slot /\ \A s \in Slot : aged[s].sample = q.entry[s].sample
                                              /\ aged[s].rank <= q.entry[s].rank
    <3>1. CASE full
      <4>1. \A s \in Slot : q.entry[s] \in Entry
        BY <2>1
      <4>2. \A s \in Slot : /\ aged[s].sample = q.entry[s].sample
                            /\ aged[s].rank = q.entry[s].rank - 1
        BY <3>1, <4>1 DEF Entry
      <4> QED
        BY <3>1, <4>1, <4>2 DEF Entry
    <3>2. CASE ~full
      <4>1. \A s \in Slot : q.entry[s] \in Entry
        BY <2>1
      <4> QED
        BY <2>1, <3>2, <4>1 DEF Entry
    <3> QED
      BY <3>1, <3>2
  <2> HIDE DEF aged, rank
  <2>5. DOMAIN e = Slot /\ e[d].sample = sample /\ \A s \in Slot \ {d} : e[s] = aged[s]
    BY <2>1, <2>4
  <2> HIDE DEF e, d, p
  <2>6. ASSUME NEW s \in Taken(p), s # d
        PROVE  s \in Taken(q) /\ p.entry[s].sample = q.entry[s].sample
    <3>1. s \in Slot /\ p.entry[s].rank >= 0 /\ p.entry[s] = aged[s]
      BY <2>3, <2>5, <2>6 DEF Taken
    <3>2. aged[s].sample = q.entry[s].sample /\ aged[s].rank <= q.entry[s].rank
      BY <2>4, <3>1
    <3>3. q.entry[s].rank \in Int /\ DOMAIN q.entry = Slot
      BY <2>1, <3>1 DEF Entry
    <3>4. q.entry[s].rank >= 0
      <4>1. \/ aged[s].rank = q.entry[s].rank
            \/ aged[s].rank = q.entry[s].rank - 1
        <5>1. q.entry[s] \in Entry
          BY <2>1, <3>1
        <5> QED
          BY <3>1, <5>1 DEF aged, Entry
      <4> QED
        BY <3>1, <3>3, <4>1
    <3> QED
      BY <3>1, <3>2, <3>3, <3>4 DEF Taken
  <2>7. p.entry[d].sample = sample
    BY <2>3, <2>5
  <2>8. ASSUME NEW s \in Taken(p), NEW r \in Taken(p), p.entry[s].sample = p.entry[r].sample
        PROVE  s = r
    <3>1. CASE s # d /\ r # d
      BY <2>6, <2>8, <3>1 DEF Apart
    <3>2. CASE s = d \/ r = d
      BY <2>6, <2>7, <2>8, <3>2 DEF Waits
    <3> QED
      BY <3>1, <3>2
  <2>9. Waits(p) \subseteq Waits(q) \cup {sample}
    BY <2>6, <2>7 DEF Waits
  <2> QED
    BY <2>3, <2>8, <2>9 DEF Apart, p
<1> QED
  BY <1>1, <1>2

\* A sample that is learnt no longer waits.
LEMMA ConsumeWaits ==
  ASSUME NEW q, QueueInv(q), Apart(q), NEW slot \in Taken(q)
  PROVE  LET p == Consume(q, slot) IN
         Apart(p) /\ Waits(p) \subseteq Waits(q) \ {q.entry[slot].sample}
<1> DEFINE p == Consume(q, slot)
           moved(s) == IF q.entry[s].rank > q.entry[slot].rank
                       THEN [q.entry[s] EXCEPT !.rank = @ - 1] ELSE q.entry[s]
           e == [s \in Slot |-> IF s = slot THEN FreeEntry ELSE moved(s)]
<1>1. /\ ~q.disabled /\ Ranked(q.entry) /\ Taken(q) = Waiting(q.entry)
      /\ q.entry \in [Slot -> Entry] /\ Taken(q) \subseteq Slot
  BY TakenWaits DEF Ranked
<1>2. p = [q EXCEPT !.entry = e]
  BY DEF Consume
<1>3. p.entry = e
  BY <1>2 DEF QueueInv, QueueFields
<1>4. ASSUME NEW s \in Slot, s # slot
      PROVE  /\ e[s].sample = q.entry[s].sample
             /\ e[s].rank \in {q.entry[s].rank, q.entry[s].rank - 1}
  <2>1. q.entry[s] \in Entry /\ e[s] = moved(s)
    BY <1>1, <1>4
  <2> HIDE DEF e
  <2> QED
    BY <2>1 DEF Entry
<1>5. DOMAIN e = Slot /\ e[slot] = FreeEntry
  BY <1>1
<1> HIDE DEF e, p
<1>6. ASSUME NEW s \in Taken(p)
      PROVE  s \in Taken(q) /\ s # slot /\ p.entry[s].sample = q.entry[s].sample
  <2>1. s \in Slot /\ p.entry[s].rank >= 0
    BY <1>3, <1>5, <1>6 DEF Taken
  <2>2. s # slot
    BY <1>3, <1>5, <2>1 DEF FreeEntry
  <2>3. q.entry[s].rank \in Int /\ DOMAIN q.entry = Slot
    BY <1>1, <2>1 DEF Entry
  <2> QED
    BY <1>3, <1>4, <2>1, <2>2, <2>3 DEF Taken
<1>7. Apart(p)
  BY <1>6 DEF Apart
<1>8. Waits(p) \subseteq Waits(q) \ {q.entry[slot].sample}
  BY <1>6 DEF Waits, Apart
<1> QED
  BY <1>7, <1>8 DEF p

\* Publishing a gallery leaves what waits alone.
LEMMA PublishWaits ==
  ASSUME NEW q, QueueInv(q), Apart(q), NEW gallery, NEW input, NEW shown
  PROVE  LET p == Publish(q, gallery, input, shown) IN
         /\ Apart(p) /\ Waits(p) = Waits(q) /\ p.disabled = q.disabled
         /\ p.live = {gallery} /\ p.input = input /\ p.shown = shown
<1> DEFINE p == Publish(q, gallery, input, shown)
<1>1. /\ p.entry = q.entry /\ p.disabled = q.disabled
      /\ p.live = {gallery} /\ p.input = input /\ p.shown = shown
  BY DEF Publish, QueueInv, QueueFields
<1> HIDE DEF p
<1> QED
  BY <1>1 DEF Apart, Waits, Taken, p

\* So does taking it away.
LEMMA ClearWaits ==
  ASSUME NEW q, QueueInv(q), Apart(q)
  PROVE  LET p == ClearGallery(q) IN
         /\ Apart(p) /\ Waits(p) = Waits(q) /\ p.disabled = q.disabled
         /\ p.live = {} /\ p.input = {}
<1> DEFINE p == ClearGallery(q)
<1>1. p.entry = q.entry /\ p.disabled = q.disabled /\ p.live = {} /\ p.input = {}
  BY DEF ClearGallery, QueueInv, QueueFields
<1> HIDE DEF p
<1> QED
  BY <1>1 DEF Apart, Waits, Taken, p

\* In a queue that is switched off nothing waits.
LEMMA DisableWaits ==
  ASSUME NEW q, QueueInv(q)
  PROVE  LET p == Disable(q) IN Apart(p) /\ Waits(p) = {} /\ p.disabled
<1> DEFINE p == Disable(q)
<1>1. Taken(p) = {} /\ p.disabled
  BY DEF Disable, Taken, QueueInv, QueueFields
<1> QED
  BY <1>1 DEF Apart, Waits

\* Nothing waits at first.
LEMMA NewQueueWaits ==
  ASSUME NEW d \in BOOLEAN
  PROVE  LET q == NewQueue(d) IN
         Apart(q) /\ Waits(q) = {} /\ q.disabled = d /\ q.live = {} /\ q.input = {}
<1> DEFINE q == NewQueue(d)
<1>1. q.disabled = d /\ q.live = {} /\ q.input = {}
      /\ q.entry = IF d THEN << >> ELSE [s \in Slot |-> FreeEntry]
  BY DEF NewQueue
<1> HIDE DEF q
<1>2. Taken(q) = {}
  BY <1>1 DEF Taken, FreeEntry
<1> QED
  BY <1>1, <1>2 DEF Apart, Waits, q

-----------------------------------------------------------------------------
(* The templates and the queue in a state *)

\* A template that can be the gallery of queue q: nothing that it shows waits,
\* and nothing that is still to come has been seen.
Fits(q, t, ahead) ==
  /\ Good(t) /\ Distinct(t) /\ Apart(q)
  /\ Waits(q) \cap Samples(t) = {}
  /\ ahead \cap (Samples(t) \cup Waits(q)) = {}

\* Feature f now shows the sample, the other features what they showed.
Joined(t, u, f, sample) ==
  /\ Features(u) = Features(t) \cup {f} /\ u.feature[f].sample = sample
  /\ \A g \in Features(t) : g # f => u.feature[g].sample = t.feature[g].sample

\* The samples of a template that one more has joined.
LEMMA JoinedShows ==
  ASSUME NEW t, NEW u, NEW f, NEW sample, Joined(t, u, f, sample), Distinct(t),
         sample \notin Samples(t)
  PROVE  /\ Distinct(u) /\ Samples(u) \subseteq Samples(t) \cup {sample}
         /\ \A shown : StandsIn(t, shown) => StandsIn(u, With(shown, f, sample))
<1>1. Samples(u) \subseteq Samples(t) \cup {sample}
  BY DEF Joined, Samples
<1>2. Distinct(u)
  BY DEF Joined, Distinct, Samples
<1>3. ASSUME NEW shown, StandsIn(t, shown)
      PROVE  StandsIn(u, With(shown, f, sample))
  <2> DEFINE s == With(shown, f, sample)
  <2>1. DOMAIN s = DOMAIN shown \cup {f}
        /\ \A g \in DOMAIN s : s[g] = IF g = f THEN sample ELSE shown[g]
    BY DEF With
  <2> HIDE DEF s
  <2>2. ASSUME NEW g \in DOMAIN s
        PROVE  g \in Features(u) /\ u.feature[g].sample = s[g]
    BY <1>3, <2>1, <2>2 DEF Joined, StandsIn
  <2> QED
    BY <2>2 DEF StandsIn, s
<1> QED
  BY <1>1, <1>2, <1>3

\* The same samples under other ages, relations or orders.
LEMMA SameShows ==
  ASSUME NEW t, NEW u, u.n = t.n,
         \A f \in Features(t) : u.feature[f].sample = t.feature[f].sample
  PROVE  /\ Features(u) = Features(t) /\ Samples(u) = Samples(t)
         /\ Distinct(t) => Distinct(u)
         /\ \A shown : StandsIn(t, shown) => StandsIn(u, shown)
<1>1. Features(u) = Features(t)
  BY DEF Features
<1>2. Samples(u) = Samples(t)
  BY <1>1 DEF Samples
<1>3. Distinct(t) => Distinct(u)
  BY <1>1 DEF Distinct
<1>4. ASSUME NEW shown, StandsIn(t, shown)
      PROVE  StandsIn(u, shown)
  BY <1>1, <1>4 DEF StandsIn
<1> QED
  BY <1>1, <1>2, <1>3, <1>4

\* What queue q is once gallery g is published, for the caller's template h.
Published(p, q, g, h, ahead, input, shown) ==
  /\ Fits(p, g, ahead) /\ Waits(p) = Waits(q) /\ Resolve(p, h) = g /\ Retained(p, h)
  /\ p.live = {g} /\ p.input = input /\ p.shown = shown /\ p.disabled = q.disabled

\* Publishing makes the gallery the one of the next call.
LEMMA PublishFits ==
  ASSUME NEW q, QueueInv(q), NEW g, NEW ahead, Fits(q, g, ahead), NEW input, NEW shown,
         NEW h \in {g} \cup input
  PROVE  Published(Publish(q, g, input, shown), q, g, h, ahead, input, shown)
<1> DEFINE p == Publish(q, g, input, shown)
<1>1. /\ Apart(p) /\ Waits(p) = Waits(q) /\ p.disabled = q.disabled
      /\ p.live = {g} /\ p.input = input /\ p.shown = shown
  BY PublishWaits DEF Fits
<1> HIDE DEF p
<1>2. Retained(p, h)
  BY <1>1 DEF Retained
<1>3. Resolve(p, h) = g
  BY <1>1, <1>2 DEF Resolve
<1>4. Fits(p, g, ahead)
  BY <1>1 DEF Fits
<1> QED
  BY <1>1, <1>2, <1>3, <1>4 DEF p, Published

\* The samples that are still to come.
Ahead == {Probes[i] : i \in count + 1 .. Len(Probes)}

Control == [action : BOOLEAN, final : BOOLEAN]

\* The templates, and what their galleries show.
Galleries ==
  /\ \A t \in {stored, held} \cup queue.live \cup queue.input : Good(t)
  /\ queue.live = {} \/ \E g : queue.live = {g}
  /\ \A t \in queue.live : StandsIn(t, queue.shown)
  /\ Distinct(stored) /\ Ahead \cap Samples(stored) = {}

\* Between two calls the next one has its gallery.
Between ==
  /\ work = NoWork
  /\ queue.live = {} \/ Retained(queue, held)
  /\ queue.disabled = Gallery.disabled
  /\ Fits(queue, Gallery, Ahead)
  /\ pc = "matched" =>
       /\ queue.live = {held}
       /\ control.action => Probe \notin Samples(Gallery) \cup Waits(queue)

\* While the waiting samples are followed up there is one current template.
During ==
  \E t : /\ work.current = {t}
         /\ Fits(queue, t, Ahead) /\ t.established
         /\ work.trigger \in Features(t)
         /\ work.pending \in Seq(Features(t))
         /\ StandsIn(t, work.shown)

LearnInvariant ==
  /\ pc \in {"idle", "matched", "following"}
  /\ control \in Control /\ queue.disabled \in BOOLEAN
  /\ Galleries
  /\ pc # "following" => Between
  /\ pc = "following" => During

\* The invariant that every step preserves.
StudyInvariant == QueueInvariant /\ LearnInvariant

\* The print an authentication starts with, and the empty queue.
LEMMA StudyInvariantInit == Init => StudyInvariant
<1> SUFFICES ASSUME Init PROVE StudyInvariant
  OBVIOUS
<1>1. QueueInvariant
  BY QueueInvariantInit
<1>2. stored \in Stored /\ held = stored /\ queue = NewQueue(stored.disabled)
      /\ pc = "idle" /\ count = 0 /\ control = NoControl /\ work = NoWork
  BY DEF Init
<1>3. Good(stored) /\ stored.disabled \in BOOLEAN
  BY <1>2, StoredGood, BodyIs DEF Good
<1>4. /\ Apart(queue) /\ Waits(queue) = {} /\ queue.disabled = stored.disabled
      /\ queue.live = {} /\ queue.input = {}
  BY <1>2, <1>3, NewQueueWaits
<1>5. Gallery = stored
  BY <1>2, <1>4 DEF Gallery, Resolve, Retained
<1>6. Distinct(stored) /\ Ahead \cap Samples(stored) = {}
  <2>1. Distinct(stored) /\ \A i \in DOMAIN Probes : Probes[i] \notin Samples(stored)
    BY <1>2, StoredAssumption
  <2>2. \A i \in count + 1 .. Len(Probes) : i \in DOMAIN Probes
    BY <1>2, StudyAssumption
  <2> QED
    BY <2>1, <2>2 DEF Ahead
<1>7. Fits(queue, Gallery, Ahead)
  BY <1>3, <1>4, <1>5, <1>6 DEF Fits
<1>8. Galleries
  BY <1>2, <1>3, <1>4, <1>6 DEF Galleries
<1>9. Between
  BY <1>2, <1>4, <1>5, <1>7 DEF Between
<1>10. control \in Control
  BY <1>2 DEF NoControl, Control
<1> QED
  BY <1>1, <1>2, <1>3, <1>4, <1>8, <1>9, <1>10 DEF StudyInvariant, LearnInvariant

\* The gallery that a call uses.
LEMMA GalleryIs ==
  ASSUME StudyInvariant, pc # "following"
  PROVE  /\ Fits(queue, Gallery, Ahead) /\ Good(Gallery) /\ QueueInv(queue)
         /\ queue.disabled = Gallery.disabled /\ queue.disabled \in BOOLEAN
         /\ pc = "matched" => /\ queue.live = {held} /\ Gallery = held
                              /\ Retained(queue, held) /\ StandsIn(Gallery, queue.shown)
                              /\ Shown(queue) = queue.shown
<1>1. Between /\ QueueInv(queue) /\ queue.disabled \in BOOLEAN /\ Galleries
  BY DEF StudyInvariant, LearnInvariant, QueueInvariant
<1>2. /\ Fits(queue, Gallery, Ahead) /\ Good(Gallery)
      /\ queue.disabled = Gallery.disabled
  BY <1>1 DEF Between, Fits
<1>3. ASSUME pc = "matched"
      PROVE  /\ queue.live = {held} /\ Gallery = held
             /\ Retained(queue, held) /\ StandsIn(Gallery, queue.shown)
             /\ Shown(queue) = queue.shown
  <2>1. queue.live = {held}
    BY <1>1, <1>3 DEF Between
  <2>2. Retained(queue, held)
    BY <2>1 DEF Retained
  <2>3. Gallery = held
    BY <2>1, <2>2 DEF Gallery, Resolve
  <2>4. StandsIn(held, queue.shown)
    BY <1>1, <2>1 DEF Galleries
  <2> QED
    BY <2>1, <2>2, <2>3, <2>4 DEF Shown
<1> QED
  BY <1>1, <1>2, <1>3

-----------------------------------------------------------------------------
(* The calls *)

\* A call that ends by publishing a gallery.
LEMMA CallPublishes ==
  ASSUME StudyInvariant, NEW q, QueueInv(q), q.disabled \in BOOLEAN,
         NEW g, Fits(q, g, Ahead'), g.disabled = q.disabled,
         NEW input, \A t \in input : Good(t), NEW shown, StandsIn(g, shown),
         queue' = Publish(q, g, input, shown), held' \in {g} \cup input,
         pc' \in {"idle", "matched"}, control' \in Control, work' = NoWork,
         stored' \in {stored, g}, Ahead' \subseteq Ahead,
         pc' = "matched" => /\ held' = g
                            /\ control'.action => Probe' \notin Samples(g) \cup Waits(q)
  PROVE  LearnInvariant'
<1>1. /\ Fits(queue', g, Ahead') /\ Waits(queue') = Waits(q)
      /\ Resolve(queue', held') = g /\ Retained(queue', held')
      /\ queue'.live = {g} /\ queue'.input = input /\ queue'.shown = shown
      /\ queue'.disabled = q.disabled
  <2>1. Published(queue', q, g, held', Ahead', input, shown)
    BY PublishFits
  <2> QED
    BY <2>1 DEF Published
<1>2. Good(g) /\ Distinct(g) /\ Ahead' \cap Samples(g) = {}
  BY DEF Fits
<1>3. Gallery' = g
  BY <1>1 DEF Gallery
<1>4. Good(stored) /\ Distinct(stored) /\ Ahead \cap Samples(stored) = {}
  BY DEF StudyInvariant, LearnInvariant, Galleries
<1>5. Galleries'
  <2>1. \A t \in {stored', held'} \cup queue'.live \cup queue'.input : Good(t)
    BY <1>1, <1>2, <1>4
  <2>2. Distinct(stored') /\ Ahead' \cap Samples(stored') = {}
    BY <1>2, <1>4
  <2> QED
    BY <1>1, <2>1, <2>2 DEF Galleries
<1>6. Between'
  BY <1>1, <1>3 DEF Between
<1> QED
  BY <1>1, <1>5, <1>6 DEF LearnInvariant

\* What is still to come becomes less.
LEMMA AheadIs ==
  ASSUME count \in Nat
  PROVE  /\ UNCHANGED count => Ahead' = Ahead
         /\ count' = count + 1 => Ahead' \subseteq Ahead
<1>1. ASSUME count' = count + 1
      PROVE  Ahead' \subseteq Ahead
  <2>1. count' + 1 .. Len(Probes) \subseteq count + 1 .. Len(Probes)
    BY <1>1
  <2> QED
    BY <2>1 DEF Ahead
<1> QED
  BY <1>1 DEF Ahead

\* The probe that is presented has not been seen, and is not to come again.
LEMMA ProbeIsNew ==
  ASSUME count \in Nat, count < Len(Probes), count' = count + 1
  PROVE  Probe' \in Ahead /\ Probe' \notin Ahead' /\ Probe' \in Sample \ {NoSample}
         /\ Probe' = Probes[count']
<1>1. Len(Probes) \in Nat /\ DOMAIN Probes = 1 .. Len(Probes)
  BY StudyAssumption
<1>2. count' \in 1 .. Len(Probes) /\ count' \in count + 1 .. Len(Probes)
      /\ Probe' = Probes[count']
  BY <1>1 DEF Probe
<1>3. \A i \in count' + 1 .. Len(Probes) : i \in DOMAIN Probes /\ i # count'
  BY <1>1, <1>2
<1>4. Probe' \notin Ahead'
  BY <1>1, <1>2, <1>3, StudyAssumption DEF Ahead
<1>5. Probes[count'] \in Sample \ {NoSample}
  BY <1>2, ProbeSample
<1> QED
  BY <1>2, <1>4, <1>5 DEF Ahead

\* The next authentication reads what was stored, with a queue of its own.
LEMMA NextAuthenticationLearns ==
  ASSUME StudyInvariant, NextAuthentication
  PROVE  LearnInvariant'
<1>1. /\ pc = "idle" /\ held' = stored /\ queue' = NewQueue(stored.disabled)
      /\ UNCHANGED <<stored, pc, count, control, work>>
  BY DEF NextAuthentication
<1>2. /\ Good(stored) /\ Distinct(stored) /\ Ahead \cap Samples(stored) = {}
      /\ control \in Control /\ work = NoWork
  BY <1>1 DEF StudyInvariant, LearnInvariant, Galleries, Between
<1>3. stored.disabled \in BOOLEAN
  BY <1>2, BodyIs DEF Good
<1>4. /\ Apart(queue') /\ Waits(queue') = {} /\ queue'.disabled = stored.disabled
      /\ queue'.live = {} /\ queue'.input = {}
  BY <1>1, <1>3, NewQueueWaits
<1>5. Gallery' = stored
  BY <1>1, <1>4 DEF Gallery, Resolve, Retained
<1>6. Ahead' = Ahead
  BY <1>1 DEF Ahead
<1>7. Fits(queue', Gallery', Ahead')
  BY <1>2, <1>4, <1>5, <1>6 DEF Fits
<1>8. Galleries'
  BY <1>1, <1>2, <1>4, <1>6 DEF Galleries
<1>9. Between'
  BY <1>1, <1>2, <1>4, <1>5, <1>7 DEF Between
<1> QED
  BY <1>1, <1>2, <1>3, <1>4, <1>8, <1>9 DEF LearnInvariant

\* A match may put its probe into the queue, and publishes the gallery it used.
LEMMA MatchProbeLearns ==
  ASSUME StudyInvariant, MatchProbe
  PROVE  LearnInvariant'
<1>1. /\ pc = "idle" /\ count < Len(Probes) /\ count' = count + 1 /\ pc' = "matched"
      /\ UNCHANGED <<stored, work>>
  BY DEF MatchProbe
<1>2. PICK action \in BOOLEAN, final \in BOOLEAN, eligible \in BOOLEAN,
           duplicate \in BOOLEAN, sort \in BOOLEAN,
           mask \in SUBSET (Met \cap Features(Gallery)) :
        /\ eligible => ~action
        /\ control' = [action |-> action, final |-> final]
        /\ held' = UpdateLifecycle(Gallery, mask, sort)
        /\ queue' = Publish(IF eligible THEN Enqueue(queue, Probes[count'], duplicate)
                            ELSE queue,
                            UpdateLifecycle(Gallery, mask, sort), {},
                            IF Retained(queue, held) THEN queue.shown ELSE Decoded(Gallery))
  BY DEF MatchProbe
<1> DEFINE g == UpdateLifecycle(Gallery, mask, sort)
           q == IF eligible THEN Enqueue(queue, Probes[count'], duplicate) ELSE queue
           shown == IF Retained(queue, held) THEN queue.shown ELSE Decoded(Gallery)
<1>3. /\ Fits(queue, Gallery, Ahead) /\ Good(Gallery) /\ QueueInv(queue)
      /\ queue.disabled = Gallery.disabled /\ queue.disabled \in BOOLEAN
  BY <1>1, GalleryIs
<1>4. Good(g) /\ SameViews(Gallery, g)
  BY <1>2, <1>3, LifecycleGood
<1>5. /\ Samples(g) = Samples(Gallery) /\ (Distinct(Gallery) => Distinct(g))
      /\ \A s : StandsIn(Gallery, s) => StandsIn(g, s)
      /\ g.disabled = Gallery.disabled
  <2> HIDE DEF g
  <2> QED
    BY <1>4, SameShows DEF SameViews
<1>6. count \in Nat /\ work = NoWork /\ Galleries
  <2>1. count \in 0 .. Len(Probes) /\ Between /\ Galleries
    BY <1>1 DEF StudyInvariant, QueueInvariant, LearnInvariant
  <2> QED
    BY <2>1, StudyAssumption DEF Between
<1>7. /\ Probe' \in Ahead /\ Probe' \notin Ahead' /\ Probe' \in Sample \ {NoSample}
      /\ Probe' = Probes[count'] /\ Ahead' \subseteq Ahead
  BY <1>1, <1>6, AheadIs, ProbeIsNew
<1>8. Probe' \notin Waits(queue) /\ Probe' \notin Samples(Gallery) /\ Apart(queue)
  BY <1>3, <1>7 DEF Fits
<1>9. /\ QueueInv(q) /\ Apart(q) /\ Waits(q) \subseteq Waits(queue) \cup {Probe'}
      /\ q.disabled = queue.disabled /\ (~eligible => Waits(q) = Waits(queue))
  <2>1. CASE eligible
    BY <1>3, <1>7, <1>8, <2>1, EnqueueWaits, EnqueueInv
  <2>2. CASE ~eligible
    BY <1>3, <1>8, <2>2
  <2> QED
    BY <2>1, <2>2
<1>10. StandsIn(g, shown)
  <2>1. StandsIn(Gallery, shown)
    <3>1. CASE Retained(queue, held)
      <4>1. Gallery \in queue.live
        <5>1. queue.live # {}
          BY <1>3, <3>1 DEF Retained, QueueInv
        <5> QED
          BY <3>1, <5>1 DEF Gallery, Resolve
      <4> QED
        BY <1>6, <3>1, <4>1 DEF Galleries
    <3>2. CASE ~Retained(queue, held)
      <4>1. StandsIn(Gallery, Decoded(Gallery))
        BY DEF StandsIn, Decoded
      <4> QED
        BY <3>2, <4>1
    <3> QED
      BY <3>1, <3>2
  <2> HIDE DEF g, shown
  <2> QED
    BY <1>5, <2>1
<1>11. queue' = Publish(q, g, {}, shown) /\ held' = g
  BY <1>2
<1> HIDE DEF g, q, shown
<1>12. Fits(q, g, Ahead')
  BY <1>3, <1>4, <1>5, <1>7, <1>8, <1>9 DEF Fits
<1>13. control' \in Control /\ (control'.action => ~eligible)
  BY <1>2 DEF Control
<1>14. control'.action => Probe' \notin Samples(g) \cup Waits(q)
  BY <1>5, <1>8, <1>9, <1>13
<1> QED
  BY <1>1, <1>3, <1>5, <1>6, <1>7, <1>9, <1>10, <1>11, <1>12, <1>13, <1>14, CallPublishes

\* A study without an action publishes the same gallery again.
LEMMA StudyNothingLearns ==
  ASSUME StudyInvariant, StudyNothing
  PROVE  LearnInvariant'
<1>1. /\ pc = "matched" /\ queue' = Publish(queue, Gallery, {held}, Shown(queue))
      /\ pc' = "idle" /\ control' = NoControl /\ UNCHANGED <<stored, held, count, work>>
  BY DEF StudyNothing, PublishQuietly
<1>2. /\ Fits(queue, Gallery, Ahead) /\ Good(Gallery) /\ QueueInv(queue)
      /\ queue.disabled = Gallery.disabled /\ queue.disabled \in BOOLEAN
      /\ Gallery = held /\ StandsIn(Gallery, queue.shown) /\ Shown(queue) = queue.shown
  BY <1>1, GalleryIs
<1>3. Ahead' = Ahead
  BY <1>1 DEF Ahead
<1>4. work = NoWork
  BY <1>1 DEF StudyInvariant, LearnInvariant, Between
<1>5. control' \in Control
  BY <1>1 DEF NoControl, Control
<1> QED
  BY <1>1, <1>2, <1>3, <1>4, <1>5, CallPublishes

\* A study with action 0: retained features are refreshed, or the probe waits.
LEMMA StudyActionZeroLearns ==
  ASSUME StudyInvariant, StudyActionZero
  PROVE  LearnInvariant'
<1>1. pc = "matched" /\ control.action
  BY DEF StudyActionZero
<1>2. PICK relation \in Relations(Gallery, Probe, Features(Gallery)),
           retained \in SUBSET Inactive(Gallery), worth \in BOOLEAN, duplicate \in BOOLEAN :
        \E flag \in EvidenceFlag(Gallery, Features(Gallery), relation) :
          LET q == IF AtCapacity(Gallery) THEN Disable(queue)
                   ELSE IF worth THEN Enqueue(queue, Probe, duplicate)
                   ELSE queue
          IN PublishQuietly(q, Finalize(Action0(Gallery, Probe, relation, retained, flag), q,
                                        control.final))
  BY DEF StudyActionZero
<1>3. PICK flag \in EvidenceFlag(Gallery, Features(Gallery), relation) :
        LET q == IF AtCapacity(Gallery) THEN Disable(queue)
                 ELSE IF worth THEN Enqueue(queue, Probe, duplicate)
                 ELSE queue
        IN PublishQuietly(q, Finalize(Action0(Gallery, Probe, relation, retained, flag), q,
                                      control.final))
  BY <1>2
<1> DEFINE q == IF AtCapacity(Gallery) THEN Disable(queue)
                ELSE IF worth THEN Enqueue(queue, Probe, duplicate)
                ELSE queue
           done == Action0(Gallery, Probe, relation, retained, flag)
           g == Finalize(done, q, control.final)
<1>4. /\ Fits(queue, Gallery, Ahead) /\ Good(Gallery) /\ QueueInv(queue)
      /\ queue.disabled = Gallery.disabled /\ queue.disabled \in BOOLEAN
      /\ Gallery = held /\ StandsIn(Gallery, queue.shown) /\ Shown(queue) = queue.shown
  BY <1>1, GalleryIs
<1>5. /\ Probe \notin Samples(Gallery) /\ Probe \notin Waits(queue) /\ work = NoWork
      /\ control.final \in BOOLEAN /\ Good(held)
  BY <1>1 DEF StudyInvariant, LearnInvariant, Between, Control, Galleries
<1>6. Probe \in Sample \ {NoSample} /\ Probe \notin Ahead
  <2>1. count \in 1 .. Len(Probes) /\ Len(Probes) \in Nat /\ DOMAIN Probes = 1 .. Len(Probes)
    BY <1>1, StudyAssumption DEF StudyInvariant, QueueInvariant
  <2>2. Probe \in Sample \ {NoSample}
    BY <2>1, ProbeSample DEF Probe
  <2>3. \A i \in count + 1 .. Len(Probes) : i \in DOMAIN Probes /\ i # count
    BY <2>1
  <2>4. Probe \notin Ahead
    BY <2>1, <2>3, StudyAssumption DEF Ahead, Probe
  <2> QED
    BY <2>2, <2>4
<1>7. Apart(queue) /\ Ahead' = Ahead
  BY <1>3, <1>4 DEF Fits, PublishQuietly, Ahead
<1>8. /\ QueueInv(q) /\ Apart(q) /\ Waits(q) \subseteq Waits(queue) \cup {Probe}
      /\ q.disabled \in BOOLEAN
  <2>1. CASE AtCapacity(Gallery)
    BY <1>4, <1>7, <2>1, DisableWaits, DisableInv
  <2>2. CASE ~AtCapacity(Gallery) /\ worth
    BY <1>4, <1>5, <1>6, <1>7, <2>2, EnqueueWaits, EnqueueInv
  <2>3. CASE ~AtCapacity(Gallery) /\ ~worth
    BY <1>4, <1>7, <2>3
  <2> QED
    BY <2>1, <2>2, <2>3
<1>9. queue' = Publish(q, g, {held}, Shown(queue)) /\ pc' = "idle" /\ control' = NoControl
      /\ UNCHANGED <<stored, held, count, work>>
  BY <1>3 DEF PublishQuietly
<1> HIDE DEF q
<1>10. flag \in BOOLEAN /\ (flag => Gallery.established)
  BY <1>4, <1>6, EvidenceIs
<1>11. Good(done) /\ SameViews(Gallery, done)
  BY <1>4, <1>6, <1>10, Action0Good
<1> HIDE DEF done
<1>12. Good(g) /\ g.n = done.n /\ g.feature = done.feature /\ g.disabled = q.disabled
  BY <1>5, <1>8, <1>11, FinalizeGood
<1> HIDE DEF g
<1>13. /\ Samples(g) = Samples(Gallery) /\ (Distinct(Gallery) => Distinct(g))
       /\ \A s : StandsIn(Gallery, s) => StandsIn(g, s)
  <2>1. g.n = Gallery.n /\ \A f \in Features(Gallery) : g.feature[f].sample
                                                       = Gallery.feature[f].sample
    BY <1>11, <1>12 DEF SameViews
  <2> QED
    BY <2>1, SameShows
<1>14. Fits(q, g, Ahead')
  BY <1>4, <1>5, <1>6, <1>7, <1>8, <1>12, <1>13 DEF Fits
<1>15. control' \in Control
  BY <1>9 DEF NoControl, Control
<1>16. StandsIn(g, Shown(queue))
  BY <1>4, <1>13
<1> QED
  BY <1>5, <1>7, <1>8, <1>9, <1>12, <1>14, <1>15, <1>16, CallPublishes

\* A call that fails takes the gallery away.
LEMMA StudyWithoutReferenceLearns ==
  ASSUME StudyInvariant, StudyWithoutReference
  PROVE  LearnInvariant'
<1>1. /\ pc = "matched" /\ queue' = ClearGallery(queue) /\ pc' = "idle"
      /\ control' = NoControl /\ work' = NoWork /\ UNCHANGED <<stored, held, count>>
  BY DEF StudyWithoutReference, Fail
<1>2. /\ Fits(queue, Gallery, Ahead) /\ QueueInv(queue)
      /\ queue.disabled = Gallery.disabled /\ queue.disabled \in BOOLEAN
      /\ Gallery = held
  BY <1>1, GalleryIs
<1>3. Galleries /\ Apart(queue)
  BY <1>2 DEF StudyInvariant, LearnInvariant, Fits
<1>4. /\ Apart(queue') /\ Waits(queue') = Waits(queue) /\ queue'.disabled = queue.disabled
      /\ queue'.live = {} /\ queue'.input = {}
  BY <1>1, <1>2, <1>3, ClearWaits
<1>5. Gallery' = held
  BY <1>1, <1>4 DEF Gallery, Resolve, Retained
<1>6. Ahead' = Ahead
  BY <1>1 DEF Ahead
<1>7. Fits(queue', Gallery', Ahead')
  BY <1>2, <1>4, <1>5, <1>6 DEF Fits
<1>8. Galleries'
  BY <1>1, <1>3, <1>4, <1>6 DEF Galleries
<1>9. Between'
  BY <1>1, <1>2, <1>4, <1>5, <1>7 DEF Between
<1>10. control' \in Control
  BY <1>1 DEF NoControl, Control
<1> QED
  BY <1>1, <1>2, <1>4, <1>8, <1>9, <1>10 DEF LearnInvariant

\* A sample that leaves the queue, or was never in it, joins the template.
LEMMA JoinedFits ==
  ASSUME NEW q, NEW t, NEW ahead, Fits(q, t, ahead), NEW p, Apart(p),
         Waits(p) \subseteq Waits(q), NEW sample, sample \notin Waits(p),
         sample \notin Samples(t), sample \notin ahead,
         NEW u, Good(u), NEW f, Joined(t, u, f, sample)
  PROVE  /\ Fits(p, u, ahead)
         /\ \A shown : StandsIn(t, shown) => StandsIn(u, With(shown, f, sample))
<1>1. Distinct(t) /\ Waits(q) \cap Samples(t) = {} /\ ahead \cap (Samples(t) \cup Waits(q)) = {}
  BY DEF Fits
<1>2. /\ Distinct(u) /\ Samples(u) \subseteq Samples(t) \cup {sample}
      /\ \A shown : StandsIn(t, shown) => StandsIn(u, With(shown, f, sample))
  BY <1>1, JoinedShows
<1> QED
  BY <1>1, <1>2 DEF Fits

\* The features the policy may select are features of the template.
LEMMA SelectableIs ==
  ASSUME NEW t, NEW matched \in Features(t), NEW flag, NEW f \in Selectable(t, matched, flag)
  PROVE  f \in Features(t)
BY DEF Selectable, Active

\* goodix_milan_study_append
LEMMA AppendJoins ==
  ASSUME NEW t, Good(t), ~AtCapacity(t), NEW sample \in Sample,
         NEW features \in SUBSET Features(t), NEW r \in Relations(t, sample, features),
         NEW matched \in Features(t), NEW retained,
         NEW flag \in BOOLEAN, flag => t.established
  PROVE  LET u == AppendFeature(t, sample, matched, r, retained, flag) IN
         /\ Good(u) /\ u.established /\ Joined(t, u, t.n, sample) /\ t.n \in Features(u)
         /\ Features(t) \subseteq Features(u)
<1> DEFINE u == AppendFeature(t, sample, matched, r, retained, flag)
<1>1. /\ Good(u) /\ u.established /\ u.n = t.n + 1
      /\ \A f \in Features(t) : u.feature[f].sample = t.feature[f].sample
      /\ u.feature[t.n].sample = sample
  BY AppendGood
<1> HIDE DEF u
<1>2. t.n \in Nat /\ Features(t) = 0 .. t.n - 1 /\ Features(u) = 0 .. u.n - 1
  BY BodyIs DEF Good, Features
<1>3. Features(u) = Features(t) \cup {t.n}
  BY <1>1, <1>2
<1> QED
  BY <1>1, <1>3 DEF Joined, u

\* goodix_milan_study_replace
LEMMA ReplaceJoins ==
  ASSUME NEW sample \in Sample, NEW s, Sound(s, sample), s.m.established,
         NEW matched \in Features(s.t), NEW target \in Features(s.t), NEW flag \in BOOLEAN,
         NEW t, Same(t, s.t)
  PROVE  LET u == ReplaceFeature(s, sample, matched, target, flag) IN
         /\ Good(u) /\ u.established /\ Joined(t, u, target, sample) /\ target \in Features(u)
         /\ Features(t) \subseteq Features(u)
<1> DEFINE u == ReplaceFeature(s, sample, matched, target, flag)
<1>1. /\ Good(u) /\ u.established /\ u.n = s.t.n
      /\ u.feature[target].sample = sample
      /\ \A f \in Features(s.t) : f # target => u.feature[f].sample = s.t.feature[f].sample
  BY ReplaceGood
<1> HIDE DEF u
<1>2. /\ Features(s.t) = Features(t) /\ Features(u) = Features(t)
      /\ \A f \in Features(t) : s.t.feature[f].sample = t.feature[f].sample
  BY <1>1 DEF Same, Features
<1> QED
  BY <1>1, <1>2 DEF Joined, u

\* The probe is learnt, and what waits is to follow.
LEMMA ProbeLearns ==
  ASSUME StudyInvariant, pc = "matched", control.action, NEW u, NEW f, Learn(u, f),
         Good(u), u.established, Joined(Gallery, u, f, Probe), f \in Features(u),
         Probe \notin Ahead
  PROVE  LearnInvariant'
<1>1. /\ work'.current = {u} /\ work'.shown = With(Shown(queue), f, Probe)
      /\ work'.pending = <<f>> /\ work'.trigger = f /\ pc' = "following"
      /\ UNCHANGED <<stored, held, queue, count, control>>
  BY DEF Learn
<1>2. /\ Fits(queue, Gallery, Ahead) /\ StandsIn(Gallery, Shown(queue)) /\ Apart(queue)
  BY GalleryIs DEF Fits
<1>3. /\ Galleries /\ control \in Control /\ queue.disabled \in BOOLEAN
      /\ Probe \notin Samples(Gallery) /\ Probe \notin Waits(queue)
  BY DEF StudyInvariant, LearnInvariant, Between
<1>4. /\ Fits(queue, u, Ahead)
      /\ \A shown : StandsIn(Gallery, shown) => StandsIn(u, With(shown, f, Probe))
  BY <1>2, <1>3, JoinedFits
<1>5. Ahead' = Ahead
  BY <1>1 DEF Ahead
<1>6. Galleries'
  BY <1>1, <1>3, <1>5 DEF Galleries
<1>7. work'.pending \in Seq(Features(u))
  BY <1>1
<1>8. During'
  <2>1. StandsIn(u, work'.shown)
    BY <1>1, <1>2, <1>4
  <2>2. Fits(queue', u, Ahead')
    BY <1>1, <1>4, <1>5
  <2> QED
    BY <1>1, <1>7, <2>1, <2>2 DEF During
<1> QED
  BY <1>1, <1>3, <1>6, <1>8 DEF LearnInvariant

\* The probe of a match that is to be studied.
LEMMA ProbeIs ==
  ASSUME StudyInvariant, pc = "matched"
  PROVE  Probe \in Sample /\ Probe \in Sample \ {NoSample} /\ Probe \notin Ahead
<1>1. count \in 1 .. Len(Probes) /\ Len(Probes) \in Nat /\ DOMAIN Probes = 1 .. Len(Probes)
  BY StudyAssumption DEF StudyInvariant, QueueInvariant
<1>2. Probe \in Sample \ {NoSample}
  BY <1>1, ProbeSample DEF Probe
<1>3. \A i \in count + 1 .. Len(Probes) : i \in DOMAIN Probes /\ i # count
  BY <1>1
<1>4. Probe \notin Ahead
  BY <1>1, <1>3, StudyAssumption DEF Ahead, Probe
<1> QED
  BY <1>2, <1>4

\* A study that appends the probe.
LEMMA StudyAppendLearns ==
  ASSUME StudyInvariant, StudyAppend
  PROVE  LearnInvariant'
<1> DEFINE t == Gallery
<1>1. pc = "matched" /\ control.action /\ ~AtCapacity(t)
  BY DEF StudyAppend
<1>2. PICK relation \in Relations(t, Probe, Features(t)), matched \in Features(t),
           retained \in SUBSET Inactive(t) :
        \E flag \in EvidenceFlag(t, Features(t), relation) :
          Learn(AppendFeature(t, Probe, matched, relation, retained, flag), t.n)
  BY DEF StudyAppend
<1>3. PICK flag \in EvidenceFlag(t, Features(t), relation) :
        Learn(AppendFeature(t, Probe, matched, relation, retained, flag), t.n)
  BY <1>2
<1>4. Good(t)
  BY <1>1, GalleryIs
<1> HIDE DEF t
<1>5. Probe \in Sample /\ Probe \notin Ahead
  BY <1>1, ProbeIs
<1>6. flag \in BOOLEAN /\ (flag => t.established)
  BY <1>2, <1>3, <1>4, <1>5, EvidenceIs
<1> DEFINE u == AppendFeature(t, Probe, matched, relation, retained, flag)
<1>7. Good(u) /\ u.established /\ Joined(t, u, t.n, Probe) /\ t.n \in Features(u)
  BY <1>1, <1>2, <1>3, <1>4, <1>5, <1>6, AppendJoins
<1> HIDE DEF u
<1> QED
  BY <1>1, <1>2, <1>3, <1>5, <1>7, ProbeLearns DEF t, u

\* A study that replaces a feature by the probe.
LEMMA StudyReplaceLearns ==
  ASSUME StudyInvariant, StudyReplace
  PROVE  LearnInvariant'
<1> DEFINE t == Gallery
<1>1. pc = "matched" /\ control.action /\ HasReference(t)
  BY DEF StudyReplace
<1>2. PICK relation \in Relations(t, Probe, Features(t)), matched \in Features(t),
           retained \in SUBSET Inactive(t) :
        \E flag \in EvidenceFlag(t, Features(t), relation) :
          LET s == Prepass(t, Probe, relation, retained, flag) IN
          \E target \in Selectable(s.t, matched, flag) :
            Learn(ReplaceFeature(s, Probe, matched, target, flag), target)
  BY DEF StudyReplace
<1>3. PICK flag \in EvidenceFlag(t, Features(t), relation) :
        LET s == Prepass(t, Probe, relation, retained, flag) IN
        \E target \in Selectable(s.t, matched, flag) :
          Learn(ReplaceFeature(s, Probe, matched, target, flag), target)
  BY <1>2
<1> DEFINE s == Prepass(t, Probe, relation, retained, flag)
<1>4. Good(t) /\ t.established
  BY <1>1, GalleryIs DEF HasReference
<1>5. PICK target \in Selectable(s.t, matched, flag) :
        Learn(ReplaceFeature(s, Probe, matched, target, flag), target)
  BY <1>3
<1> HIDE DEF t
<1>6. Probe \in Sample /\ Probe \notin Ahead
  BY <1>1, ProbeIs
<1>7. flag \in BOOLEAN /\ (flag => t.established)
  BY <1>2, <1>3, <1>4, <1>6, EvidenceIs
<1>8. Sound(s, Probe) /\ Same(t, s.t) /\ s.m.established
  BY <1>4, <1>6, <1>7, PrepassSound
<1> HIDE DEF s
<1>9. matched \in Features(s.t) /\ target \in Features(s.t)
  <2>1. matched \in Features(s.t)
    BY <1>8 DEF Same, Features
  <2> QED
    BY <2>1, SelectableIs
<1> DEFINE u == ReplaceFeature(s, Probe, matched, target, flag)
<1>10. Good(u) /\ u.established /\ Joined(t, u, target, Probe) /\ target \in Features(u)
  BY <1>6, <1>7, <1>8, <1>9, ReplaceJoins
<1> HIDE DEF u
<1> QED
  BY <1>1, <1>5, <1>6, <1>10, ProbeLearns DEF t, u

\* The current template while samples are followed up.
LEMMA CurrentIs ==
  ASSUME StudyInvariant, pc = "following"
  PROVE  /\ work.current = {Current} /\ Good(Current) /\ Current.established
         /\ Fits(queue, Current, Ahead) /\ work.trigger \in Features(Current)
         /\ work.pending \in Seq(Features(Current)) /\ StandsIn(Current, work.shown)
         /\ Galleries /\ control \in Control /\ queue.disabled \in BOOLEAN
         /\ QueueInv(queue) /\ Apart(queue) /\ DOMAIN work = WorkFields /\ count \in Nat
<1>1. During /\ Galleries /\ control \in Control /\ queue.disabled \in BOOLEAN
      /\ QueueInv(queue) /\ DOMAIN work = WorkFields /\ count \in Nat
  BY StudyAssumption DEF StudyInvariant, LearnInvariant, QueueInvariant
<1>2. PICK t : /\ work.current = {t}
               /\ Fits(queue, t, Ahead) /\ t.established
               /\ work.trigger \in Features(t)
               /\ work.pending \in Seq(Features(t))
               /\ StandsIn(t, work.shown)
  BY <1>1 DEF During
<1>3. Current = t
  BY <1>2 DEF Current
<1> QED
  BY <1>1, <1>2, <1>3 DEF Fits

\* A step that only changes the work.
LEMMA StillFollowing ==
  ASSUME StudyInvariant, pc = "following",
         UNCHANGED <<stored, held, pc, count, control>>,
         queue'.disabled = queue.disabled, queue'.live = queue.live,
         queue'.input = queue.input, queue'.shown = queue.shown,
         NEW u, work'.current = {u}, Fits(queue', u, Ahead), u.established,
         work'.trigger \in Features(u), work'.pending \in Seq(Features(u)),
         StandsIn(u, work'.shown)
  PROVE  LearnInvariant'
<1>1. Galleries /\ control \in Control /\ queue.disabled \in BOOLEAN
  BY CurrentIs
<1>2. Ahead' = Ahead
  BY DEF Ahead
<1>3. Galleries'
  BY <1>1, <1>2 DEF Galleries
<1>4. During'
  BY <1>2 DEF During
<1> QED
  BY <1>1, <1>3, <1>4 DEF LearnInvariant

\* The next feature that was learnt becomes the one to follow.
LEMMA NextTriggerLearns ==
  ASSUME StudyInvariant, NextTrigger
  PROVE  LearnInvariant'
<1>1. /\ pc = "following" /\ work.pending # << >>
      /\ work' = [work EXCEPT !.trigger = Head(work.pending), !.pending = Tail(work.pending),
                              !.slot = 0]
      /\ UNCHANGED <<stored, held, queue, pc, count, control>>
  BY DEF NextTrigger, Following
<1> DEFINE t == Current
<1>2. /\ work.current = {t} /\ t.established /\ Fits(queue, t, Ahead)
      /\ work.pending \in Seq(Features(t)) /\ StandsIn(t, work.shown)
      /\ DOMAIN work = WorkFields
  BY <1>1, CurrentIs
<1> HIDE DEF t
<1>3. Head(work.pending) \in Features(t) /\ Tail(work.pending) \in Seq(Features(t))
  BY <1>1, <1>2
<1>4. /\ work'.current = work.current /\ work'.shown = work.shown
      /\ work'.trigger = Head(work.pending) /\ work'.pending = Tail(work.pending)
  BY <1>1, <1>2 DEF WorkFields
<1>5. Fits(queue', t, Ahead)
  BY <1>1, <1>2
<1> QED
  BY <1>1, <1>2, <1>3, <1>4, <1>5, StillFollowing

\* A sample that waited is learnt.
LEMMA RejoinLearns ==
  ASSUME StudyInvariant, Following, NEW slot \in Taken(queue),
         NEW t, SameViews(Current, t),
         NEW u, NEW f, Rejoin(slot, u, f), UNCHANGED <<stored, held, pc, count, control>>,
         Good(u), u.established, Joined(t, u, f, queue.entry[slot].sample),
         Features(t) \subseteq Features(u), f \in Features(u)
  PROVE  LearnInvariant'
<1> DEFINE sample == queue.entry[slot].sample
           p == Consume(queue, slot)
<1>1. /\ pc = "following" /\ work.current = {Current} /\ Fits(queue, Current, Ahead)
      /\ work.trigger \in Features(Current) /\ work.pending \in Seq(Features(Current))
      /\ StandsIn(Current, work.shown) /\ QueueInv(queue) /\ Apart(queue)
      /\ DOMAIN work = WorkFields
  BY CurrentIs DEF Following
<1>2. /\ queue' = p /\ work'.current = {u} /\ work'.shown = With(work.shown, f, sample)
      /\ work'.pending = Append(work.pending, f) /\ work'.trigger = work.trigger
  BY <1>1 DEF Rejoin, WorkFields
<1>3. Apart(p) /\ Waits(p) \subseteq Waits(queue) \ {sample} /\ p.disabled = queue.disabled
  BY <1>1, ConsumeWaits, ConsumeInv
<1>4. p.live = queue.live /\ p.input = queue.input /\ p.shown = queue.shown
  BY <1>1 DEF Consume, QueueInv, QueueFields
<1>5. sample \in Waits(queue)
  BY DEF Waits
<1> HIDE DEF p, sample
<1>6. /\ Features(t) = Features(Current) /\ Samples(t) = Samples(Current)
      /\ (Distinct(Current) => Distinct(t))
      /\ \A shown : StandsIn(Current, shown) => StandsIn(t, shown)
  BY SameShows DEF SameViews
<1>7. sample \notin Samples(t) /\ sample \notin Ahead /\ Distinct(t)
      /\ Waits(queue) \cap Samples(t) = {} /\ Ahead \cap (Samples(t) \cup Waits(queue)) = {}
  BY <1>1, <1>5, <1>6 DEF Fits
<1>8. /\ Distinct(u) /\ Samples(u) \subseteq Samples(t) \cup {sample}
      /\ \A shown : StandsIn(t, shown) => StandsIn(u, With(shown, f, sample))
  BY <1>7, JoinedShows DEF sample
<1>9. Fits(queue', u, Ahead)
  BY <1>2, <1>3, <1>7, <1>8 DEF Fits
<1>10. StandsIn(u, work'.shown)
  BY <1>1, <1>2, <1>6, <1>8
<1>11. work'.pending \in Seq(Features(u)) /\ work'.trigger \in Features(u)
  <2>1. work.pending \in Seq(Features(u))
    BY <1>1, <1>6
  <2> QED
    BY <1>1, <1>2, <1>6, <2>1
<1> QED
  BY <1>1, <1>2, <1>3, <1>4, <1>9, <1>10, <1>11, StillFollowing

\* A waiting sample is tried, and may be learnt.
LEMMA FollowupLearns ==
  ASSUME StudyInvariant, Followup
  PROVE  LearnInvariant'
<1> DEFINE slot == CHOOSE s \in Remaining : \A r \in Remaining : s <= r
           sample == queue.entry[slot].sample
           near == {work.trigger}
<1>1. /\ Following /\ pc = "following" /\ Remaining # {}
      /\ UNCHANGED <<stored, held, pc, count, control>>
  BY DEF Followup, Following
<1>2. PICK mask \in SUBSET (Met \cap near), sort \in BOOLEAN :
        LET t == UpdateLifecycle(Current, mask, sort)
        IN /\ mask = {} => ~sort
           /\ \/ /\ work' = [work EXCEPT !.current = {t}, !.slot = slot + 1]
                 /\ UNCHANGED queue
              \/ \E relation \in Relations(t, sample, near) :
                 \E flag \in EvidenceFlag(t, near, relation) :
                   \/ /\ ~AtCapacity(t)
                      /\ Rejoin(slot, AppendFeature(t, sample, work.trigger, relation, {}, FALSE),
                                t.n)
                   \/ /\ AtCapacity(t)
                      /\ \E target \in Selectable(t, work.trigger, flag) :
                           Rejoin(slot,
                                  ReplaceFeature([t |-> t, m |-> BuildMatrix(t),
                                                  relation |-> relation],
                                                 sample, work.trigger, target, flag),
                                  target)
  BY Zenon DEF Followup
<1> DEFINE t == UpdateLifecycle(Current, mask, sort)
<1>3. /\ work.current = {Current} /\ Fits(queue, Current, Ahead) /\ Current.established
      /\ work.trigger \in Features(Current) /\ work.pending \in Seq(Features(Current))
      /\ StandsIn(Current, work.shown) /\ QueueInv(queue) /\ Good(Current)
      /\ DOMAIN work = WorkFields
  BY <1>1, CurrentIs DEF Following
<1>4. Good(t) /\ SameViews(Current, t) /\ t.established
  BY <1>3, LifecycleGood
<1>5. slot \in Taken(queue)
  <2>1. Remaining \in SUBSET Nat
    BY <1>3, TakenWaits DEF Remaining, Slot
  <2>2. slot \in Remaining
    BY <1>1, <2>1, FirstExists
  <2> QED
    BY <2>2 DEF Remaining
<1> HIDE DEF slot
<1>6. sample \in Sample
  <2>1. /\ Ranked(queue.entry) /\ slot \in Waiting(queue.entry)
    BY <1>1, <1>3, <1>5, TakenWaits DEF Following
  <2> QED
    BY <2>1 DEF Ranked, Waiting, Entry
<1> HIDE DEF t, sample
<1>7. /\ Features(t) = Features(Current) /\ Samples(t) = Samples(Current)
      /\ (Distinct(Current) => Distinct(t)) /\ StandsIn(t, work.shown)
  BY <1>3, <1>4, SameShows DEF SameViews
<1>8. CASE work' = [work EXCEPT !.current = {t}, !.slot = slot + 1] /\ UNCHANGED queue
  <2>1. /\ work'.current = {t} /\ work'.shown = work.shown
        /\ work'.trigger = work.trigger /\ work'.pending = work.pending
    BY <1>3, <1>8 DEF WorkFields
  <2>2. Fits(queue', t, Ahead)
    BY <1>3, <1>4, <1>7, <1>8 DEF Fits
  <2> QED
    BY <1>1, <1>3, <1>4, <1>7, <1>8, <2>1, <2>2, StillFollowing
<1>9. ASSUME NEW relation \in Relations(t, sample, near), ~AtCapacity(t),
             Rejoin(slot, AppendFeature(t, sample, work.trigger, relation, {}, FALSE), t.n)
      PROVE  LearnInvariant'
  <2> DEFINE no == FALSE
             u == AppendFeature(t, sample, work.trigger, relation, {}, no)
  <2>1. no \in BOOLEAN /\ (no => t.established) /\ near \in SUBSET Features(t)
        /\ work.trigger \in Features(t) /\ Rejoin(slot, u, t.n)
    BY <1>3, <1>7, <1>9
  <2> HIDE DEF no, near
  <2>2. /\ Good(u) /\ u.established /\ Joined(t, u, t.n, sample) /\ t.n \in Features(u)
        /\ Features(t) \subseteq Features(u)
    BY <1>4, <1>6, <1>9, <2>1, AppendJoins
  <2> HIDE DEF u
  <2> QED
    BY <1>1, <1>4, <1>5, <2>1, <2>2, RejoinLearns DEF sample
<1>10. ASSUME NEW relation \in Relations(t, sample, near),
              NEW flag \in EvidenceFlag(t, near, relation),
              NEW target \in Selectable(t, work.trigger, flag),
              Rejoin(slot,
                     ReplaceFeature([t |-> t, m |-> BuildMatrix(t), relation |-> relation],
                                    sample, work.trigger, target, flag),
                     target)
       PROVE  LearnInvariant'
  <2> DEFINE s == [t |-> t, m |-> BuildMatrix(t), relation |-> relation]
             u == ReplaceFeature(s, sample, work.trigger, target, flag)
  <2>1. near \in SUBSET Features(t) /\ work.trigger \in Features(t) /\ Rejoin(slot, u, target)
    BY <1>3, <1>7, <1>10
  <2>2. target \in Features(t)
    BY <2>1, SelectableIs
  <2>3. s.t = t /\ s.m.established = t.established
    BY BuildIs DEF BuildMatrix
  <2> HIDE DEF near
  <2>4. flag \in BOOLEAN /\ Sound(s, sample)
    BY <1>4, <1>6, <2>1, EvidenceIs, StartSound
  <2>5. Same(t, s.t)
    BY <2>3 DEF Same
  <2> HIDE DEF s
  <2>6. /\ Good(u) /\ u.established /\ Joined(t, u, target, sample) /\ target \in Features(u)
        /\ Features(t) \subseteq Features(u)
    BY <1>4, <1>6, <2>1, <2>2, <2>3, <2>4, <2>5, ReplaceJoins
  <2> HIDE DEF u
  <2> QED
    BY <1>1, <1>4, <1>5, <2>1, <2>6, RejoinLearns DEF sample
<1> QED
  BY <1>2, <1>8, <1>9, <1>10 DEF t, sample

\* The end of a study publishes what was learnt.
LEMMA FinishStudyLearns ==
  ASSUME StudyInvariant, FinishStudy
  PROVE  LearnInvariant'
<1> DEFINE t == Current
           q == IF AtCapacity(t) THEN Disable(queue) ELSE queue
           g == Finalize(t, q, control.final)
<1>1. /\ pc = "following" /\ queue' = Publish(q, g, {}, work.shown) /\ held' = g
      /\ stored' \in {stored, g} /\ pc' = "idle" /\ control' = NoControl
      /\ work' = NoWork /\ UNCHANGED count
  BY DEF FinishStudy
<1>2. /\ Fits(queue, t, Ahead) /\ Good(t) /\ StandsIn(t, work.shown) /\ QueueInv(queue)
      /\ queue.disabled \in BOOLEAN /\ control.final \in BOOLEAN /\ Apart(queue)
  BY <1>1, CurrentIs DEF Control
<1>3. Ahead' = Ahead
  BY <1>1 DEF Ahead
<1> HIDE DEF t
<1>4. /\ QueueInv(q) /\ Apart(q) /\ Waits(q) \subseteq Waits(queue) /\ q.disabled \in BOOLEAN
  <2>1. CASE AtCapacity(t)
    BY <1>2, <2>1, DisableWaits, DisableInv
  <2>2. CASE ~AtCapacity(t)
    BY <1>2, <2>2
  <2> QED
    BY <2>1, <2>2
<1> HIDE DEF q
<1>5. Good(g) /\ g.n = t.n /\ g.feature = t.feature /\ g.disabled = q.disabled
  BY <1>2, <1>4, FinalizeGood
<1> HIDE DEF g
<1>6. /\ Samples(g) = Samples(t) /\ (Distinct(t) => Distinct(g))
      /\ StandsIn(g, work.shown)
  BY <1>2, <1>5, SameShows
<1>7. Fits(q, g, Ahead')
  BY <1>2, <1>3, <1>4, <1>5, <1>6 DEF Fits
<1>8. control' \in Control /\ work' = NoWork /\ Ahead' \subseteq Ahead
  BY <1>1, <1>3 DEF NoControl, Control
<1> QED
  BY <1>1, <1>4, <1>5, <1>6, <1>7, <1>8, CallPublishes

\* Templates and queue, after every step.
LEMMA StudyInvariantStep ==
  ASSUME StudyInvariant, [Next]_vars
  PROVE  StudyInvariant'
<1>1. QueueInvariant'
  BY QueueInvariantStep DEF StudyInvariant
<1>2. CASE UNCHANGED vars
  <2>1. Ahead' = Ahead /\ Gallery' = Gallery /\ Probe' = Probe
    BY <1>2 DEF vars, Ahead, Gallery, Probe
  <2>2. LearnInvariant
    BY DEF StudyInvariant
  <2>3. Galleries = Galleries' /\ During = During'
    BY <1>2, <2>1 DEF vars, Galleries, During
  <2>4. Between = Between'
    BY <1>2, <2>1 DEF vars, Between
  <2> QED
    BY <1>1, <1>2, <2>2, <2>3, <2>4 DEF vars, LearnInvariant, StudyInvariant
<1>3. CASE Next
  <2>1. LearnInvariant'
    BY <1>3, NextAuthenticationLearns, MatchProbeLearns, StudyNothingLearns,
       StudyActionZeroLearns, StudyAppendLearns, StudyReplaceLearns,
       StudyWithoutReferenceLearns, NextTriggerLearns, FollowupLearns, FinishStudyLearns
       DEF Next, Study
  <2> QED
    BY <1>1, <2>1 DEF StudyInvariant
<1> QED
  BY <1>2, <1>3

\* What a study leaves behind is a well-formed template.
THEOREM TemplatesAreSound == Spec => []LearntSound
<1>1. StudyInvariant => LearntSound
  <2> SUFFICES ASSUME StudyInvariant PROVE LearntSound
    OBVIOUS
  <2>1. \A t \in Templates : Good(t)
    <3>1. CASE pc = "following"
      BY <3>1, CurrentIs DEF Templates, Galleries
    <3>2. CASE pc # "following"
      BY <3>2 DEF Templates, Galleries, StudyInvariant, LearnInvariant, Between, NoWork
    <3> QED
      BY <3>1, <3>2
  <2>2. LearntPlacement
    BY <2>1, GoodIsPlaced DEF LearntPlacement
  <2>3. LearntReadable
    BY <2>1, GoodIsReadable DEF LearntReadable
  <2>4. \A t \in Templates : IsTemplate(t)
    BY <2>1, GoodIsTemplate
  <2>5. pc = "following" <=> work.current # {}
    <3>1. CASE pc = "following"
      BY <3>1, CurrentIs
    <3>2. CASE pc # "following"
      BY <3>2 DEF StudyInvariant, LearnInvariant, Between, NoWork
    <3> QED
      BY <3>1, <3>2
  <2>6. \A s \in DOMAIN queue.entry : queue.entry[s].sample \in Sample \cup {NoSample}
    <3>1. QueueInv(queue)
      BY DEF StudyInvariant, QueueInvariant
    <3>2. CASE queue.disabled
      BY <3>1, <3>2 DEF QueueInv
    <3>3. CASE ~queue.disabled
      BY <3>1, <3>3 DEF QueueInv, Ranked, Entry
    <3> QED
      BY <3>2, <3>3
  <2>7. pc \in {"idle", "matched", "following"} /\ count \in 0 .. Len(Probes)
    BY DEF StudyInvariant, LearnInvariant, QueueInvariant
  <2>8. \A i \in DOMAIN work.pending : work.pending[i] \in 0 .. MaxFeatures - 1
    <3>1. CASE pc = "following"
      <4>1. work.pending \in Seq(Features(Current)) /\ Good(Current)
        BY <3>1, CurrentIs
      <4>2. Features(Current) \subseteq 0 .. MaxFeatures - 1
        BY <4>1, BodyIs DEF Good
      <4> QED
        BY <4>1, <4>2
    <3>2. CASE pc # "following"
      BY <3>2 DEF StudyInvariant, LearnInvariant, Between, NoWork
    <3> QED
      BY <3>1, <3>2
  <2> QED
    BY <2>2, <2>3, <2>4, <2>5, <2>6, <2>7, <2>8 DEF LearntSound, TypeOK
<1> QED
  BY StudyInvariantInit, StudyInvariantStep, <1>1, PTL DEF Spec

\* Queue and gallery of the next call agree.
THEOREM CallsAreAccepted == Spec => []QueueAgrees
<1>1. StudyInvariant => QueueAgrees
  <2> SUFFICES ASSUME StudyInvariant PROVE QueueAgrees
    OBVIOUS
  <2>1. pc # "following" => Accepted
    <3> SUFFICES ASSUME pc # "following" PROVE Accepted
      OBVIOUS
    <3>1. QueueInv(queue) /\ Good(Gallery) /\ queue.disabled = Gallery.disabled
      BY GalleryIs
    <3>2. ValidQueue(queue) /\ Normalizable(Gallery)
      BY <3>1, RankedValid, GoodIsNormalizable
    <3> QED
      BY <3>1, <3>2 DEF Accepted, QueueMatches
  <2> DEFINE waits == [s \in Taken(queue) |-> queue.entry[s].sample]
             last == IF pc = "following" THEN work.current ELSE queue.live
  <2>2. Galleries /\ QueueInv(queue)
    BY DEF StudyInvariant, LearnInvariant, QueueInvariant
  <2>3. Apart(queue) /\ \A t \in last : Distinct(t) /\ Waits(queue) \cap Samples(t) = {}
    <3>1. CASE pc = "following"
      BY <3>1, CurrentIs DEF Fits
    <3>2. CASE pc # "following"
      <4>1. Fits(queue, Gallery, Ahead)
        BY <3>2, GalleryIs
      <4>2. \A t \in queue.live : t = Gallery
        <5>1. queue.live = {} \/ Retained(queue, held)
          BY <3>2 DEF StudyInvariant, LearnInvariant, Between
        <5> QED
          BY <2>2, <5>1 DEF Galleries, Gallery, Resolve
      <4> QED
        BY <3>2, <4>1, <4>2 DEF Fits
    <3> QED
      BY <3>1, <3>2
  <2>4. \A s, r \in Taken(queue) : waits[s] = waits[r] => s = r
    BY <2>3 DEF Apart
  <2>5. \A t \in last : Distinct(t) /\ \A s \in Taken(queue) : waits[s] \notin Samples(t)
    BY <2>3 DEF Waits
  <2>6. \A t \in work.current : StandsIn(t, work.shown)
    <3>1. CASE pc = "following"
      BY <3>1, CurrentIs
    <3>2. CASE pc # "following"
      BY <3>2 DEF StudyInvariant, LearnInvariant, Between, NoWork
    <3> QED
      BY <3>1, <3>2
  <2> QED
    BY <2>1, <2>2, <2>4, <2>5, <2>6 DEF QueueAgrees, Galleries
<1> QED
  BY StudyInvariantInit, StudyInvariantStep, <1>1, PTL DEF Spec

=============================================================================
