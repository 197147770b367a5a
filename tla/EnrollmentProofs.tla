-------------------------- MODULE EnrollmentProofs --------------------------
(***************************************************************************)
(* The enrollment of a finger, for every number of views, every placement, *)
(* every registration and every order of touches: what is published is     *)
(* what a later match accepts, with its active views where they lie, and   *)
(* views taken one at a time give the template that combining them gives.  *)
(*                                                                         *)
(* First the loops, unfolded turn by turn, and what each keeps of a well   *)
(* made transaction: the propagation along a worklist, the bridges, the    *)
(* closing, an insertion, a deletion.  Then the invariant and what it      *)
(* says of a published template.  Then the two ways to take the views, run *)
(* beside each other: a transaction and one that has all its rows from the *)
(* start agree on the views both have taken.  Last, that what is published *)
(* meets what an authentication assumes of a print.                        *)
(*                                                                         *)
(* The lemmas on transforms and relation matrices are those of StudyProofs.*)
(***************************************************************************)
EXTENDS StudyProofs, Enrollment

-----------------------------------------------------------------------------
(* The loops of an insertion, turn by turn *)

\* The hops of a route.
LEMMA RouteUnfolds ==
  ASSUME NEW tx, NEW list, NEW position, NEW candidate, NEW n \in Nat, n = position - 1
  PROVE  \E d :
           /\ RouteFrom(tx, list, position, candidate) = d[n].path
           /\ d[0] = [path |-> SlotOf(tx.m, candidate, list[position]).map, child |-> position]
           /\ \A i \in 1 .. n : d[i] = Hop(tx, list, d[i - 1], position - i)
<1> DEFINE first == [path |-> SlotOf(tx.m, candidate, list[position]).map, child |-> position]
           turn(i, x) == Hop(tx, list, x, position - i)
           Runs(k, d) == d = [i \in 0 .. k |-> IF i = 0 THEN first ELSE turn(i, d[i - 1])]
           T == {k \in 0 .. n : \A d : ~Runs(k, d)}
           done == CHOOSE d : Runs(n, d)
<1>1. RouteFrom(tx, list, position, candidate) = done[n].path
  BY DEF RouteFrom
<1> HIDE DEF first, turn, done
<1>2. \E d : Runs(0, d)
  <2> DEFINE d == [i \in 0 .. 0 |-> first]
  <2>1. Runs(0, d)
    OBVIOUS
  <2> QED
    BY <2>1
<1>3. ASSUME NEW k \in 1 .. n, NEW d, Runs(k - 1, d)
      PROVE  \E e : Runs(k, e)
  <2> DEFINE e == [i \in 0 .. k |-> IF i = k THEN turn(k, d[k - 1]) ELSE d[i]]
  <2>1. \A i \in 0 .. k - 1 : d[i] = IF i = 0 THEN first ELSE turn(i, d[i - 1])
    BY <1>3
  <2>2. ASSUME NEW i \in 0 .. k
        PROVE  e[i] = IF i = 0 THEN first ELSE turn(i, e[i - 1])
    <3>1. CASE i = k
      BY <3>1
    <3>2. CASE i # k
      BY <2>1, <3>2
    <3> QED
      BY <3>1, <3>2
  <2>3. Runs(k, e)
    BY <2>2
  <2> QED
    BY <2>3
<1> HIDE DEF Runs
<1>4. T = {}
  <2> SUFFICES ASSUME T # {} PROVE FALSE
    OBVIOUS
  <2>1. PICK k \in T : \A j \in T : k <= j
    <3>1. T \in SUBSET Nat
      OBVIOUS
    <3> HIDE DEF T
    <3> QED
      BY <3>1, FirstExists
  <2>2. k # 0
    BY <1>2
  <2>3. k \in 1 .. n /\ k - 1 \in 0 .. n /\ k - 1 \notin T
    BY <2>1, <2>2
  <2> QED
    BY <1>3, <2>1, <2>3
<1>5. Runs(n, done)
  BY <1>4 DEF done
<1>6. done[0] = first /\ \A i \in 1 .. n : done[i] = turn(i, done[i - 1])
  BY <1>5 DEF Runs
<1> QED
  BY <1>1, <1>6 DEF first, turn

\* The earlier views, from the pivot downward.
LEMMA LowerUnfolds ==
  ASSUME NEW tx, NEW n \in Nat, NEW toReference
  PROVE  \E d :
           /\ PropagateLower(tx, n, toReference) = d[n].tx
           /\ d[0] = [tx |-> tx, work |-> <<n>>]
           /\ \A i \in 1 .. n : d[i] = LowerCandidate(d[i - 1], n - i, toReference)
<1> DEFINE first == [tx |-> tx, work |-> <<n>>]
           turn(i, x) == LowerCandidate(x, n - i, toReference)
           Runs(k, d) == d = [i \in 0 .. k |-> IF i = 0 THEN first ELSE turn(i, d[i - 1])]
           T == {k \in 0 .. n : \A d : ~Runs(k, d)}
           done == CHOOSE d : Runs(n, d)
<1>1. PropagateLower(tx, n, toReference) = done[n].tx
  BY DEF PropagateLower
<1> HIDE DEF first, turn, done
<1>2. \E d : Runs(0, d)
  <2> DEFINE d == [i \in 0 .. 0 |-> first]
  <2>1. Runs(0, d)
    OBVIOUS
  <2> QED
    BY <2>1
<1>3. ASSUME NEW k \in 1 .. n, NEW d, Runs(k - 1, d)
      PROVE  \E e : Runs(k, e)
  <2> DEFINE e == [i \in 0 .. k |-> IF i = k THEN turn(k, d[k - 1]) ELSE d[i]]
  <2>1. \A i \in 0 .. k - 1 : d[i] = IF i = 0 THEN first ELSE turn(i, d[i - 1])
    BY <1>3
  <2>2. ASSUME NEW i \in 0 .. k
        PROVE  e[i] = IF i = 0 THEN first ELSE turn(i, e[i - 1])
    <3>1. CASE i = k
      BY <3>1
    <3>2. CASE i # k
      BY <2>1, <3>2
    <3> QED
      BY <3>1, <3>2
  <2>3. Runs(k, e)
    BY <2>2
  <2> QED
    BY <2>3
<1> HIDE DEF Runs
<1>4. T = {}
  <2> SUFFICES ASSUME T # {} PROVE FALSE
    OBVIOUS
  <2>1. PICK k \in T : \A j \in T : k <= j
    <3>1. T \in SUBSET Nat
      OBVIOUS
    <3> HIDE DEF T
    <3> QED
      BY <3>1, FirstExists
  <2>2. k # 0
    BY <1>2
  <2>3. k \in 1 .. n /\ k - 1 \in 0 .. n /\ k - 1 \notin T
    BY <2>1, <2>2
  <2> QED
    BY <1>3, <2>1, <2>3
<1>5. Runs(n, done)
  BY <1>4 DEF done
<1>6. done[0] = first /\ \A i \in 1 .. n : done[i] = turn(i, done[i - 1])
  BY <1>5 DEF Runs
<1> QED
  BY <1>1, <1>6 DEF first, turn

\* d are the turns of a propagation to the later views.
HigherTurns(d, n, tx, pivot, toReference) ==
  /\ d[0] = tx
  /\ \A i \in 1 .. n : d[i] = HigherCandidate(d[i - 1], pivot + i, pivot, toReference)

\* The views between the pivot and the new one.
LEMMA HigherUnfolds ==
  ASSUME NEW tx, NEW pivot, NEW current, NEW toReference, NEW n \in Nat,
         n = current - pivot - 1
  PROVE  \E d : /\ PropagateHigher(tx, pivot, current, toReference) = d[n]
                /\ HigherTurns(d, n, tx, pivot, toReference)
<1> DEFINE first == tx
           turn(i, x) == HigherCandidate(x, pivot + i, pivot, toReference)
           Runs(k, d) == d = [i \in 0 .. k |-> IF i = 0 THEN first ELSE turn(i, d[i - 1])]
           T == {k \in 0 .. n : \A d : ~Runs(k, d)}
           done == CHOOSE d : Runs(n, d)
<1>1. PropagateHigher(tx, pivot, current, toReference) = done[n]
  BY DEF PropagateHigher
<1> HIDE DEF first, turn, done
<1>2. \E d : Runs(0, d)
  <2> DEFINE d == [i \in 0 .. 0 |-> first]
  <2>1. Runs(0, d)
    OBVIOUS
  <2> QED
    BY <2>1
<1>3. ASSUME NEW k \in 1 .. n, NEW d, Runs(k - 1, d)
      PROVE  \E e : Runs(k, e)
  <2> DEFINE e == [i \in 0 .. k |-> IF i = k THEN turn(k, d[k - 1]) ELSE d[i]]
  <2>1. \A i \in 0 .. k - 1 : d[i] = IF i = 0 THEN first ELSE turn(i, d[i - 1])
    BY <1>3
  <2>2. ASSUME NEW i \in 0 .. k
        PROVE  e[i] = IF i = 0 THEN first ELSE turn(i, e[i - 1])
    <3>1. CASE i = k
      BY <3>1
    <3>2. CASE i # k
      BY <2>1, <3>2
    <3> QED
      BY <3>1, <3>2
  <2>3. Runs(k, e)
    BY <2>2
  <2> QED
    BY <2>3
<1> HIDE DEF Runs
<1>4. T = {}
  <2> SUFFICES ASSUME T # {} PROVE FALSE
    OBVIOUS
  <2>1. PICK k \in T : \A j \in T : k <= j
    <3>1. T \in SUBSET Nat
      OBVIOUS
    <3> HIDE DEF T
    <3> QED
      BY <3>1, FirstExists
  <2>2. k # 0
    BY <1>2
  <2>3. k \in 1 .. n /\ k - 1 \in 0 .. n /\ k - 1 \notin T
    BY <2>1, <2>2
  <2> QED
    BY <1>3, <2>1, <2>3
<1>5. Runs(n, done)
  BY <1>4 DEF done
<1>6. done[0] = first /\ \A i \in 1 .. n : done[i] = turn(i, done[i - 1])
  BY <1>5 DEF Runs
<1> QED
  BY <1>1, <1>6 DEF first, turn, HigherTurns

\* The pivots, one after the other.
LEMMA BridgeUnfolds ==
  ASSUME NEW tx, NEW n \in Nat, NEW seen, tx.m.established, tx.active[n]
  PROVE  \E d :
           /\ Bridged(tx, n, seen) = d[n]
           /\ d[0] = tx
           /\ \A i \in 1 .. n : d[i] = IF i - 1 \in Pivots(tx, seen)
                                          THEN BridgeFeature(d[i - 1], n, i - 1) ELSE d[i - 1]
<1> DEFINE first == tx
           turn(i, x) == IF i - 1 \in Pivots(tx, seen)
                                          THEN BridgeFeature(x, n, i - 1) ELSE x
           Runs(k, d) == d = [i \in 0 .. k |-> IF i = 0 THEN first ELSE turn(i, d[i - 1])]
           T == {k \in 0 .. n : \A d : ~Runs(k, d)}
           done == CHOOSE d : Runs(n, d)
<1>1. Bridged(tx, n, seen) = done[n]
  BY DEF Bridged
<1> HIDE DEF first, turn, done
<1>2. \E d : Runs(0, d)
  <2> DEFINE d == [i \in 0 .. 0 |-> first]
  <2>1. Runs(0, d)
    OBVIOUS
  <2> QED
    BY <2>1
<1>3. ASSUME NEW k \in 1 .. n, NEW d, Runs(k - 1, d)
      PROVE  \E e : Runs(k, e)
  <2> DEFINE e == [i \in 0 .. k |-> IF i = k THEN turn(k, d[k - 1]) ELSE d[i]]
  <2>1. \A i \in 0 .. k - 1 : d[i] = IF i = 0 THEN first ELSE turn(i, d[i - 1])
    BY <1>3
  <2>2. ASSUME NEW i \in 0 .. k
        PROVE  e[i] = IF i = 0 THEN first ELSE turn(i, e[i - 1])
    <3>1. CASE i = k
      BY <3>1
    <3>2. CASE i # k
      BY <2>1, <3>2
    <3> QED
      BY <3>1, <3>2
  <2>3. Runs(k, e)
    BY <2>2
  <2> QED
    BY <2>3
<1> HIDE DEF Runs
<1>4. T = {}
  <2> SUFFICES ASSUME T # {} PROVE FALSE
    OBVIOUS
  <2>1. PICK k \in T : \A j \in T : k <= j
    <3>1. T \in SUBSET Nat
      OBVIOUS
    <3> HIDE DEF T
    <3> QED
      BY <3>1, FirstExists
  <2>2. k # 0
    BY <1>2
  <2>3. k \in 1 .. n /\ k - 1 \in 0 .. n /\ k - 1 \notin T
    BY <2>1, <2>2
  <2> QED
    BY <1>3, <2>1, <2>3
<1>5. Runs(n, done)
  BY <1>4 DEF done
<1>6. done[0] = first /\ \A i \in 1 .. n : done[i] = turn(i, done[i - 1])
  BY <1>5 DEF Runs
<1> QED
  BY <1>1, <1>6 DEF first, turn

\* The turns of this loop.
FromTurns(d, n, s, root, current) ==
  /\ d[0] = s
  /\ \A i \in 1 .. n : d[i] = CloseCandidate(d[i - 1], root, current, n - i)

\* The candidates of one view of the stack.
LEMMA CloseFromUnfolds ==
  ASSUME NEW s, NEW n \in Nat, s.m.n = n, NEW root, NEW current
  PROVE  \E d : CloseFrom(s, root, current) = d[n] /\ FromTurns(d, n, s, root, current)
<1> DEFINE first == s
           turn(i, x) == CloseCandidate(x, root, current, n - i)
           Runs(k, d) == d = [i \in 0 .. k |-> IF i = 0 THEN first ELSE turn(i, d[i - 1])]
           T == {k \in 0 .. n : \A d : ~Runs(k, d)}
           done == CHOOSE d : Runs(n, d)
<1>1. CloseFrom(s, root, current) = done[n]
  BY DEF CloseFrom
<1> HIDE DEF first, turn, done
<1>2. \E d : Runs(0, d)
  <2> DEFINE d == [i \in 0 .. 0 |-> first]
  <2>1. Runs(0, d)
    OBVIOUS
  <2> QED
    BY <2>1
<1>3. ASSUME NEW k \in 1 .. n, NEW d, Runs(k - 1, d)
      PROVE  \E e : Runs(k, e)
  <2> DEFINE e == [i \in 0 .. k |-> IF i = k THEN turn(k, d[k - 1]) ELSE d[i]]
  <2>1. \A i \in 0 .. k - 1 : d[i] = IF i = 0 THEN first ELSE turn(i, d[i - 1])
    BY <1>3
  <2>2. ASSUME NEW i \in 0 .. k
        PROVE  e[i] = IF i = 0 THEN first ELSE turn(i, e[i - 1])
    <3>1. CASE i = k
      BY <3>1
    <3>2. CASE i # k
      BY <2>1, <3>2
    <3> QED
      BY <3>1, <3>2
  <2>3. Runs(k, e)
    BY <2>2
  <2> QED
    BY <2>3
<1> HIDE DEF Runs
<1>4. T = {}
  <2> SUFFICES ASSUME T # {} PROVE FALSE
    OBVIOUS
  <2>1. PICK k \in T : \A j \in T : k <= j
    <3>1. T \in SUBSET Nat
      OBVIOUS
    <3> HIDE DEF T
    <3> QED
      BY <3>1, FirstExists
  <2>2. k # 0
    BY <1>2
  <2>3. k \in 1 .. n /\ k - 1 \in 0 .. n /\ k - 1 \notin T
    BY <2>1, <2>2
  <2> QED
    BY <1>3, <2>1, <2>3
<1>5. Runs(n, done)
  BY <1>4 DEF done
<1>6. done[0] = first /\ \A i \in 1 .. n : done[i] = turn(i, done[i - 1])
  BY <1>5 DEF Runs
<1> QED
  BY <1>1, <1>6 DEF first, turn, FromTurns

\* The turns of this loop.
RootTurns(d, n, s, root) ==
  /\ d[0] = [s EXCEPT !.visited = {root}, !.work = <<root>>]
  /\ \A i \in 1 .. n : d[i] = ClosePop(d[i - 1], root)

\* The stack of one root.
LEMMA CloseRootUnfolds ==
  ASSUME NEW s, NEW n \in Nat, s.m.n = n, NEW root
  PROVE  \E d : CloseRoot(s, root) = d[n] /\ RootTurns(d, n, s, root)
<1> DEFINE first == [s EXCEPT !.visited = {root}, !.work = <<root>>]
           turn(i, x) == ClosePop(x, root)
           Runs(k, d) == d = [i \in 0 .. k |-> IF i = 0 THEN first ELSE turn(i, d[i - 1])]
           T == {k \in 0 .. n : \A d : ~Runs(k, d)}
           done == CHOOSE d : Runs(n, d)
<1>1. CloseRoot(s, root) = done[n]
  BY DEF CloseRoot
<1> HIDE DEF first, turn, done
<1>2. \E d : Runs(0, d)
  <2> DEFINE d == [i \in 0 .. 0 |-> first]
  <2>1. Runs(0, d)
    OBVIOUS
  <2> QED
    BY <2>1
<1>3. ASSUME NEW k \in 1 .. n, NEW d, Runs(k - 1, d)
      PROVE  \E e : Runs(k, e)
  <2> DEFINE e == [i \in 0 .. k |-> IF i = k THEN turn(k, d[k - 1]) ELSE d[i]]
  <2>1. \A i \in 0 .. k - 1 : d[i] = IF i = 0 THEN first ELSE turn(i, d[i - 1])
    BY <1>3
  <2>2. ASSUME NEW i \in 0 .. k
        PROVE  e[i] = IF i = 0 THEN first ELSE turn(i, e[i - 1])
    <3>1. CASE i = k
      BY <3>1
    <3>2. CASE i # k
      BY <2>1, <3>2
    <3> QED
      BY <3>1, <3>2
  <2>3. Runs(k, e)
    BY <2>2
  <2> QED
    BY <2>3
<1> HIDE DEF Runs
<1>4. T = {}
  <2> SUFFICES ASSUME T # {} PROVE FALSE
    OBVIOUS
  <2>1. PICK k \in T : \A j \in T : k <= j
    <3>1. T \in SUBSET Nat
      OBVIOUS
    <3> HIDE DEF T
    <3> QED
      BY <3>1, FirstExists
  <2>2. k # 0
    BY <1>2
  <2>3. k \in 1 .. n /\ k - 1 \in 0 .. n /\ k - 1 \notin T
    BY <2>1, <2>2
  <2> QED
    BY <1>3, <2>1, <2>3
<1>5. Runs(n, done)
  BY <1>4 DEF done
<1>6. done[0] = first /\ \A i \in 1 .. n : done[i] = turn(i, done[i - 1])
  BY <1>5 DEF Runs
<1> QED
  BY <1>1, <1>6 DEF first, turn, RootTurns

\* The turns of this loop.
CloseTurns(d, n, tx) ==
  /\ d[0] = Unclosed(tx)
  /\ \A i \in 1 .. n : d[i] = CloseRoot(d[i - 1], i - 1)

\* The roots.
LEMMA CloseUnfolds ==
  ASSUME NEW tx, NEW n \in Nat, tx.m.n = n
  PROVE  \E d : /\ CloseTurns(d, n, tx)
                /\ Close(tx) = [tx EXCEPT !.m = d[n].m, !.active = d[n].active,
                                          !.doubt = d[n].doubt]
<1> DEFINE first == Unclosed(tx)
           turn(i, x) == CloseRoot(x, i - 1)
           Runs(k, d) == d = [i \in 0 .. k |-> IF i = 0 THEN first ELSE turn(i, d[i - 1])]
           T == {k \in 0 .. n : \A d : ~Runs(k, d)}
           done == CHOOSE d : Runs(n, d)
<1>1. Close(tx) = [tx EXCEPT !.m = done[n].m, !.active = done[n].active, !.doubt = done[n].doubt]
  BY DEF Close
<1> HIDE DEF first, turn, done
<1>2. \E d : Runs(0, d)
  <2> DEFINE d == [i \in 0 .. 0 |-> first]
  <2>1. Runs(0, d)
    OBVIOUS
  <2> QED
    BY <2>1
<1>3. ASSUME NEW k \in 1 .. n, NEW d, Runs(k - 1, d)
      PROVE  \E e : Runs(k, e)
  <2> DEFINE e == [i \in 0 .. k |-> IF i = k THEN turn(k, d[k - 1]) ELSE d[i]]
  <2>1. \A i \in 0 .. k - 1 : d[i] = IF i = 0 THEN first ELSE turn(i, d[i - 1])
    BY <1>3
  <2>2. ASSUME NEW i \in 0 .. k
        PROVE  e[i] = IF i = 0 THEN first ELSE turn(i, e[i - 1])
    <3>1. CASE i = k
      BY <3>1
    <3>2. CASE i # k
      BY <2>1, <3>2
    <3> QED
      BY <3>1, <3>2
  <2>3. Runs(k, e)
    BY <2>2
  <2> QED
    BY <2>3
<1> HIDE DEF Runs
<1>4. T = {}
  <2> SUFFICES ASSUME T # {} PROVE FALSE
    OBVIOUS
  <2>1. PICK k \in T : \A j \in T : k <= j
    <3>1. T \in SUBSET Nat
      OBVIOUS
    <3> HIDE DEF T
    <3> QED
      BY <3>1, FirstExists
  <2>2. k # 0
    BY <1>2
  <2>3. k \in 1 .. n /\ k - 1 \in 0 .. n /\ k - 1 \notin T
    BY <2>1, <2>2
  <2> QED
    BY <1>3, <2>1, <2>3
<1>5. Runs(n, done)
  BY <1>4 DEF done
<1>6. done[0] = first /\ \A i \in 1 .. n : done[i] = turn(i, done[i - 1])
  BY <1>5 DEF Runs
<1> QED
  BY <1>1, <1>6 DEF first, turn, CloseTurns

\* The turns of this loop.
CombineTurns(d, n, samples, registrations) ==
  /\ d[0] = Sized(samples)
  /\ \A i \in 1 .. n : d[i] = Joining(d[i - 1], i - 1, registrations[i])

\* The views that are combined.
LEMMA CombineUnfolds ==
  ASSUME NEW n \in Nat, NEW samples, Len(samples) = n, NEW registrations
  PROVE  \E d : /\ Combine(samples, registrations) = TemplateOf(Closed(d[n]))
                /\ CombineTurns(d, n, samples, registrations)
<1> DEFINE first == Sized(samples)
           turn(i, x) == Joining(x, i - 1, registrations[i])
           Runs(k, d) == d = [i \in 0 .. k |-> IF i = 0 THEN first ELSE turn(i, d[i - 1])]
           T == {k \in 0 .. n : \A d : ~Runs(k, d)}
           done == CHOOSE d : Runs(n, d)
<1>1. Combine(samples, registrations) = TemplateOf(Closed(done[n]))
  BY DEF Combine
<1> HIDE DEF first, turn, done
<1>2. \E d : Runs(0, d)
  <2> DEFINE d == [i \in 0 .. 0 |-> first]
  <2>1. Runs(0, d)
    OBVIOUS
  <2> QED
    BY <2>1
<1>3. ASSUME NEW k \in 1 .. n, NEW d, Runs(k - 1, d)
      PROVE  \E e : Runs(k, e)
  <2> DEFINE e == [i \in 0 .. k |-> IF i = k THEN turn(k, d[k - 1]) ELSE d[i]]
  <2>1. \A i \in 0 .. k - 1 : d[i] = IF i = 0 THEN first ELSE turn(i, d[i - 1])
    BY <1>3
  <2>2. ASSUME NEW i \in 0 .. k
        PROVE  e[i] = IF i = 0 THEN first ELSE turn(i, e[i - 1])
    <3>1. CASE i = k
      BY <3>1
    <3>2. CASE i # k
      BY <2>1, <3>2
    <3> QED
      BY <3>1, <3>2
  <2>3. Runs(k, e)
    BY <2>2
  <2> QED
    BY <2>3
<1> HIDE DEF Runs
<1>4. T = {}
  <2> SUFFICES ASSUME T # {} PROVE FALSE
    OBVIOUS
  <2>1. PICK k \in T : \A j \in T : k <= j
    <3>1. T \in SUBSET Nat
      OBVIOUS
    <3> HIDE DEF T
    <3> QED
      BY <3>1, FirstExists
  <2>2. k # 0
    BY <1>2
  <2>3. k \in 1 .. n /\ k - 1 \in 0 .. n /\ k - 1 \notin T
    BY <2>1, <2>2
  <2> QED
    BY <1>3, <2>1, <2>3
<1>5. Runs(n, done)
  BY <1>4 DEF done
<1>6. done[0] = first /\ \A i \in 1 .. n : done[i] = turn(i, done[i - 1])
  BY <1>5 DEF Runs
<1> QED
  BY <1>1, <1>6 DEF first, turn, CombineTurns

-----------------------------------------------------------------------------
(* A matrix with relations of any pairs *)

\* Every slot that is set is of a pair of features.
Filled(m) == IsMatrix(m) /\ DOMAIN m.slot \subseteq 1 .. RegistrationCount(m.n) - 1

\* Where the second feature lies, seen from the first.
Lead(m, first, second) ==
  IF second > first THEN SlotOf(m, first, second).map
  ELSE Invert(SlotOf(m, first, second).map)

\* What is stored is what is measured, wherever it is not in doubt.
Truthful(m, sample, doubt) ==
  \A f, g \in Features(m) : f > g /\ IsSet(m, f, g) /\ SlotIndex(m, f, g) \notin doubt =>
    SlotOf(m, f, g).map = Measured(sample[f], sample[g])

\* k has the relations of m, with the values they have there or others.
Keeps(m, k) ==
  /\ k.n = m.n /\ k.base = m.base /\ k.reference = m.reference
  /\ k.established = m.established /\ Features(k) = Features(m)
  /\ \A f, g \in Features(m) : IsSet(m, f, g) => IsSet(k, f, g)

\* Keeping is transitive.
LEMMA KeepsTransitive ==
  ASSUME NEW m, NEW k, NEW l, Keeps(m, k), Keeps(k, l)
  PROVE  Keeps(m, l)
BY DEF Keeps

\* A measurement the other way round, and two in a row.
LEMMA MeasuredBack ==
  ASSUME NEW a \in Sample, NEW b \in Sample
  PROVE  Invert(Measured(a, b)) = Measured(b, a)
<1>1. /\ Place[a] \in Transform /\ Place[b] \in Transform
      /\ Invert(Place[a]) \in Transform /\ Invert(Place[b]) \in Transform
  BY PlaceIs, InvertIs
<1> QED
  BY <1>1, InvertCompose, InvertTwice DEF Measured

\* What is measured through a third view.
LEMMA MeasuredChain ==
  ASSUME NEW a \in Sample, NEW b \in Sample, NEW c \in Sample
  PROVE  Compose(Measured(b, c), Measured(a, b)) = Measured(a, c)
<1> DEFINE A == Place[a]
           B == Place[b]
           C == Invert(Place[c])
<1>1. A \in Transform /\ B \in Transform /\ C \in Transform /\ Invert(B) \in Transform
  BY PlaceIs, InvertIs
<1>2. /\ Measured(b, c) = Compose(C, B) /\ Measured(a, b) = Compose(Invert(B), A)
      /\ Measured(a, c) = Compose(C, A)
  BY DEF Measured
<1> HIDE DEF A, B, C
<1>3. Compose(Invert(B), A) \in Transform
  BY <1>1, ComposeIs
<1>4. Compose(Compose(C, B), Compose(Invert(B), A)) = Compose(C, Compose(B, Compose(Invert(B), A)))
  BY <1>1, <1>3, ComposeAssociates
<1>5. Compose(B, Compose(Invert(B), A)) = A
  BY <1>1, Cancels
<1> QED
  BY <1>2, <1>4, <1>5

\* A view lies where it lies.
LEMMA MeasuredHere ==
  ASSUME NEW a \in Sample
  PROVE  Measured(a, a) = Identity
BY PlaceIs, InvertIs, ComposeIdentity DEF Measured

\* The slot of a pair.
LEMMA PairIs ==
  ASSUME NEW m, Filled(m), NEW f \in Features(m), NEW g \in Features(m), f # g
  PROVE  /\ SlotIndex(m, f, g) = SlotAt(f, g) /\ SlotIndex(m, g, f) = SlotAt(f, g)
         /\ SlotAt(f, g) \in 1 .. RegistrationCount(m.n) - 1 /\ SlotAt(f, g) \in Nat
         /\ f \in Nat /\ g \in Nat /\ m.n \in Nat
<1>1. m.n \in Nat /\ Features(m) = 0 .. m.n - 1 /\ Features(m) \subseteq Nat
  BY MatrixIs DEF Filled
<1>2. SlotIndex(m, f, g) = SlotAt(f, g) /\ SlotIndex(m, g, f) = SlotAt(g, f)
  BY SlotIndexIs DEF Filled
<1>3. SlotAt(f, g) \in 1 .. RegistrationCount(m.n) - 1 /\ SlotAt(f, g) = SlotAt(g, f)
  BY <1>1, SlotAtIs
<1>4. RegistrationCount(m.n) \in Nat
  BY <1>1, RowIs
<1> QED
  BY <1>1, <1>2, <1>3, <1>4

\* What is set is a transform.
LEMMA SetIs ==
  ASSUME NEW m, Filled(m), NEW f, NEW g, IsSet(m, f, g)
  PROVE  /\ SlotOf(m, f, g) \in Relation
         /\ SlotOf(m, f, g).map \in Transform /\ Invert(SlotOf(m, f, g).map) \in Transform
         /\ Lead(m, f, g) \in Transform
<1>1. m.slot \in Slots
  BY MatrixIs DEF Filled
<1>2. SlotOf(m, f, g) \in Relation /\ SlotOf(m, f, g).map \in Transform
  BY <1>1, SlotsAre DEF IsSet, SlotOf
<1> QED
  BY <1>2, InvertIs DEF Lead

\* A truthful relation is one in both directions.
LEMMA LeadIs ==
  ASSUME NEW m, Filled(m), NEW sample \in [Features(m) -> Sample], NEW doubt,
         Truthful(m, sample, doubt), NEW f \in Features(m), NEW g \in Features(m), f # g,
         IsSet(m, f, g), SlotIndex(m, f, g) \notin doubt
  PROVE  Lead(m, f, g) = Measured(sample[g], sample[f])
<1>1. f \in Nat /\ g \in Nat /\ SlotIndex(m, f, g) = SlotIndex(m, g, f)
  BY PairIs
<1>2. CASE g > f
  <2>1. IsSet(m, g, f) /\ SlotOf(m, f, g) = SlotOf(m, g, f)
    BY <1>1 DEF IsSet, SlotOf
  <2> QED
    BY <1>1, <1>2, <2>1 DEF Lead, Truthful
<1>3. CASE f > g
  <2>1. SlotOf(m, f, g).map = Measured(sample[f], sample[g])
    BY <1>3 DEF Truthful
  <2>2. sample[f] \in Sample /\ sample[g] \in Sample
    OBVIOUS
  <2> QED
    BY <1>1, <1>3, <2>1, <2>2, MeasuredBack DEF Lead
<1> QED
  BY <1>1, <1>2, <1>3

\* A relation is stored.
LEMMA SetSlotFilled ==
  ASSUME NEW m, Filled(m), NEW f \in Features(m), NEW g \in Features(m), f # g,
         NEW rank \in Nat, NEW map \in Transform
  PROVE  LET k == SetSlot(m, SlotIndex(m, f, g), rank, map) IN
         /\ Filled(k) /\ Keeps(m, k) /\ IsSet(k, f, g) /\ IsSet(k, g, f)
         /\ SlotOf(k, f, g) = [rank |-> rank, map |-> map]
<1> DEFINE k == SetSlot(m, SlotIndex(m, f, g), rank, map)
           cell == [rank |-> rank, map |-> map]
           at == SlotAt(f, g)
           s == With(m.slot, at, cell)
<1>1. /\ SlotIndex(m, f, g) = at /\ SlotIndex(m, g, f) = at
      /\ at \in 1 .. RegistrationCount(m.n) - 1 /\ at \in Nat
  BY PairIs
<1> HIDE DEF at
<1>2. k = [m EXCEPT !.slot = s]
  BY <1>1 DEF SetSlot
<1>3. cell \in Relation
  BY DEF Relation
<1>4. m.slot \in [DOMAIN m.slot -> Relation] /\ DOMAIN m.slot \in SUBSET Nat
  BY MatrixIs, SlotsAre DEF Filled
<1>5. s \in [DOMAIN m.slot \cup {at} -> Relation] /\ s[at] = cell
  BY <1>3, <1>4 DEF With
<1> HIDE DEF s, cell
<1>6. s \in Slots /\ DOMAIN s = DOMAIN m.slot \cup {at}
  BY <1>1, <1>4, <1>5, SlotsAre
<1>7. /\ k \in Matrices /\ k.n = m.n /\ k.base = m.base /\ k.reference = m.reference
      /\ k.established = m.established /\ k.slot = s
  BY <1>2, <1>6 DEF Filled, IsMatrix, Matrices
<1> HIDE DEF k
<1>8. Features(k) = Features(m) /\ \A a, b : SlotIndex(k, a, b) = SlotIndex(m, a, b)
  BY <1>7 DEF Features, SlotIndex
<1>9. Filled(k)
  BY <1>1, <1>6, <1>7, <1>8 DEF Filled, IsMatrix, Rowed
<1>10. Keeps(m, k) /\ IsSet(k, f, g) /\ IsSet(k, g, f)
  BY <1>1, <1>6, <1>7, <1>8 DEF Keeps, IsSet
<1>11. SlotOf(k, f, g) = cell
  BY <1>1, <1>5, <1>7, <1>8 DEF SlotOf
<1> QED
  BY <1>9, <1>10, <1>11 DEF k, cell

\* If what is stored was measured, or composed of what was, or is now in doubt,
\* the matrix stays truthful.
LEMMA SetSlotTruthful ==
  ASSUME NEW m, Filled(m), NEW f \in Features(m), NEW g \in Features(m), f # g,
         NEW rank \in Nat, NEW map \in Transform, NEW sample \in [Features(m) -> Sample],
         NEW doubt, Truthful(m, sample, doubt), NEW doubtful \in BOOLEAN,
         ~doubtful /\ f > g => map = Measured(sample[f], sample[g]),
         ~doubtful /\ g > f => map = Measured(sample[g], sample[f])
  PROVE  Truthful(SetSlot(m, SlotIndex(m, f, g), rank, map), sample,
                  Marked(doubt, SlotIndex(m, f, g), doubtful))
<1> DEFINE k == SetSlot(m, SlotIndex(m, f, g), rank, map)
           cell == [rank |-> rank, map |-> map]
           now == Marked(doubt, SlotAt(f, g), doubtful)
<1>1. /\ k = [m EXCEPT !.slot = With(m.slot, SlotAt(f, g), cell)]
      /\ Marked(doubt, SlotIndex(m, f, g), doubtful) = now
  BY PairIs DEF SetSlot
<1>2. Filled(k) /\ Keeps(m, k)
  BY SetSlotFilled
<1>3. k.slot = With(m.slot, SlotAt(f, g), cell)
  BY <1>1 DEF Filled, IsMatrix, Matrices
<1> HIDE DEF k, now
<1>4. SUFFICES ASSUME NEW a \in Features(m), NEW b \in Features(m), a > b, IsSet(k, a, b),
                      SlotIndex(k, a, b) \notin now
               PROVE  SlotOf(k, a, b).map = Measured(sample[a], sample[b])
  BY <1>1, <1>2 DEF Truthful, Keeps, k
<1>5. /\ a \in Nat /\ b \in Nat /\ a # b /\ f \in Nat /\ g \in Nat
      /\ SlotIndex(m, a, b) = SlotAt(a, b)
  BY <1>4, PairIs
<1>6. SlotIndex(k, a, b) = SlotAt(a, b)
  BY <1>2, <1>5, PairIs DEF Keeps
<1>7. CASE SlotAt(a, b) = SlotAt(f, g)
  <2>1. (a = f /\ b = g) \/ (a = g /\ b = f)
    BY <1>5, <1>7, SlotsApart
  <2>2. SlotOf(k, a, b) = cell
    BY <1>3, <1>6, <1>7 DEF SlotOf, With
  <2>3. ~doubtful
    BY <1>4, <1>6, <1>7 DEF now, Marked
  <2> QED
    BY <1>4, <2>1, <2>2, <2>3
<1>8. CASE SlotAt(a, b) # SlotAt(f, g)
  <2>1. IsSet(m, a, b) /\ SlotOf(k, a, b) = SlotOf(m, a, b)
    BY <1>3, <1>4, <1>5, <1>6, <1>8 DEF IsSet, SlotOf, With
  <2>2. SlotIndex(m, a, b) \notin doubt
    BY <1>4, <1>5, <1>6, <1>8 DEF now, Marked
  <2> QED
    BY <1>4, <2>1, <2>2 DEF Truthful
<1> QED
  BY <1>7, <1>8

-----------------------------------------------------------------------------
(* A transaction, and a view that is placed *)

Overlaps == UNION {[indices -> 0 .. 255] : indices \in SUBSET Nat}

Transactions ==
  [m : Matrices, sample : UNION {[0 .. n - 1 -> Sample] : n \in 1 .. MaxFeatures},
   active : UNION {[0 .. n - 1 -> BOOLEAN] : n \in 1 .. MaxFeatures}, overlap : Overlaps,
   registration : Nat, order : Nat, doubt : SUBSET Nat]

\* The graph of a transaction: it has a reference or no view is active, and
\* what it stores is true where it is not in doubt.
WellMade(tx) ==
  /\ tx \in Transactions /\ Filled(tx.m)
  /\ tx.sample \in [Features(tx.m) -> Sample] /\ tx.active \in [Features(tx.m) -> BOOLEAN]
  /\ tx.registration = RegistrationCount(tx.m.n)
  /\ tx.m.established => tx.m.reference \in Features(tx.m) /\ tx.active[tx.m.reference]
  /\ ~tx.m.established => tx.m.reference = NoReference /\ \A f \in Features(tx.m) : ~tx.active[f]
  /\ tx.doubt \subseteq DOMAIN tx.m.slot /\ Truthful(tx.m, tx.sample, tx.doubt)

\* Every active view has a relation with the reference.
Placeable(tx) ==
  \A f \in Features(tx.m) : tx.active[f] =>
    f = tx.m.reference \/ IsSet(tx.m, f, tx.m.reference)

Proper(tx) == WellMade(tx) /\ Placeable(tx)

\* u has the views, the relations and the active views of tx, and perhaps more.
Grown(tx, u) ==
  /\ Keeps(tx.m, u.m) /\ u.sample = tx.sample
  /\ u.registration = tx.registration /\ u.order = tx.order
  /\ \A f \in Features(tx.m) : tx.active[f] => u.active[f]

\* Growing is transitive.
LEMMA GrownTransitive ==
  ASSUME NEW tx, NEW u, NEW v, Grown(tx, u), Grown(u, v)
  PROVE  Grown(tx, v)
BY KeepsTransitive DEF Grown, Keeps

\* Nothing grows.
LEMMA GrownSame ==
  ASSUME NEW tx
  PROVE  Grown(tx, tx)
BY DEF Grown, Keeps

\* The fields of a transaction.
LEMMA TransactionIs ==
  ASSUME NEW tx, WellMade(tx)
  PROVE  /\ tx \in Transactions /\ Filled(tx.m) /\ IsMatrix(tx.m) /\ tx.m.n \in 1 .. MaxFeatures
         /\ tx.m.n \in Nat /\ tx.m.slot \in Slots /\ Features(tx.m) = 0 .. tx.m.n - 1
         /\ Features(tx.m) \subseteq Nat /\ tx.m.established \in BOOLEAN /\ tx.m.reference \in Int
         /\ tx.sample \in [Features(tx.m) -> Sample]
         /\ tx.active \in [Features(tx.m) -> BOOLEAN] /\ tx.doubt \in SUBSET Nat
         /\ tx.overlap \in Overlaps /\ tx.registration \in Nat /\ tx.order \in Nat
<1>1. Filled(tx.m) /\ IsMatrix(tx.m) /\ tx \in Transactions
  BY DEF WellMade, Filled
<1>2. /\ tx.doubt \in SUBSET Nat /\ tx.overlap \in Overlaps
      /\ tx.registration \in Nat /\ tx.order \in Nat
  BY <1>1 DEF Transactions
<1> QED
  BY <1>1, <1>2, MatrixIs DEF WellMade

\* The values of the views' flags.
LEMMA ActiveIs ==
  ASSUME NEW m \in Matrices, NEW active \in [Features(m) -> BOOLEAN]
  PROVE  active \in UNION {[0 .. n - 1 -> BOOLEAN] : n \in 1 .. MaxFeatures}
<1>1. m.n \in 1 .. MaxFeatures
  BY DEF Matrices
<1> QED
  BY <1>1 DEF Features

\* A view with a relation to the reference.
Laid(tx, f, rank, toReference, doubtful) ==
  LET map == IF f > tx.m.reference THEN toReference ELSE Invert(toReference)
      k == SetSlot(tx.m, SlotIndex(tx.m, f, tx.m.reference), rank, map)
  IN [tx EXCEPT !.m = k, !.active = [tx.active EXCEPT ![f] = TRUE],
                !.doubt = Marked(tx.doubt, SlotIndex(tx.m, f, tx.m.reference), doubtful)]

\* u is tx with the view f placed, in doubt or not; of the others nothing changes.
Gives(tx, u, f, doubtful) ==
  /\ Proper(u) /\ Grown(tx, u) /\ u.active[f]
  /\ Doubtful(u, f, tx.m.reference) <=> doubtful
  /\ \A g \in Features(tx.m) : g # f =>
       (Doubtful(u, g, tx.m.reference) <=> Doubtful(tx, g, tx.m.reference))

\* A view that is placed where it lies, or in doubt.
LEMMA LaidProper ==
  ASSUME NEW tx, Proper(tx), tx.m.established, NEW f \in Features(tx.m), f # tx.m.reference,
         NEW rank \in Nat, NEW toReference \in Transform, NEW doubtful \in BOOLEAN,
         ~doubtful => toReference = Measured(tx.sample[f], tx.sample[tx.m.reference])
  PROVE  Gives(tx, Laid(tx, f, rank, toReference, doubtful), f, doubtful)
<1> DEFINE r == tx.m.reference
           map == IF f > r THEN toReference ELSE Invert(toReference)
           at == SlotIndex(tx.m, f, r)
           k == SetSlot(tx.m, at, rank, map)
           a == [tx.active EXCEPT ![f] = TRUE]
           now == Marked(tx.doubt, at, doubtful)
           u == [tx EXCEPT !.m = k, !.active = a, !.doubt = now]
<1>1. WellMade(tx) /\ Placeable(tx) /\ r \in Features(tx.m) /\ f # r
  BY DEF Proper, WellMade
<1>2. map \in Transform
  BY InvertIs
<1>3. /\ Filled(k) /\ Keeps(tx.m, k) /\ IsSet(k, f, r) /\ k \in Matrices
      /\ Features(k) = Features(tx.m)
  <2> HIDE DEF r, map, k
  <2>1. Filled(tx.m)
    BY <1>1, TransactionIs
  <2>2. Filled(k) /\ Keeps(tx.m, k) /\ IsSet(k, f, r)
    BY <1>1, <1>2, <2>1, SetSlotFilled DEF k, at
  <2> QED
    BY <2>2 DEF Filled, IsMatrix, Keeps
<1>4. Truthful(k, tx.sample, now)
  <2>1. /\ Filled(tx.m) /\ tx.sample \in [Features(tx.m) -> Sample]
        /\ Truthful(tx.m, tx.sample, tx.doubt) /\ f \in Nat /\ r \in Nat
    BY <1>1, TransactionIs DEF WellMade
  <2>2. tx.sample[f] \in Sample /\ tx.sample[r] \in Sample
    BY <1>1, <2>1
  <2>3. ~doubtful /\ f > r => map = Measured(tx.sample[f], tx.sample[r])
    OBVIOUS
  <2>4. ~doubtful /\ r > f => map = Measured(tx.sample[r], tx.sample[f])
    BY <2>1, <2>2, MeasuredBack
  <2> HIDE DEF r, map
  <2> QED
    BY <1>1, <1>2, <2>1, <2>3, <2>4, SetSlotTruthful
<1>5. Laid(tx, f, rank, toReference, doubtful) = u
  BY DEF Laid
<1>6. /\ a \in [Features(tx.m) -> BOOLEAN] /\ a[f]
      /\ \A g \in Features(tx.m) : g # f => a[g] = tx.active[g]
  BY <1>1, TransactionIs
<1>7. DOMAIN k.slot = DOMAIN tx.m.slot \cup {at}
  <2>1. tx.m \in Matrices
    BY <1>1, TransactionIs DEF IsMatrix
  <2> HIDE DEF at, map
  <2> QED
    BY <2>1 DEF SetSlot, With, Matrices
<1>8. at \in Nat /\ now \in SUBSET Nat /\ now \subseteq DOMAIN k.slot
  <2>1. at \in Nat
    <3>1. Filled(tx.m)
      BY <1>1, TransactionIs
    <3> QED
      BY <1>1, <3>1, PairIs
  <2>2. tx.doubt \subseteq DOMAIN tx.m.slot /\ tx.doubt \in SUBSET Nat
    BY <1>1, TransactionIs DEF WellMade
  <2> HIDE DEF at, k
  <2> QED
    BY <1>7, <2>1, <2>2 DEF Marked
<1>9. at \in now <=> doubtful
  BY DEF Marked
<1>10. ASSUME NEW g \in Features(tx.m), g # f, g # r
       PROVE  SlotIndex(tx.m, g, r) \in now <=> SlotIndex(tx.m, g, r) \in tx.doubt
  <2>1. Filled(tx.m) /\ f \in Nat /\ g \in Nat /\ r \in Nat
    BY <1>1, TransactionIs
  <2>2. at = SlotAt(f, r) /\ SlotIndex(tx.m, g, r) = SlotAt(g, r)
    BY <1>1, <1>10, <2>1, PairIs
  <2>3. SlotAt(g, r) # SlotAt(f, r)
    BY <1>1, <1>10, <2>1, SlotsApart
  <2> HIDE DEF at, r
  <2> QED
    BY <2>2, <2>3 DEF Marked
<1> HIDE DEF k, a, map, now, at
<1>11. /\ u \in Transactions /\ u.m = k /\ u.active = a /\ u.doubt = now
       /\ u.sample = tx.sample /\ u.registration = tx.registration
       /\ u.order = tx.order
  <2>1. a \in UNION {[0 .. n - 1 -> BOOLEAN] : n \in 1 .. MaxFeatures}
    BY <1>3, <1>6, ActiveIs
  <2>2. tx \in Transactions
    BY <1>1 DEF WellMade
  <2> QED
    BY <1>3, <1>8, <2>1, <2>2 DEF Transactions
<1> HIDE DEF u
<1>12. /\ k.n = tx.m.n /\ k.established = tx.m.established /\ k.reference = r
       /\ k.base = tx.m.base
  BY <1>3 DEF Keeps
<1>13. WellMade(u)
  BY <1>1, <1>3, <1>4, <1>6, <1>8, <1>11, <1>12 DEF WellMade
<1>14. Placeable(u)
  BY <1>1, <1>3, <1>6, <1>11, <1>12 DEF Placeable, Keeps
<1>15. Grown(tx, u)
  BY <1>1, <1>3, <1>6, <1>11, <1>12 DEF Grown
<1>16. \A g, h : SlotIndex(u.m, g, h) = SlotIndex(tx.m, g, h)
  BY <1>11, <1>12 DEF SlotIndex
<1>17. Doubtful(u, f, r) <=> doubtful
  BY <1>1, <1>9, <1>11, <1>16 DEF Doubtful, at
<1>18. ASSUME NEW g \in Features(tx.m), g # f
       PROVE  Doubtful(u, g, r) <=> Doubtful(tx, g, r)
  BY <1>10, <1>11, <1>16, <1>18 DEF Doubtful
<1> QED
  BY <1>5, <1>6, <1>11, <1>13, <1>14, <1>15, <1>17, <1>18 DEF Proper, Gives

\* The same without a rank.
LEMMA PlacedProper ==
  ASSUME NEW tx, Proper(tx), tx.m.established, NEW f \in Features(tx.m), f # tx.m.reference,
         NEW toReference \in Transform, NEW doubtful \in BOOLEAN,
         ~doubtful => toReference = Measured(tx.sample[f], tx.sample[tx.m.reference])
  PROVE  Gives(tx, Placed(tx, f, toReference, doubtful), f, doubtful)
<1>1. tx \in Transactions
  BY DEF Proper, WellMade
<1>2. Placed(tx, f, toReference, doubtful) = Laid(tx, f, 0, toReference, doubtful)
  BY <1>1 DEF Placed, StoreReference, Laid, Transactions
<1> QED
  BY <1>2, LaidProper

-----------------------------------------------------------------------------
(* Propagation *)

\* What holds at first and in the turn after every one in which it holds,
\* holds in every turn.
LEMMA TurnByTurn ==
  ASSUME NEW n \in Nat, NEW S, 0 \in S, \A i \in 1 .. n : i - 1 \in S => i \in S
  PROVE  \A i \in 0 .. n : i \in S
<1> DEFINE T == {i \in 0 .. n : i \notin S}
<1>1. T \in SUBSET Nat
  OBVIOUS
<1>2. T = {}
  <2> SUFFICES ASSUME T # {} PROVE FALSE
    OBVIOUS
  <2>1. PICK i \in T : \A j \in T : i <= j
    <3> HIDE DEF T
    <3> QED
      BY <1>1, FirstExists
  <2>2. i \in 1 .. n /\ i - 1 \in 0 .. n /\ i - 1 \notin T
    BY <2>1
  <2> QED
    BY <2>1, <2>2
<1> QED
  BY <1>2

\* The last of some positions.
LEMMA LastExists ==
  ASSUME NEW n \in Nat, NEW T \in SUBSET (1 .. n), T # {}
  PROVE  \E p \in T : \A q \in T : q <= p
<1> DEFINE R == {n - p : p \in T}
<1>1. R \in SUBSET Nat /\ R # {}
  <2>1. \A p \in T : n - p \in Nat
    OBVIOUS
  <2> QED
    BY <2>1
<1>2. PICK r \in R : \A s \in R : r <= s
  <2> HIDE DEF R
  <2> QED
    BY <1>1, FirstExists
<1>3. PICK p \in T : r = n - p
  BY <1>2
<1>4. ASSUME NEW q \in T PROVE q <= p
  <2>1. n - q \in R
    OBVIOUS
  <2> QED
    BY SMTT(30), <1>2, <1>3, <2>1
<1> QED
  BY <1>4

\* A route is a transform; the route from the pivot itself is what is stored.
LEMMA RouteIs ==
  ASSUME NEW tx, Filled(tx.m), NEW list, NEW position \in Nat \ {0}, NEW candidate,
         IsSet(tx.m, candidate, list[position])
  PROVE  /\ RouteFrom(tx, list, position, candidate) \in Transform
         /\ position = 1 => RouteFrom(tx, list, position, candidate)
                              = SlotOf(tx.m, candidate, list[1]).map
<1> DEFINE n == position - 1
           route == RouteFrom(tx, list, position, candidate)
<1>1. n \in Nat /\ n = position - 1 /\ RouteFrom(tx, list, position, candidate) = route
  OBVIOUS
<1> HIDE DEF n, route
<1>2. PICK d : /\ RouteFrom(tx, list, position, candidate) = d[n].path
               /\ d[0] = [path |-> SlotOf(tx.m, candidate, list[position]).map,
                          child |-> position]
               /\ \A i \in 1 .. n : d[i] = Hop(tx, list, d[i - 1], position - i)
  BY <1>1, RouteUnfolds
<1> DEFINE S == {i \in 0 .. n : d[i].path \in Transform}
<1>3. 0 \in S
  BY <1>1, <1>2, SetIs
<1>4. ASSUME NEW i \in 1 .. n, i - 1 \in S
      PROVE  i \in S
  <2> DEFINE c == d[i - 1].child
             w == position - i
  <2>1. d[i] = Hop(tx, list, d[i - 1], w) /\ d[i - 1].path \in Transform
    BY <1>2, <1>4
  <2>2. CASE IsSet(tx.m, list[w], list[c])
    <3>1. d[i].path = Compose(SlotOf(tx.m, list[w], list[c]).map, d[i - 1].path)
      BY <2>1, <2>2 DEF Hop
    <3>2. SlotOf(tx.m, list[w], list[c]).map \in Transform
      BY <2>2, SetIs
    <3> QED
      BY <1>1, <2>1, <3>1, <3>2, ComposeIs
  <2>3. CASE ~IsSet(tx.m, list[w], list[c])
    BY <1>1, <2>1, <2>3 DEF Hop
  <2> QED
    BY <2>2, <2>3
<1>5. n \in S
  <2> HIDE DEF S
  <2> QED
    BY <1>1, <1>3, <1>4, TurnByTurn
<1>6. position = 1 => n = 0
  BY DEF n
<1> QED
  BY <1>2, <1>5, <1>6

\* A pair has one slot, whichever is named first.
LEMMA PairTurns ==
  ASSUME NEW m, Filled(m), NEW f \in Features(m), NEW g \in Features(m), f # g
  PROVE  /\ IsSet(m, f, g) <=> IsSet(m, g, f)
         /\ SlotOf(m, f, g) = SlotOf(m, g, f)
BY PairIs DEF IsSet, SlotOf

\* The pivot lies where toReference says, unless its placement is in doubt.
Leads(tx, pivot, toReference) ==
  /\ tx.m.established /\ pivot \in Features(tx.m) /\ toReference \in Transform
  /\ ~Doubtful(tx, pivot, tx.m.reference) =>
       toReference = Measured(tx.sample[pivot], tx.sample[tx.m.reference])

\* The worklist of a propagation.
Spreads(s, tx, pivot, toReference) ==
  /\ Proper(s.tx) /\ Grown(tx, s.tx) /\ Leads(s.tx, pivot, toReference)
  /\ s.work \in Seq(Features(tx.m)) /\ Len(s.work) >= 1 /\ s.work[1] = pivot

\* It still lies there when another view was placed.
LEMMA LeadsOn ==
  ASSUME NEW tx, NEW u, NEW f, NEW doubtful, Gives(tx, u, f, doubtful),
         NEW pivot, pivot # f, NEW toReference, Leads(tx, pivot, toReference)
  PROVE  Leads(u, pivot, toReference)
BY DEF Leads, Gives, Grown, Keeps

\* What is in doubt is so or not.
LEMMA DoubtIs ==
  ASSUME NEW tx, NEW f, NEW g
  PROVE  DoubtfulThrough(tx, f, g) \in BOOLEAN /\ Doubtful(tx, f, g) \in BOOLEAN
BY DEF DoubtfulThrough, Doubtful

\* What is measured between two views, unless it is in doubt.
LEMMA MeasuredSlot ==
  ASSUME NEW tx, WellMade(tx), NEW f \in Features(tx.m), NEW g \in Features(tx.m), f > g,
         IsSet(tx.m, f, g), ~Doubtful(tx, f, g) \/ ~Doubtful(tx, g, f)
  PROVE  /\ SlotOf(tx.m, f, g).map = Measured(tx.sample[f], tx.sample[g])
         /\ SlotOf(tx.m, g, f) = SlotOf(tx.m, f, g)
<1>1. Filled(tx.m) /\ f \in Nat /\ g \in Nat /\ Truthful(tx.m, tx.sample, tx.doubt)
  BY TransactionIs DEF WellMade
<1>2. f # g /\ SlotIndex(tx.m, f, g) = SlotIndex(tx.m, g, f)
  BY <1>1, PairIs
<1>3. SlotIndex(tx.m, f, g) \notin tx.doubt
  BY <1>2 DEF Doubtful
<1> QED
  BY <1>1, <1>2, <1>3 DEF Truthful, SlotOf

\* An earlier view.
LEMMA LowerSpreads ==
  ASSUME NEW tx, NEW pivot, NEW toReference,
         NEW s, Spreads(s, tx, pivot, toReference), NEW f \in 0 .. pivot - 1
  PROVE  Spreads(LowerCandidate(s, f, toReference), tx, pivot, toReference)
<1> DEFINE near == {p \in DOMAIN s.work : Overlapping(s.tx, f, s.work[p])}
           at == CHOOSE p \in near : \A q \in near : q <= p
           path == RouteFrom(s.tx, s.work, at, f)
           to == Compose(toReference, Invert(path))
           doubtful == at # 1 \/ DoubtfulThrough(s.tx, f, s.work[1])
           u == Placed(s.tx, f, to, doubtful)
<1>1. CASE s.tx.active[f] \/ near = {}
  BY <1>1 DEF LowerCandidate
<1>2. CASE ~(s.tx.active[f] \/ near = {})
  <2>1. /\ LowerCandidate(s, f, toReference).tx = u
        /\ LowerCandidate(s, f, toReference).work = Append(s.work, f)
    BY <1>2 DEF LowerCandidate
  <2>2. /\ Proper(s.tx) /\ WellMade(s.tx) /\ s.tx.m.established /\ Features(s.tx.m) = Features(tx.m)
        /\ s.work \in Seq(Features(tx.m)) /\ Len(s.work) \in Nat /\ Len(s.work) >= 1
        /\ s.work[1] = pivot /\ pivot \in Features(tx.m) /\ Grown(tx, s.tx)
        /\ DOMAIN s.work = 1 .. Len(s.work)
        /\ Leads(s.tx, pivot, toReference)
    <3>1. /\ Proper(s.tx) /\ WellMade(s.tx) /\ s.tx.m.established
          /\ Features(s.tx.m) = Features(tx.m) /\ pivot \in Features(s.tx.m)
          /\ Grown(tx, s.tx) /\ Leads(s.tx, pivot, toReference)
      BY DEF Spreads, Leads, Proper, Grown, Keeps
    <3>2. s.work \in Seq(Features(tx.m)) /\ Len(s.work) >= 1 /\ s.work[1] = pivot
      BY DEF Spreads
    <3> QED
      BY <3>1, <3>2
  <2>3. /\ Filled(s.tx.m) /\ s.tx.m.n \in Nat /\ Features(s.tx.m) = 0 .. s.tx.m.n - 1
        /\ s.tx.sample \in [Features(s.tx.m) -> Sample]
        /\ s.tx.m.reference \in Features(s.tx.m) /\ s.tx.active[s.tx.m.reference]
    BY <2>2, TransactionIs DEF WellMade
  <2>4. f \in Features(s.tx.m) /\ f # s.tx.m.reference /\ pivot \in Nat /\ f < pivot
    BY SMTT(30), <1>2, <2>2, <2>3
  <2>5. at \in near /\ at \in 1 .. Len(s.work)
    <3>1. near \in SUBSET (1 .. Len(s.work)) /\ near # {}
      BY <1>2, <2>2
    <3> HIDE DEF near
    <3> QED
      BY <2>2, <3>1, LastExists
  <2>6. IsSet(s.tx.m, f, s.work[at])
    BY <2>5 DEF Overlapping
  <2> HIDE DEF at
  <2>7. path \in Transform /\ (at = 1 => path = SlotOf(s.tx.m, f, pivot).map)
    <3>1. at \in Nat \ {0} /\ Filled(s.tx.m)
      BY SMTT(30), <2>2, <2>3, <2>5
    <3>2. path \in Transform /\ (at = 1 => path = SlotOf(s.tx.m, f, s.work[1]).map)
      BY <2>6, <3>1, RouteIs
    <3> QED
      BY <2>2, <3>2
  <2>8. to \in Transform
    BY <2>2, <2>7, InvertIs, ComposeIs DEF Leads
  <2>9. ASSUME ~doubtful
        PROVE  to = Measured(s.tx.sample[f], s.tx.sample[s.tx.m.reference])
    <3>1. /\ at = 1 /\ ~Doubtful(s.tx, f, pivot) /\ ~Doubtful(s.tx, pivot, s.tx.m.reference)
          /\ IsSet(s.tx.m, f, pivot)
      BY <2>2, <2>6, <2>9 DEF DoubtfulThrough
    <3>2. IsSet(s.tx.m, pivot, f)
      BY <2>2, <2>3, <2>4, <3>1, PairTurns
    <3>3. path = Measured(s.tx.sample[pivot], s.tx.sample[f])
      BY <2>2, <2>4, <2>7, <3>1, <3>2, MeasuredSlot
    <3>4. /\ s.tx.sample[pivot] \in Sample /\ s.tx.sample[f] \in Sample
          /\ s.tx.sample[s.tx.m.reference] \in Sample
      BY <2>2, <2>3, <2>4
    <3>5. Invert(path) = Measured(s.tx.sample[f], s.tx.sample[pivot])
      BY <3>3, <3>4, MeasuredBack
    <3>6. toReference = Measured(s.tx.sample[pivot], s.tx.sample[s.tx.m.reference])
      BY <2>2, <3>1 DEF Leads
    <3> QED
      BY <3>4, <3>5, <3>6, MeasuredChain
  <2> HIDE DEF to
  <2>10. doubtful \in BOOLEAN
    BY DoubtIs
  <2> HIDE DEF doubtful
  <2>11. Gives(s.tx, u, f, doubtful)
    BY <2>2, <2>4, <2>8, <2>9, <2>10, PlacedProper
  <2>12. Append(s.work, f) \in Seq(Features(tx.m)) /\ Len(Append(s.work, f)) >= 1
         /\ Append(s.work, f)[1] = pivot
    BY <2>2, <2>4
  <2> HIDE DEF u
  <2>13. Leads(u, pivot, toReference) /\ Proper(u) /\ Grown(s.tx, u)
    BY SMTT(30), <2>2, <2>4, <2>11, LeadsOn DEF Gives
  <2> QED
    BY <2>1, <2>2, <2>12, <2>13, GrownTransitive DEF Spreads
<1> QED
  BY <1>1, <1>2

\* The earlier views.
LEMMA PropagateLowerProper ==
  ASSUME NEW tx, Proper(tx), NEW pivot, NEW toReference, Leads(tx, pivot, toReference)
  PROVE  LET u == PropagateLower(tx, pivot, toReference) IN
         Proper(u) /\ Grown(tx, u) /\ Leads(u, pivot, toReference)
<1>1. pivot \in Features(tx.m) /\ pivot \in Nat
  BY TransactionIs DEF Leads, Proper
<1>2. PICK d : /\ PropagateLower(tx, pivot, toReference) = d[pivot].tx
               /\ d[0] = [tx |-> tx, work |-> <<pivot>>]
               /\ \A i \in 1 .. pivot : d[i] = LowerCandidate(d[i - 1], pivot - i, toReference)
  BY <1>1, LowerUnfolds
<1> DEFINE S == {i \in 0 .. pivot : Spreads(d[i], tx, pivot, toReference)}
<1>3. 0 \in S
  <2>1. <<pivot>> \in Seq(Features(tx.m)) /\ Len(<<pivot>>) >= 1 /\ <<pivot>>[1] = pivot
    BY <1>1
  <2>2. d[0].tx = tx /\ d[0].work = <<pivot>>
    BY <1>2
  <2>3. Spreads(d[0], tx, pivot, toReference)
    BY <2>1, <2>2, GrownSame DEF Spreads
  <2> QED
    BY <1>1, <2>3
<1>4. ASSUME NEW i \in 1 .. pivot, i - 1 \in S
      PROVE  i \in S
  <2>1. pivot - i \in 0 .. pivot - 1
    BY <1>1
  <2> QED
    BY <1>1, <1>2, <1>4, <2>1, LowerSpreads
<1>5. pivot \in S
  <2> HIDE DEF S
  <2> QED
    BY <1>1, <1>3, <1>4, TurnByTurn
<1> QED
  BY <1>2, <1>5 DEF Spreads

\* A later view.
LEMMA HigherProper ==
  ASSUME NEW tx, Proper(tx), NEW pivot, NEW toReference, Leads(tx, pivot, toReference),
         NEW f \in Features(tx.m), f > pivot
  PROVE  LET u == HigherCandidate(tx, f, pivot, toReference) IN
         Proper(u) /\ Grown(tx, u) /\ Leads(u, pivot, toReference)
<1>1. CASE tx.active[f] \/ ~Overlapping(tx, f, pivot)
  BY <1>1, GrownSame DEF HigherCandidate
<1>2. CASE ~(tx.active[f] \/ ~Overlapping(tx, f, pivot))
  <2> DEFINE map == SlotOf(tx.m, f, pivot).map
             to == Compose(toReference, map)
             doubtful == DoubtfulThrough(tx, f, pivot)
             u == Placed(tx, f, to, doubtful)
  <2>1. HigherCandidate(tx, f, pivot, toReference) = u
    BY <1>2 DEF HigherCandidate
  <2>2. /\ WellMade(tx) /\ tx.m.established /\ pivot \in Features(tx.m)
        /\ Filled(tx.m) /\ tx.m.n \in Nat /\ Features(tx.m) = 0 .. tx.m.n - 1
        /\ tx.sample \in [Features(tx.m) -> Sample]
        /\ tx.m.reference \in Features(tx.m) /\ tx.active[tx.m.reference]
    BY TransactionIs DEF WellMade, Proper, Leads
  <2>3. f # tx.m.reference /\ IsSet(tx.m, f, pivot)
    BY <1>2, <2>2 DEF Overlapping
  <2>4. map \in Transform
    BY <2>2, <2>3, SetIs
  <2>5. to \in Transform
    BY <2>4, ComposeIs DEF Leads
  <2>6. ASSUME ~doubtful
        PROVE  to = Measured(tx.sample[f], tx.sample[tx.m.reference])
    <3>1. ~Doubtful(tx, f, pivot) /\ ~Doubtful(tx, pivot, tx.m.reference)
      BY <2>6 DEF DoubtfulThrough
    <3>2. map = Measured(tx.sample[f], tx.sample[pivot])
      BY <2>2, <2>3, <3>1, MeasuredSlot
    <3>3. /\ tx.sample[f] \in Sample /\ tx.sample[pivot] \in Sample
          /\ tx.sample[tx.m.reference] \in Sample
      BY <2>2
    <3>4. toReference = Measured(tx.sample[pivot], tx.sample[tx.m.reference])
      BY <3>1 DEF Leads
    <3> QED
      BY <3>2, <3>3, <3>4, MeasuredChain
  <2>7. doubtful \in BOOLEAN
    BY DoubtIs
  <2> HIDE DEF to, doubtful
  <2>8. Gives(tx, u, f, doubtful)
    BY <2>2, <2>3, <2>5, <2>6, <2>7, PlacedProper
  <2> HIDE DEF u
  <2>9. pivot # f
    BY <2>2
  <2>10. Leads(u, pivot, toReference)
    BY <2>8, <2>9, LeadsOn
  <2> QED
    BY <2>1, <2>8, <2>10 DEF Gives
<1> QED
  BY <1>1, <1>2

\* The later views.
LEMMA PropagateHigherProper ==
  ASSUME NEW tx, Proper(tx), NEW pivot, NEW toReference, Leads(tx, pivot, toReference),
         NEW current \in Features(tx.m), pivot < current
  PROVE  LET u == PropagateHigher(tx, pivot, current, toReference) IN Proper(u) /\ Grown(tx, u)
<1> DEFINE n == current - pivot - 1
<1>1. /\ pivot \in Nat /\ current \in Nat /\ n \in Nat
      /\ Features(tx.m) = 0 .. tx.m.n - 1 /\ tx.m.n \in Nat
  BY SMTT(30), TransactionIs DEF Leads, Proper
<1>n. n = current - pivot - 1
  OBVIOUS
<1> HIDE DEF n
<1>2. PICK d : /\ PropagateHigher(tx, pivot, current, toReference) = d[n]
               /\ HigherTurns(d, n, tx, pivot, toReference)
    <2>1. n \in Nat /\ n = current - pivot - 1
    BY <1>1, <1>n
  <2> QED
    BY <2>1, HigherUnfolds
<1> DEFINE S == {i \in 0 .. n : Proper(d[i]) /\ Grown(tx, d[i]) /\ Leads(d[i], pivot, toReference)}
<1>3. 0 \in S
  BY <1>1, <1>2, GrownSame DEF HigherTurns
<1>4. ASSUME NEW i \in 1 .. n, i - 1 \in S
      PROVE  i \in S
  <2>1. pivot + i \in Features(tx.m) /\ pivot + i > pivot
    BY <1>1, <1>n
  <2>2. Proper(d[i - 1]) /\ Grown(tx, d[i - 1]) /\ Leads(d[i - 1], pivot, toReference)
    BY <1>4
  <2>3. Features(d[i - 1].m) = Features(tx.m)
    BY <2>2 DEF Grown, Keeps
  <2>4. Proper(d[i]) /\ Grown(d[i - 1], d[i]) /\ Leads(d[i], pivot, toReference)
    <3>1. d[i] = HigherCandidate(d[i - 1], pivot + i, pivot, toReference)
      BY <1>2 DEF HigherTurns
    <3> QED
      BY <2>1, <2>2, <2>3, <3>1, HigherProper
  <2> QED
    BY <2>2, <2>4, GrownTransitive
<1>5. n \in S
  <2> HIDE DEF S
  <2> QED
    <3>1. \A i \in 1 .. n : i - 1 \in S => i \in S
      BY <1>4
    <3>2. \A i \in 0 .. n : i \in S
      BY <1>1, <1>3, <3>1, TurnByTurn
    <3> QED
      BY <1>1, <3>2
<1> QED
  BY <1>2, <1>5

-----------------------------------------------------------------------------
(* Bridging *)

\* An active view leads to the reference.
LEMMA ActiveLeads ==
  ASSUME NEW tx, Proper(tx), tx.m.established, NEW f \in Features(tx.m), tx.active[f]
  PROVE  Leads(tx, f, FeatureToReference(tx.m, f))
<1> DEFINE m == tx.m
           r == tx.m.reference
<1>1. /\ Filled(m) /\ Features(m) \subseteq Nat /\ tx.sample \in [Features(m) -> Sample]
      /\ r \in Features(m) /\ Truthful(m, tx.sample, tx.doubt)
      /\ (f = r \/ IsSet(m, f, r))
  BY TransactionIs DEF Proper, WellMade, Placeable
<1>2. f \in Nat /\ r \in Nat /\ tx.sample[f] \in Sample /\ tx.sample[r] \in Sample
  BY <1>1
<1>3. CASE f = r
  <2>1. FeatureToReference(m, f) = Identity
    BY <1>2, <1>3 DEF FeatureToReference
  <2> QED
    BY <1>2, <1>3, <2>1, IdentityIs, MeasuredHere DEF Leads
<1>4. CASE f # r
  <2>1. /\ IsSet(m, r, f) /\ SlotOf(m, f, r) = SlotOf(m, r, f)
        /\ SlotIndex(m, f, r) = SlotIndex(m, r, f)
    BY <1>1, <1>4, PairTurns, PairIs
  <2>2. FeatureToReference(m, f) = Lead(m, r, f)
    BY <1>2, <1>4, <2>1 DEF FeatureToReference, Lead
  <2>3. Lead(m, r, f) \in Transform
    BY <1>1, <2>1, SetIs
  <2>4. ASSUME ~Doubtful(tx, f, r)
        PROVE  Lead(m, r, f) = Measured(tx.sample[f], tx.sample[r])
    <3>1. SlotIndex(m, r, f) \notin tx.doubt
      BY <1>4, <2>1, <2>4 DEF Doubtful
    <3> QED
      BY <1>1, <1>4, <2>1, <3>1, LeadIs
  <2> QED
    BY <2>2, <2>3, <2>4 DEF Leads
<1> QED
  BY <1>3, <1>4

\* The parts of a bridge: the pivot is placed, and what follows leads from it.
BridgeTo(tx, current, pivot) ==
  Compose(FeatureToReference(tx.m, current), Invert(SlotOf(tx.m, current, pivot).map))

Landed(tx, current, pivot) ==
  Placed(tx, pivot, BridgeTo(tx, current, pivot), DoubtfulThrough(tx, pivot, current))

\* A bridge, by its parts.
LEMMA BridgeIs ==
  ASSUME NEW tx, Proper(tx), tx.m.established, NEW current \in Features(tx.m),
         tx.active[current], NEW pivot \in Features(tx.m), pivot < current,
         pivot # tx.m.reference, IsSet(tx.m, current, pivot)
  PROVE  LET to == BridgeTo(tx, current, pivot)
             v == Landed(tx, current, pivot)
             w == PropagateLower(v, pivot, to) IN
         /\ BridgeFeature(tx, current, pivot) = PropagateHigher(w, pivot, current, to)
         /\ Proper(v) /\ Grown(tx, v) /\ Leads(v, pivot, to)
         /\ Proper(w) /\ Grown(v, w) /\ Leads(w, pivot, to)
<1> DEFINE m == tx.m
           r == tx.m.reference
           map == SlotOf(m, current, pivot).map
           to == BridgeTo(tx, current, pivot)
           doubtful == DoubtfulThrough(tx, pivot, current)
           v == Landed(tx, current, pivot)
           w == PropagateLower(v, pivot, to)
<1>1. /\ WellMade(tx) /\ Filled(m) /\ Features(m) \subseteq Nat
      /\ tx.sample \in [Features(m) -> Sample] /\ r \in Features(m)
  BY TransactionIs DEF Proper, WellMade
<1>2. map \in Transform /\ Invert(map) \in Transform
  BY <1>1, SetIs
<1>3. Leads(tx, current, FeatureToReference(m, current))
  BY ActiveLeads
<1>4. to \in Transform
  BY <1>2, <1>3, ComposeIs DEF Leads, BridgeTo
<1>5. ASSUME ~doubtful
      PROVE  to = Measured(tx.sample[pivot], tx.sample[r])
  <2>1. tx.sample[pivot] \in Sample /\ tx.sample[current] \in Sample /\ tx.sample[r] \in Sample
    BY <1>1
  <2>2. ~Doubtful(tx, pivot, current) /\ ~Doubtful(tx, current, r)
    BY <1>5 DEF DoubtfulThrough
  <2>3. map = Measured(tx.sample[current], tx.sample[pivot])
    BY <1>1, <2>2, MeasuredSlot
  <2>4. Invert(map) = Measured(tx.sample[pivot], tx.sample[current])
    BY <2>1, <2>3, MeasuredBack
  <2> QED
    BY <1>3, <2>1, <2>2, <2>4, MeasuredChain DEF Leads, BridgeTo
<1>6. BridgeFeature(tx, current, pivot) = PropagateHigher(w, pivot, current, to)
  BY DEF BridgeFeature, BridgeTo, Landed
<1>7. doubtful \in BOOLEAN /\ v = Placed(tx, pivot, to, doubtful)
  BY DoubtIs DEF Landed
<1> HIDE DEF to, doubtful, v
<1>8. Gives(tx, v, pivot, doubtful)
  BY <1>1, <1>4, <1>5, <1>7, PlacedProper
<1>9. Proper(v) /\ Grown(tx, v) /\ Leads(v, pivot, to)
  BY <1>4, <1>5, <1>8 DEF Leads, Gives, Grown, Keeps
<1>10. Proper(w) /\ Grown(v, w) /\ Leads(w, pivot, to)
  BY <1>9, PropagateLowerProper
<1> QED
  BY <1>6, <1>9, <1>10 DEF to, v

\* A pivot that registered with the new view is placed, and others by it.
LEMMA BridgeFeatureProper ==
  ASSUME NEW tx, Proper(tx), tx.m.established, NEW current \in Features(tx.m),
         tx.active[current], NEW pivot \in Features(tx.m), pivot < current,
         pivot # tx.m.reference, IsSet(tx.m, current, pivot)
  PROVE  LET u == BridgeFeature(tx, current, pivot) IN Proper(u) /\ Grown(tx, u)
<1> DEFINE to == BridgeTo(tx, current, pivot)
           v == Landed(tx, current, pivot)
           w == PropagateLower(v, pivot, to)
           u == PropagateHigher(w, pivot, current, to)
<1>1. /\ BridgeFeature(tx, current, pivot) = u /\ Grown(tx, v)
      /\ Proper(w) /\ Grown(v, w) /\ Leads(w, pivot, to)
  BY BridgeIs
<1> HIDE DEF w, v, to
<1>2. current \in Features(w.m)
  BY <1>1 DEF Grown, Keeps
<1>3. Proper(u) /\ Grown(w, u)
  BY <1>1, <1>2, PropagateHigherProper
<1> HIDE DEF u
<1> QED
  BY <1>1, <1>3, GrownTransitive

\* All the pivots.
LEMMA BridgedProper ==
  ASSUME NEW tx, Proper(tx), NEW current \in Features(tx.m), NEW seen,
         DOMAIN seen \subseteq 0 .. current - 1,
         \A p \in DOMAIN seen : IsSet(tx.m, current, p)
  PROVE  LET u == Bridged(tx, current, seen) IN Proper(u) /\ Grown(tx, u)
<1>1. CASE ~(tx.m.established /\ tx.active[current])
  BY <1>1, GrownSame DEF Bridged
<1>2. CASE tx.m.established /\ tx.active[current]
  <2>1. /\ current \in Nat /\ Features(tx.m) = 0 .. tx.m.n - 1 /\ tx.m.n \in Nat
        /\ tx.m.reference \in Features(tx.m) /\ tx.active[tx.m.reference]
    BY <1>2, TransactionIs DEF Proper, WellMade
  <2>2. PICK d : /\ Bridged(tx, current, seen) = d[current]
                 /\ d[0] = tx
                 /\ \A i \in 1 .. current : d[i] = IF i - 1 \in Pivots(tx, seen)
                                              THEN BridgeFeature(d[i - 1], current, i - 1)
                                              ELSE d[i - 1]
    BY <1>2, <2>1, BridgeUnfolds
  <2> DEFINE S == {i \in 0 .. current : Proper(d[i]) /\ Grown(tx, d[i])}
  <2>3. 0 \in S
    BY <2>1, <2>2, GrownSame
  <2>4. ASSUME NEW i \in 1 .. current, i - 1 \in S
        PROVE  i \in S
    <3>1. Proper(d[i - 1]) /\ Grown(tx, d[i - 1])
      BY <2>4
    <3>2. CASE i - 1 \in Pivots(tx, seen)
      <4>1. /\ i - 1 \in DOMAIN seen /\ i - 1 # tx.m.reference /\ i - 1 \in Features(tx.m)
            /\ i - 1 < current /\ IsSet(tx.m, current, i - 1)
        BY <2>1, <3>2 DEF Pivots
      <4>2. /\ d[i - 1].m.established /\ d[i - 1].m.reference = tx.m.reference
            /\ Features(d[i - 1].m) = Features(tx.m) /\ d[i - 1].active[current]
            /\ IsSet(d[i - 1].m, current, i - 1)
        BY <1>2, <3>1, <4>1 DEF Grown, Keeps
      <4>3. d[i] = BridgeFeature(d[i - 1], current, i - 1)
        BY <2>2, <3>2
      <4>4. Proper(d[i]) /\ Grown(d[i - 1], d[i])
        BY <3>1, <4>1, <4>2, <4>3, BridgeFeatureProper
      <4> QED
        BY <3>1, <4>4, GrownTransitive
    <3>3. CASE i - 1 \notin Pivots(tx, seen)
      BY <2>2, <3>1, <3>3
    <3> QED
      BY <3>2, <3>3
  <2>5. current \in S
    <3>1. \A i \in 1 .. current : i - 1 \in S => i \in S
      BY <2>4
    <3> HIDE DEF S
    <3>2. \A i \in 0 .. current : i \in S
      BY <2>1, <2>3, <3>1, TurnByTurn
    <3> QED
      BY <2>1, <3>2
  <2> QED
    BY <2>2, <2>5
<1> QED
  BY <1>1, <1>2

-----------------------------------------------------------------------------
(* One more view *)

\* A registration is empty only if it is the empty sequence.
LEMMA NoneSeen ==
  ASSUME NEW R, NEW priors, NEW seen \in [priors -> R], priors = {}
  PROVE  seen = << >>
<1>1. << >> \in [{} -> R]
  OBVIOUS
<1>2. \A f, g \in [{} -> R] : f = g
  OBVIOUS
<1> QED
  BY <1>1, <1>2

\* The registrations of a view with those before it.
Seen(seen, current) ==
  /\ DOMAIN seen \subseteq 0 .. current - 1
  /\ seen \in [DOMAIN seen -> Registration]

\* The matrix with one more row, none of whose slots is set.
LEMMA RowAppended ==
  ASSUME NEW m, m = EmptyMatrix \/ Filled(m), m.n < MaxFeatures
  PROVE  LET k == AppendRow(m, RowBase(m.n)) IN
         /\ Filled(k) /\ k.n = m.n + 1 /\ m.n \in Nat /\ k.reference = m.reference
         /\ k.established = m.established
         /\ DOMAIN k.slot = DOMAIN m.slot /\ \A i \in DOMAIN m.slot : k.slot[i] = m.slot[i]
<1> DEFINE row == RowBase(m.n)
           yes == m.established
           k == AppendRow(m, row)
           base == [f \in 0 .. m.n |-> IF f = m.n THEN row ELSE m.base[f]]
           u == Unset(m, row .. row + m.n - 1)
           s == Restrict(m.slot, DOMAIN m.slot \ (row .. row + m.n - 1))
<1>1. /\ m.n \in Nat /\ m.n \in 0 .. MaxFeatures - 1 /\ Features(m) = 0 .. m.n - 1
      /\ MaxFeatures \in Nat
      /\ m.reference \in NoReference .. MaxFeatures - 1 /\ m.established \in BOOLEAN
      /\ m = [n |-> m.n, base |-> m.base, reference |-> m.reference,
              established |-> m.established, slot |-> m.slot]
  <2>1. CASE m = EmptyMatrix
    BY <2>1, TemplateAssumption DEF EmptyMatrix, NoReference, Features
  <2>2. CASE Filled(m)
    BY <2>2, MatrixIs, TemplateAssumption DEF Filled, Matrices
  <2> QED
    BY <2>1, <2>2
<1>2. /\ row \in Nat /\ DOMAIN m.slot \subseteq 1 .. RegistrationCount(m.n) - 1
      /\ \A i \in DOMAIN m.slot : m.slot[i] \in Relation
      /\ m.n > 0 => RowBase(m.n) = RegistrationCount(m.n)
      /\ m.n = 0 => DOMAIN m.slot = {}
      /\ RegistrationCount(m.n) \in Nat
      /\ \A f \in 0 .. m.n - 1 : m.base[f] = RowBase(f)
  <2>1. CASE m = EmptyMatrix
    BY <1>1, <2>1, RowIs DEF EmptyMatrix
  <2>2. CASE Filled(m)
    <3>1. /\ IsMatrix(m) /\ m.slot \in Slots
          /\ DOMAIN m.slot \subseteq 1 .. RegistrationCount(m.n) - 1
          /\ Rowed(m) /\ m.n > 0
      BY <2>2, MatrixIs DEF Filled, IsMatrix
    <3>2. \A i \in DOMAIN m.slot : m.slot[i] \in Relation
      BY <3>1, SlotsAre
    <3>3. /\ row \in Nat /\ RowBase(m.n) = RegistrationCount(m.n)
          /\ RegistrationCount(m.n) \in Nat
      BY <1>1, <3>1, RowIs
    <3>4. \A f \in 0 .. m.n - 1 : m.base[f] = RowBase(f)
      BY <1>1, <3>1 DEF Rowed
    <3> QED
      BY <3>1, <3>2, <3>3, <3>4
  <2> QED
    BY <2>1, <2>2
<1>3. DOMAIN m.slot \ (row .. row + m.n - 1) = DOMAIN m.slot
  BY <1>1, <1>2
<1>4. DOMAIN s = DOMAIN m.slot /\ \A i \in DOMAIN m.slot : s[i] = m.slot[i]
  BY <1>3 DEF Restrict
<1>5. s \in Slots
  <2>1. s \in [DOMAIN m.slot -> Relation]
    BY <1>2, <1>3 DEF Restrict
  <2>2. DOMAIN m.slot \in SUBSET Nat
    BY <1>2
  <2> HIDE DEF s
  <2> QED
    BY <2>1, <2>2, SlotsAre
<1>6. base = [f \in 0 .. m.n |-> RowBase(f)]
  BY <1>1, <1>2
<1>7. base \in [0 .. m.n -> Nat]
  <2>1. ASSUME NEW f \in 0 .. m.n
        PROVE  RowBase(f) \in Nat
    <3>1. f \in Nat
      BY <1>1
    <3> QED
      BY <3>1, RowIs
  <2> HIDE DEF base
  <2> QED
    BY <1>6, <2>1
<1> HIDE DEF s, base
<1>8. m.n + 1 \in 1 .. MaxFeatures
  BY <1>1
<1>9. base \in UNION {[0 .. n - 1 -> Nat] : n \in 1 .. MaxFeatures}
  <2>1. (m.n + 1) - 1 = m.n
    BY <1>1
  <2>2. base \in [0 .. (m.n + 1) - 1 -> Nat]
    BY <1>7, <2>1
  <2> QED
    BY <1>8, <2>2
<1>10. u = [m EXCEPT !.slot = s]
  BY DEF Unset, s
<1>11. k = [u EXCEPT !.n = m.n + 1, !.base = base]
  BY DEF AppendRow, base
<1> HIDE DEF u, k
<1>12. k = [n |-> m.n + 1, base |-> base, reference |-> m.reference,
            established |-> yes, slot |-> s]
  <2>1. u = [n |-> m.n, base |-> m.base, reference |-> m.reference,
             established |-> yes, slot |-> s]
    BY <1>1, <1>10
  <2> HIDE DEF yes
  <2> QED
    BY <1>11, <2>1
<1>13. /\ k.n = m.n + 1 /\ k.base = base /\ k.reference = m.reference /\ k.slot = s
       /\ k.established = yes
  BY <1>12
<1>14. k \in Matrices
  <2>1. yes \in BOOLEAN
    BY <1>1
  <2> HIDE DEF yes
  <2> QED
    BY <1>1, <1>5, <1>8, <1>9, <1>12, <2>1 DEF Matrices
<1>15. Features(k) = 0 .. m.n
  BY <1>1, <1>13 DEF Features
<1>16. DOMAIN s \subseteq 1 .. RegistrationCount(k.n) - 1
  <2>1. CASE m.n = 0
    BY <1>2, <1>4, <2>1
  <2>2. CASE m.n > 0
    BY <1>1, <1>2, <1>4, <1>13, <2>2, RowIs
  <2> QED
    BY <1>1, <2>1, <2>2
<1>17. Filled(k)
  BY <1>6, <1>13, <1>14, <1>15, <1>16 DEF Filled, IsMatrix, Rowed
<1> QED
  BY <1>1, <1>4, <1>13, <1>17 DEF k

\* A transaction an insertion starts from.
Begun(tx) == tx = NewTransaction \/ Proper(tx)

\* u is tx with one more view, that has no relation yet.
Opened(tx, u) ==
  /\ Proper(u) /\ u.m.n = tx.m.n + 1 /\ tx.m.n \in Nat /\ u.order = tx.order
  /\ u.m.established => u.m.reference \in 0 .. tx.m.n - 1

\* The new row.
LEMMA AppendedProper ==
  ASSUME NEW tx, Begun(tx), tx.m.n < MaxFeatures, NEW sample \in Sample
  PROVE  Opened(tx, Appended(tx, sample))
<1> DEFINE n == tx.m.n
           k == AppendRow(tx.m, RowBase(n))
           a == With(tx.active, n, FALSE)
           shown == With(tx.sample, n, sample)
           size == IF n = 0 THEN 1 ELSE RowBase(n) + n
           u == Appended(tx, sample)
<1>1. /\ tx.m = EmptyMatrix \/ Filled(tx.m)
      /\ tx = [m |-> tx.m, sample |-> tx.sample, active |-> tx.active, overlap |-> tx.overlap,
               registration |-> tx.registration, order |-> tx.order, doubt |-> tx.doubt]
      /\ tx.overlap \in Overlaps /\ tx.order \in Nat /\ tx.doubt \in SUBSET Nat
  <2>1. CASE tx = NewTransaction
    <3>1. << >> \in [{} -> 0 .. 255]
      OBVIOUS
    <3>2. << >> \in Overlaps
      BY <3>1 DEF Overlaps
    <3> QED
      BY <2>1, <3>2 DEF NewTransaction
  <2>2. CASE Proper(tx)
    BY <2>2, TransactionIs DEF Proper, Transactions
  <2> QED
    BY <2>1, <2>2 DEF Begun
<1>2. /\ Filled(k) /\ k.n = n + 1 /\ n \in Nat /\ k.reference = tx.m.reference
      /\ k.established = tx.m.established
      /\ DOMAIN k.slot = DOMAIN tx.m.slot /\ \A i \in DOMAIN tx.m.slot : k.slot[i] = tx.m.slot[i]
  <2> HIDE DEF n
  <2>1. tx.m.n < MaxFeatures
    OBVIOUS
  <2> QED
    BY <1>1, <2>1, RowAppended DEF n
<1> HIDE DEF k
<1>3. /\ tx.sample \in [0 .. n - 1 -> Sample] /\ tx.active \in [0 .. n - 1 -> BOOLEAN]
      /\ ~tx.m.established => tx.m.reference = NoReference /\ \A f \in 0 .. n - 1 : ~tx.active[f]
      /\ tx.m.established => tx.m.reference \in 0 .. n - 1 /\ tx.active[tx.m.reference]
      /\ n = 0 => DOMAIN tx.m.slot = {}
      /\ tx.doubt \subseteq DOMAIN tx.m.slot
      /\ n > 0 => Filled(tx.m) /\ Features(tx.m) = 0 .. n - 1 /\ Placeable(tx)
                  /\ Truthful(tx.m, tx.sample, tx.doubt)
  <2>1. CASE tx = NewTransaction
    BY <2>1 DEF NewTransaction, EmptyMatrix
  <2>2. CASE Proper(tx)
    BY <2>2, TransactionIs DEF Proper, WellMade
  <2> QED
    BY <2>1, <2>2 DEF Begun
<1>4. /\ shown \in [0 .. n -> Sample] /\ a \in [0 .. n -> BOOLEAN] /\ ~a[n]
      /\ \A f \in 0 .. n - 1 : shown[f] = tx.sample[f] /\ a[f] = tx.active[f]
  <2>1. DOMAIN tx.sample \cup {n} = 0 .. n /\ DOMAIN tx.active \cup {n} = 0 .. n
    BY <1>2, <1>3
  <2>2. n \in 0 .. n /\ n \notin 0 .. n - 1 /\ 0 .. n = (0 .. n - 1) \cup {n}
    BY <1>2
  <2> HIDE DEF n
  <2>3. /\ shown \in [0 .. n -> Sample] /\ \A f \in 0 .. n - 1 : shown[f] = tx.sample[f]
    BY <1>3, <2>1, <2>2 DEF With
  <2>4. a \in [0 .. n -> BOOLEAN]
    <3>1. a = [f \in 0 .. n |-> IF f = n THEN FALSE ELSE tx.active[f]]
      BY <2>1 DEF With
    <3>2. \A f \in 0 .. n : f # n => f \in 0 .. n - 1
      BY <2>2
    <3> HIDE DEF a
    <3> QED
      BY <1>3, <3>1, <3>2
  <2>5. ~a[n] /\ \A f \in 0 .. n - 1 : a[f] = tx.active[f]
    BY <2>1, <2>2 DEF With
  <2> QED
    BY <2>3, <2>4, <2>5
<1>5. size \in Nat /\ size = RegistrationCount(n + 1)
  <2>1. n > 0 => size = RegistrationCount(n + 1) /\ size \in Nat
    BY <1>2, RowIs
  <2>2. RegistrationCount(1) = 1
    BY DEF RegistrationCount
  <2> QED
    BY <1>2, <2>1, <2>2
<1>6. /\ k \in Matrices /\ Features(k) = 0 .. n /\ n + 1 \in 1 .. MaxFeatures /\ (n + 1) - 1 = n
  BY SMTT(30), <1>2, TemplateAssumption, MatrixIs DEF Filled, IsMatrix, Matrices
<1>7. u = [m |-> k, sample |-> shown, active |-> a, overlap |-> tx.overlap,
           registration |-> size, order |-> tx.order, doubt |-> tx.doubt]
  <2>1. u = [tx EXCEPT !.m = k, !.sample = shown, !.active = a, !.registration = size]
    BY DEF Appended, k
  <2> HIDE DEF shown, a, size, u
  <2> QED
    BY <1>1, <2>1
<1> HIDE DEF shown, a, size, u
<1>8. /\ u.m = k /\ u.sample = shown /\ u.active = a /\ u.registration = size
      /\ u.order = tx.order /\ u.doubt = tx.doubt
  BY <1>7
<1>9. u \in Transactions
  <2>1. /\ a \in UNION {[0 .. j - 1 -> BOOLEAN] : j \in 1 .. MaxFeatures}
        /\ shown \in UNION {[0 .. j - 1 -> Sample] : j \in 1 .. MaxFeatures}
    BY <1>4, <1>6
  <2> QED
    BY <1>1, <1>5, <1>6, <1>7, <2>1 DEF Transactions
<1>10. \A f, g \in 0 .. n : f > g /\ IsSet(k, f, g) =>
          /\ f \in 0 .. n - 1 /\ g \in 0 .. n - 1 /\ IsSet(tx.m, f, g)
          /\ SlotOf(k, f, g) = SlotOf(tx.m, f, g)
          /\ SlotIndex(k, f, g) = SlotIndex(tx.m, f, g)
  <2> SUFFICES ASSUME NEW f \in 0 .. n, NEW g \in 0 .. n, f > g, IsSet(k, f, g)
               PROVE  /\ f \in 0 .. n - 1 /\ g \in 0 .. n - 1 /\ IsSet(tx.m, f, g)
                      /\ SlotOf(k, f, g) = SlotOf(tx.m, f, g)
                      /\ SlotIndex(k, f, g) = SlotIndex(tx.m, f, g)
    OBVIOUS
  <2>1. SlotIndex(k, f, g) = SlotAt(f, g) /\ SlotAt(f, g) \in DOMAIN tx.m.slot
    BY <1>2, <1>6, SlotIndexIs DEF Filled, IsSet
  <2>2. n > 0 /\ f \in Nat /\ g \in Nat /\ g \in 0 .. n - 1
    BY <1>2
  <2>3. f # n
    <3>1. RowBase(n) = RegistrationCount(n) /\ RegistrationCount(n) \in Nat
      BY <1>2, <2>2, RowIs
    <3>2. DOMAIN tx.m.slot \subseteq 1 .. RegistrationCount(n) - 1
      BY <1>3, <2>2 DEF Filled
    <3> QED
      BY <2>1, <2>2, <3>1, <3>2 DEF SlotAt
  <2>4. f \in 0 .. n - 1 /\ SlotIndex(tx.m, f, g) = SlotAt(f, g)
    <3>1. f \in 0 .. n - 1 /\ IsMatrix(tx.m) /\ Features(tx.m) = 0 .. n - 1
      BY <1>2, <1>3, <2>2, <2>3 DEF Filled
    <3> QED
      BY <2>2, <3>1, SlotIndexIs
  <2> QED
    BY <1>2, <2>1, <2>2, <2>4 DEF IsSet, SlotOf
<1>11. Truthful(k, shown, tx.doubt)
  <2> SUFFICES ASSUME NEW f \in 0 .. n, NEW g \in 0 .. n, f > g, IsSet(k, f, g),
                      SlotIndex(k, f, g) \notin tx.doubt
               PROVE  SlotOf(k, f, g).map = Measured(shown[f], shown[g])
    BY <1>6 DEF Truthful
  <2>1. /\ f \in 0 .. n - 1 /\ g \in 0 .. n - 1 /\ IsSet(tx.m, f, g)
        /\ SlotOf(k, f, g) = SlotOf(tx.m, f, g) /\ SlotIndex(tx.m, f, g) \notin tx.doubt
    BY <1>10
  <2>2. n > 0
    BY <1>2, <2>1
  <2>3. SlotOf(tx.m, f, g).map = Measured(tx.sample[f], tx.sample[g])
    BY <1>3, <2>1, <2>2 DEF Truthful
  <2> QED
    BY <1>4, <2>1, <2>3
<1>12. \A f \in 0 .. n : a[f] => f = k.reference \/ IsSet(k, f, k.reference)
  <2> SUFFICES ASSUME NEW f \in 0 .. n, a[f], f # k.reference
               PROVE  IsSet(k, f, k.reference)
    OBVIOUS
  <2>1. f \in 0 .. n - 1 /\ tx.active[f] /\ n > 0
    BY <1>2, <1>4
  <2>2. k.reference \in 0 .. n - 1 /\ IsSet(tx.m, f, k.reference)
    BY <1>2, <1>3, <2>1 DEF Placeable
  <2>3. /\ SlotIndex(tx.m, f, k.reference) = SlotAt(f, k.reference)
        /\ SlotIndex(k, f, k.reference) = SlotAt(f, k.reference)
    <3>1. /\ IsMatrix(tx.m) /\ Features(tx.m) = 0 .. n - 1 /\ IsMatrix(k)
          /\ k.reference \in Features(k)
      BY <1>2, <1>3, <1>6, <2>1, <2>2 DEF Filled
    <3> QED
      BY <1>6, <2>1, <2>2, <3>1, SlotIndexIs
  <2> QED
    BY <1>2, <2>2, <2>3 DEF IsSet
<1>13. WellMade(u)
  <2>1. k.established => k.reference \in Features(k) /\ a[k.reference]
    BY SMTT(30), <1>2, <1>3, <1>4, <1>6
  <2>2. ~k.established => k.reference = NoReference /\ \A f \in Features(k) : ~a[f]
    <3>1. \A f \in 0 .. n : f = n \/ f \in 0 .. n - 1
      BY <1>2
    <3> QED
      BY <1>2, <1>3, <1>4, <1>6, <3>1
  <2>3. u.doubt \subseteq DOMAIN k.slot
    BY <1>2, <1>3, <1>8
  <2> QED
    BY <1>2, <1>4, <1>5, <1>6, <1>8, <1>9, <1>11, <2>1, <2>2, <2>3 DEF WellMade
<1>14. Placeable(u)
  BY <1>6, <1>8, <1>12 DEF Placeable
<1>15. u.m.established => u.m.reference \in 0 .. n - 1
  BY <1>2, <1>3, <1>8
<1> QED
  BY <1>2, <1>8, <1>13, <1>14, <1>15 DEF Opened, Proper, u

-----------------------------------------------------------------------------
(* What registered, and where the new view lies *)

\* The registrations of the new view are stored.
LEMMA RegisteredProper ==
  ASSUME NEW tx, Proper(tx), NEW current \in Features(tx.m), NEW seen, Seen(seen, current)
  PROVE  LET u == Registered(tx, current, seen) IN
         /\ Proper(u) /\ Grown(tx, u) /\ \A p \in DOMAIN seen : IsSet(u.m, current, p)
<1> DEFINE row == {SlotIndex(tx.m, current, p) : p \in DOMAIN seen}
           prior(i) == CHOOSE p \in DOMAIN seen : SlotIndex(tx.m, current, p) = i
           cell(i) == [rank |-> seen[prior(i)].inliers,
                       map |-> Measured(tx.sample[current], tx.sample[prior(i)])]
           s == [i \in DOMAIN tx.m.slot \cup row |-> IF i \in row THEN cell(i) ELSE tx.m.slot[i]]
           o == [i \in DOMAIN tx.overlap \cup row |->
                   IF i \in row THEN seen[prior(i)].overlap ELSE tx.overlap[i]]
           k == [tx.m EXCEPT !.slot = s]
           u == Registered(tx, current, seen)
<1>1. /\ tx \in Transactions /\ Filled(tx.m) /\ Features(tx.m) = 0 .. tx.m.n - 1
      /\ tx.m.n \in Nat /\ tx.sample \in [Features(tx.m) -> Sample] /\ WellMade(tx)
      /\ tx.overlap \in Overlaps /\ tx.m \in Matrices /\ current \in Nat
      /\ tx.m.slot \in [DOMAIN tx.m.slot -> Relation] /\ DOMAIN tx.m.slot \in SUBSET Nat
      /\ DOMAIN tx.m.slot \subseteq 1 .. RegistrationCount(tx.m.n) - 1
  <2>1. Proper(tx) /\ WellMade(tx)
    BY DEF Proper
  <2>2. Filled(tx.m) /\ tx.m \in Matrices /\ tx.m.slot \in Slots
    BY <2>1, TransactionIs DEF Filled, IsMatrix
  <2>3. tx.m.slot \in [DOMAIN tx.m.slot -> Relation] /\ DOMAIN tx.m.slot \in SUBSET Nat
    BY <2>2, SlotsAre
  <2> QED
    BY <2>1, <2>2, <2>3, TransactionIs DEF Filled
<1>2. ASSUME NEW p \in DOMAIN seen
      PROVE  /\ p \in Features(tx.m) /\ p \in Nat /\ p < current /\ seen[p] \in Registration
             /\ seen[p].inliers \in Nat /\ seen[p].overlap \in 0 .. 255
             /\ SlotIndex(tx.m, current, p) = SlotAt(current, p)
             /\ SlotAt(current, p) \in 1 .. RegistrationCount(tx.m.n) - 1
             /\ SlotAt(current, p) \in Nat
  <2>1. p \in 0 .. current - 1 /\ seen[p] \in Registration
    BY DEF Seen
  <2>2. p \in Features(tx.m) /\ p \in Nat /\ p < current
    BY <1>1, <2>1
  <2>3. seen[p].inliers \in Nat /\ seen[p].overlap \in 0 .. 255
    BY <2>1, EnrollmentAssumption
  <2> QED
    BY SMTT(30), <1>1, <2>1, <2>2, <2>3, PairIs
<1>3. ASSUME NEW i \in row
      PROVE  prior(i) \in DOMAIN seen /\ SlotIndex(tx.m, current, prior(i)) = i
  OBVIOUS
<1> HIDE DEF prior
<1>4. \A i \in row : cell(i) \in Relation /\ i \in 1 .. RegistrationCount(tx.m.n) - 1 /\ i \in Nat
  <2> SUFFICES ASSUME NEW i \in row
               PROVE  cell(i) \in Relation /\ i \in 1 .. RegistrationCount(tx.m.n) - 1 /\ i \in Nat
    OBVIOUS
  <2>1. /\ prior(i) \in DOMAIN seen /\ i = SlotAt(current, prior(i))
        /\ prior(i) \in Features(tx.m) /\ seen[prior(i)].inliers \in Nat
        /\ i \in 1 .. RegistrationCount(tx.m.n) - 1 /\ i \in Nat
    BY <1>2, <1>3
  <2>2. tx.sample[current] \in Sample /\ tx.sample[prior(i)] \in Sample
    BY <1>1, <2>1
  <2>3. Measured(tx.sample[current], tx.sample[prior(i)]) \in Transform
    BY <2>2, MeasuredIs
  <2> QED
    BY <2>1, <2>3 DEF Relation
<1> HIDE DEF cell
<1>5. s \in Slots /\ DOMAIN s = DOMAIN tx.m.slot \cup row
  <2>1. s \in [DOMAIN tx.m.slot \cup row -> Relation] /\ DOMAIN tx.m.slot \cup row \in SUBSET Nat
    BY <1>1, <1>4
  <2> HIDE DEF s, row
  <2> QED
    BY <2>1, SlotsAre
<1>6. o \in Overlaps
  <2>1. tx.overlap \in [DOMAIN tx.overlap -> 0 .. 255] /\ DOMAIN tx.overlap \in SUBSET Nat
    BY ZenonT(40), <1>1 DEF Overlaps
  <2>2. \A i \in row : seen[prior(i)].overlap \in 0 .. 255
    BY <1>2, <1>3
  <2>3. o \in [DOMAIN tx.overlap \cup row -> 0 .. 255] /\ DOMAIN tx.overlap \cup row \in SUBSET Nat
    <3>1. DOMAIN tx.overlap \cup row \in SUBSET Nat
      BY <1>4, <2>1
    <3> HIDE DEF row
    <3> QED
      BY <2>1, <2>2, <3>1
  <2> HIDE DEF o, row
  <2> QED
    BY <2>3 DEF Overlaps
<1>7. u = [tx EXCEPT !.m = k, !.overlap = o]
  BY DEF Registered, prior, cell
<1>8. /\ k \in Matrices /\ k.n = tx.m.n /\ k.base = tx.m.base /\ k.reference = tx.m.reference
      /\ k.established = tx.m.established /\ k.slot = s
  <2> HIDE DEF s
  <2> QED
    BY <1>1, <1>5 DEF Matrices
<1> HIDE DEF k, o, u
<1>9. /\ u \in Transactions /\ u.m = k /\ u.sample = tx.sample /\ u.active = tx.active
      /\ u.registration = tx.registration /\ u.order = tx.order /\ u.doubt = tx.doubt
  BY <1>1, <1>6, <1>7, <1>8 DEF Transactions
<1>10. Features(k) = Features(tx.m) /\ \A a, b : SlotIndex(k, a, b) = SlotIndex(tx.m, a, b)
  BY <1>8 DEF Features, SlotIndex
<1>11. Filled(k)
  <2>1. DOMAIN s \subseteq 1 .. RegistrationCount(tx.m.n) - 1
    BY <1>1, <1>4, <1>5
  <2> QED
    BY <1>1, <1>8, <1>10, <2>1 DEF Filled, IsMatrix, Rowed
<1>12. Keeps(tx.m, k) /\ \A p \in DOMAIN seen : IsSet(k, current, p)
  BY <1>5, <1>8, <1>10 DEF Keeps, IsSet
<1>13. Truthful(k, tx.sample, tx.doubt)
  <2> SUFFICES ASSUME NEW f \in Features(tx.m), NEW g \in Features(tx.m), f > g,
                      IsSet(k, f, g), SlotIndex(k, f, g) \notin tx.doubt
               PROVE  SlotOf(k, f, g).map = Measured(tx.sample[f], tx.sample[g])
    BY <1>9, <1>10 DEF Truthful
  <2>1. /\ f \in Nat /\ g \in Nat /\ f # g /\ SlotIndex(tx.m, f, g) = SlotAt(f, g)
        /\ SlotOf(k, f, g) = s[SlotAt(f, g)] /\ SlotAt(f, g) \in DOMAIN s
    <3>1. f \in Nat /\ g \in Nat /\ f # g
      BY <1>1
    <3>2. SlotIndex(tx.m, f, g) = SlotAt(f, g)
      BY <1>1, <3>1, PairIs
    <3>3. SlotIndex(k, f, g) = SlotAt(f, g)
      BY <1>10, <3>2
    <3> HIDE DEF s
    <3> QED
      BY <1>8, <3>1, <3>2, <3>3 DEF IsSet, SlotOf
  <2>2. CASE SlotAt(f, g) \in row
    <3> DEFINE p == prior(SlotAt(f, g))
    <3>1. p \in DOMAIN seen /\ SlotAt(current, p) = SlotAt(f, g) /\ p \in Nat /\ p < current
      BY <1>2, <1>3, <2>2
    <3> HIDE DEF p
    <3>2. f = current /\ g = p
      BY <1>1, <2>1, <3>1, SlotsApart
    <3>3. s[SlotAt(f, g)] = cell(SlotAt(f, g))
      BY <2>1, <2>2
    <3> QED
      BY <2>1, <3>2, <3>3 DEF cell, p
  <2>3. CASE SlotAt(f, g) \notin row
    <3>1. IsSet(tx.m, f, g) /\ SlotOf(k, f, g) = SlotOf(tx.m, f, g)
      BY <1>5, <2>1, <2>3 DEF IsSet, SlotOf
    <3>2. Truthful(tx.m, tx.sample, tx.doubt)
      BY <1>1 DEF WellMade
    <3> QED
      BY <1>10, <3>1, <3>2 DEF Truthful
  <2> QED
    BY <2>2, <2>3
<1>14. WellMade(u)
  <2>1. tx.doubt \subseteq DOMAIN s
    BY <1>1, <1>5 DEF WellMade
  <2> QED
    BY <2>1, <1>1, <1>8, <1>9, <1>10, <1>11, <1>13 DEF WellMade
<1>15. Placeable(u)
  <2>1. Placeable(tx)
    BY DEF Proper
  <2> SUFFICES ASSUME NEW f \in Features(tx.m), tx.active[f], f # tx.m.reference
               PROVE  IsSet(k, f, tx.m.reference)
    BY <1>8, <1>9, <1>10 DEF Placeable
  <2>2. IsSet(tx.m, f, tx.m.reference)
    BY <2>1 DEF Placeable
  <2> QED
    BY <1>5, <1>8, <1>10, <2>2 DEF IsSet
<1>16. Grown(tx, u)
  BY <1>9, <1>12 DEF Grown
<1> QED
  BY <1>9, <1>12, <1>14, <1>15, <1>16 DEF Proper, u

\* Among the earlier views there is a first one with the most inliers.
LEMMA BestIs ==
  ASSUME NEW current \in Nat, NEW seen, Seen(seen, current),
         NEW priors \in SUBSET (DOMAIN seen), priors # {}
  PROVE  Best(seen, priors) \in priors
<1> DEFINE first(p, P) == \A q \in P : \/ seen[p].inliers > seen[q].inliers
                                       \/ seen[p].inliers = seen[q].inliers /\ p <= q
           upto(i) == {p \in priors : p < i}
           S == {i \in 0 .. current : upto(i) = {} \/ \E p \in upto(i) : first(p, upto(i))}
<1>1. \A p \in priors : p \in 0 .. current - 1 /\ p \in Nat /\ seen[p].inliers \in Nat
  BY EnrollmentAssumption DEF Seen
<1>2. 0 \in S
  BY <1>1
<1>3. ASSUME NEW i \in 1 .. current, i - 1 \in S
      PROVE  i \in S
  <2>1. CASE i - 1 \notin priors
    <3>1. upto(i) = upto(i - 1)
      BY <1>1, <2>1
    <3> QED
      BY <1>3, <3>1
  <2>2. CASE i - 1 \in priors
    <3>1. upto(i) = upto(i - 1) \cup {i - 1}
      BY <1>1, <2>2
    <3>2. CASE upto(i - 1) = {}
      <4>1. first(i - 1, upto(i))
        BY <3>1, <3>2
      <4> QED
        BY <3>1, <4>1
    <3>3. CASE upto(i - 1) # {}
      <4>1. PICK p \in upto(i - 1) : first(p, upto(i - 1))
        BY <1>3, <3>3
      <4>2. CASE seen[p].inliers >= seen[i - 1].inliers
        <5>1. first(p, upto(i))
          BY <1>1, <2>2, <3>1, <4>1, <4>2
        <5> QED
          BY <3>1, <5>1
      <4>3. CASE seen[p].inliers < seen[i - 1].inliers
        <5>1. ASSUME NEW q \in upto(i)
              PROVE  \/ seen[i - 1].inliers > seen[q].inliers
                     \/ seen[i - 1].inliers = seen[q].inliers /\ i - 1 <= q
          BY <1>1, <2>2, <3>1, <4>1, <4>3
        <5>2. first(i - 1, upto(i))
          BY <5>1
        <5> QED
          BY <3>1, <5>2
      <4> QED
        BY <1>1, <2>2, <4>1, <4>2, <4>3
    <3> QED
      BY <3>2, <3>3
  <2> QED
    BY <2>1, <2>2
<1>4. current \in S
  <2>1. \A i \in 1 .. current : i - 1 \in S => i \in S
    BY <1>3
  <2> HIDE DEF S
  <2>2. \A i \in 0 .. current : i \in S
    BY <1>2, <2>1, TurnByTurn
  <2> QED
    BY <2>2
<1>5. upto(current) = priors
  BY <1>1
<1>6. \E p \in priors : first(p, priors)
  BY <1>4, <1>5
<1>7. Best(seen, priors) = CHOOSE p \in priors : first(p, priors)
  BY DEF Best
<1> HIDE DEF first
<1> QED
  BY <1>6, <1>7

-----------------------------------------------------------------------------
(* The new view in the graph *)

\* u is tx after some of the steps for the view current.
Entered(tx, u, current) ==
  /\ Proper(u) /\ u.m.n = tx.m.n /\ u.order = tx.order /\ Features(u.m) = Features(tx.m)
  /\ u.sample = tx.sample
  /\ u.m.established => u.m.reference \in 0 .. current - 1
  /\ \A f, g \in Features(tx.m) : IsSet(tx.m, f, g) => IsSet(u.m, f, g)

\* The view is placed through the best of the placed ones.
LEMMA ConnectedProper ==
  ASSUME NEW tx, Proper(tx), NEW current \in Features(tx.m), NEW seen, Seen(seen, current),
         \A p \in DOMAIN seen : IsSet(tx.m, current, p),
         tx.m.established => tx.m.reference \in 0 .. current - 1,
         \E p \in DOMAIN seen : tx.active[p]
  PROVE  Entered(tx, Connected(tx, current, seen), current)
<1> DEFINE m == tx.m
           r == tx.m.reference
           through == Best(seen, {p \in DOMAIN seen : tx.active[p]})
           direct == SlotOf(m, current, through).map
           to == IF through = r THEN direct
                 ELSE Route(SlotOf(m, through, r).map, direct, through, r)
           had == Rank(m, current, r)
           rank == IF had < 0 THEN 0 ELSE had
           doubtful == DoubtfulThrough(tx, current, through)
           u == Connected(tx, current, seen)
<1>1. /\ tx \in Transactions /\ WellMade(tx) /\ Filled(m) /\ Features(m) \subseteq Nat
      /\ Features(m) = 0 .. m.n - 1 /\ m.n \in Nat
      /\ tx.sample \in [Features(m) -> Sample] /\ doubtful \in BOOLEAN
      /\ Truthful(m, tx.sample, tx.doubt)
  BY DoubtIs, TransactionIs DEF Proper, WellMade
<1>2. DOMAIN seen \subseteq Features(m) /\ current \in Nat /\ \A p \in DOMAIN seen : p < current
  BY <1>1 DEF Seen
<1>3. /\ m.established /\ r \in 0 .. current - 1 /\ r \in Features(m) /\ r # current
  <2>1. m.established
    BY <1>1, <1>2 DEF WellMade
  <2>2. r \in 0 .. current - 1
    BY <2>1
  <2> QED
    BY <1>1, <1>2, <2>1, <2>2
<1>4. /\ through \in DOMAIN seen /\ tx.active[through] /\ through \in Features(m)
      /\ through # current /\ IsSet(m, current, through)
  <2> DEFINE priors == {p \in DOMAIN seen : tx.active[p]}
  <2>1. priors \in SUBSET (DOMAIN seen) /\ priors # {}
    OBVIOUS
  <2>2. Best(seen, priors) \in priors
    <3> HIDE DEF priors
    <3> QED
      BY <1>2, <2>1, BestIs
  <2> QED
    BY <1>2, <2>2
<1> HIDE DEF through
<1>5. through # r => IsSet(m, through, r)
  BY <1>4 DEF Proper, Placeable
<1>6. direct \in Transform
  BY <1>1, <1>4, SetIs
<1>7. through # r => /\ SlotOf(m, through, r).map \in Transform
                     /\ Invert(SlotOf(m, through, r).map) \in Transform
  BY <1>1, <1>5, SetIs
<1>8. current \in Nat /\ through \in Nat /\ r \in Nat
  BY <1>1, <1>3, <1>4
<1>9. to \in Transform
  BY <1>6, <1>7, <1>8, ComposeIs DEF Route
<1>10. ASSUME ~doubtful
       PROVE  to = Measured(tx.sample[current], tx.sample[r])
  <2>1. /\ tx.sample[current] \in Sample /\ tx.sample[through] \in Sample
        /\ tx.sample[r] \in Sample
        /\ ~Doubtful(tx, current, through) /\ ~Doubtful(tx, through, r)
    BY <1>1, <1>3, <1>4, <1>10 DEF DoubtfulThrough
  <2>2. direct = Measured(tx.sample[current], tx.sample[through])
    BY <1>1, <1>2, <1>4, <2>1, MeasuredSlot
  <2>3. CASE through = r
    BY <2>2, <2>3
  <2>4. CASE through > r
    <3>1. SlotOf(m, through, r).map = Measured(tx.sample[through], tx.sample[r])
      BY <1>1, <1>3, <1>4, <1>5, <1>8, <2>1, <2>4, MeasuredSlot
    <3>2. to = Compose(SlotOf(m, through, r).map, direct)
      BY <1>8, <2>4 DEF Route
    <3> QED
      BY <2>1, <2>2, <3>1, <3>2, MeasuredChain
  <2>5. CASE through < r
    <3>1. IsSet(m, r, through) /\ SlotOf(m, through, r) = SlotOf(m, r, through)
      BY <1>1, <1>3, <1>4, <1>5, <1>8, <2>5, PairTurns
    <3>2. SlotOf(m, through, r).map = Measured(tx.sample[r], tx.sample[through])
      BY <1>1, <1>3, <1>4, <1>8, <2>1, <2>5, <3>1, MeasuredSlot
    <3>3. Invert(SlotOf(m, through, r).map) = Measured(tx.sample[through], tx.sample[r])
      BY <2>1, <3>2, MeasuredBack
    <3>4. to = Compose(Invert(SlotOf(m, through, r).map), direct)
      BY <1>8, <2>5 DEF Route
    <3> QED
      BY <2>1, <2>2, <3>3, <3>4, MeasuredChain
  <2> QED
    BY <1>8, <2>3, <2>4, <2>5
<1>11. rank \in Nat
  <2>1. CASE IsSet(m, current, r)
    <3>1. SlotOf(m, current, r) \in Relation
      BY <1>1, <2>1, SetIs
    <3>2. SlotOf(m, current, r).rank \in Nat
      BY <3>1 DEF Relation
    <3> QED
      BY <2>1, <3>2 DEF Rank
  <2>2. CASE ~IsSet(m, current, r)
    BY <2>2 DEF Rank
  <2> QED
    BY <2>1, <2>2
<1>12. u = [tx EXCEPT !.m = SetSlot(m, SlotIndex(m, current, r), rank, to),
                       !.active[current] = TRUE,
                       !.doubt = Marked(@, SlotIndex(m, current, r), doubtful)]
  BY DEF Connected, through
<1> HIDE DEF to, rank, doubtful
<1>13. u = Laid(tx, current, rank, to, doubtful)
  <2>1. current > r
    BY <1>3, <1>8
  <2> HIDE DEF u
  <2> QED
    BY <1>1, <1>12, <2>1 DEF Laid, Transactions
<1>14. Gives(tx, Laid(tx, current, rank, to, doubtful), current, doubtful)
  BY <1>1, <1>3, <1>9, <1>10, <1>11, LaidProper
<1> HIDE DEF u
<1>15. Proper(u) /\ Grown(tx, u)
  BY <1>13, <1>14 DEF Gives
<1> QED
  BY <1>3, <1>15 DEF Entered, Grown, Keeps, u

\* The first pair of views that overlaps enough, or a placed view, places it.
LEMMA LocatedProper ==
  ASSUME NEW tx, Proper(tx), NEW current \in Features(tx.m), NEW seen, Seen(seen, current),
         \A p \in DOMAIN seen : IsSet(tx.m, current, p),
         tx.m.established => tx.m.reference \in 0 .. current - 1
  PROVE  Entered(tx, Located(tx, current, seen), current)
<1> DEFINE best == Best(seen, DOMAIN seen)
           first == seen # << >> /\ ~tx.m.established /\ seen[best].overlap > 205
           placed == \E p \in DOMAIN seen : tx.active[p]
           u == Located(tx, current, seen)
<1>1. CASE first
  <2> DEFINE yes == TRUE
             k == [tx.m EXCEPT !.reference = best, !.established = yes]
             a == [[tx.active EXCEPT ![current] = TRUE] EXCEPT ![best] = TRUE]
  <2>1. /\ tx \in Transactions /\ WellMade(tx) /\ Filled(tx.m) /\ Features(tx.m) \subseteq Nat
        /\ Features(tx.m) = 0 .. tx.m.n - 1 /\ tx.m.n \in 1 .. MaxFeatures
        /\ tx.m \in Matrices /\ tx.active \in [Features(tx.m) -> BOOLEAN]
    BY TransactionIs DEF Proper, Filled, IsMatrix
  <2>2. /\ best \in DOMAIN seen /\ best \in Features(tx.m) /\ best \in 0 .. current - 1
        /\ current \in Nat /\ best # current
    <3>1. DOMAIN seen # {}
      BY <1>1, NoneSeen DEF Seen
    <3>2. current \in Nat
      BY <2>1
    <3>3. best \in DOMAIN seen
      BY <3>1, <3>2, BestIs
    <3> QED
      BY <2>1, <3>2, <3>3 DEF Seen
  <2>3. u = [tx EXCEPT !.active[current] = TRUE, !.active[best] = TRUE,
                       !.m.reference = best, !.m.established = TRUE]
    BY <1>1 DEF Located
  <2> HIDE DEF best, u
  <2>4. u = [tx EXCEPT !.m = k, !.active = a]
    BY <2>1, <2>3 DEF Transactions
  <2>5. /\ k \in Matrices /\ k.n = tx.m.n /\ k.base = tx.m.base /\ k.reference = best
        /\ k.slot = tx.m.slot /\ k.established
    <3>1. best \in NoReference .. MaxFeatures - 1 /\ MaxFeatures \in Nat
      BY SMTT(30), <2>1, <2>2, TemplateAssumption DEF NoReference
    <3>2. yes \in BOOLEAN /\ yes
      OBVIOUS
    <3> HIDE DEF yes
    <3> QED
      BY <2>1, <3>1, <3>2 DEF Matrices
  <2> HIDE DEF k
  <2>6. /\ a \in [Features(tx.m) -> BOOLEAN] /\ a[best]
        /\ \A f \in Features(tx.m) : a[f] => f = current \/ f = best
    BY <1>1, <2>1, <2>2 DEF WellMade
  <2> HIDE DEF a
  <2>7. /\ Features(k) = Features(tx.m)
        /\ \A f, g : SlotIndex(k, f, g) = SlotIndex(tx.m, f, g)
        /\ \A f, g : IsSet(k, f, g) = IsSet(tx.m, f, g) /\ SlotOf(k, f, g) = SlotOf(tx.m, f, g)
    BY <2>5 DEF Features, SlotIndex, IsSet, SlotOf
  <2>8. Filled(k)
    BY <2>1, <2>5, <2>7 DEF Filled, IsMatrix, Rowed
  <2>9. /\ u \in Transactions /\ u.m = k /\ u.active = a /\ u.sample = tx.sample
        /\ u.registration = tx.registration /\ u.order = tx.order /\ u.doubt = tx.doubt
    <3>1. a \in UNION {[0 .. n - 1 -> BOOLEAN] : n \in 1 .. MaxFeatures}
      BY <2>1, <2>6, ActiveIs
    <3> QED
      BY <2>1, <2>4, <2>5, <3>1 DEF Transactions
  <2>10. Truthful(k, tx.sample, tx.doubt) /\ tx.doubt \subseteq DOMAIN k.slot
    BY <2>1, <2>5, <2>7 DEF WellMade, Truthful
  <2>11. WellMade(u)
    BY <2>1, <2>2, <2>5, <2>6, <2>7, <2>8, <2>9, <2>10 DEF WellMade
  <2>12. IsSet(k, current, best)
    BY <2>2, <2>7
  <2>13. Placeable(u)
    BY <2>5, <2>6, <2>7, <2>9, <2>12 DEF Placeable
  <2> QED
    BY <2>2, <2>5, <2>7, <2>9, <2>11, <2>13 DEF Entered, Proper, u
<1>2. CASE ~first /\ placed
  <2>1. u = Connected(tx, current, seen)
    BY <1>2 DEF Located
  <2> HIDE DEF u
  <2> QED
    BY <1>2, <2>1, ConnectedProper DEF u
<1>3. CASE ~first /\ ~placed
  <2>1. u = tx
    BY <1>3 DEF Located
  <2> QED
    BY <2>1 DEF Entered
<1> QED
  BY <1>1, <1>2, <1>3

\* goodix_enrollment_transaction_insert before it closes the matrix: the new
\* view is registered, placed and bridged.
LEMMA JoiningProper ==
  ASSUME NEW tx, Proper(tx), NEW current \in Features(tx.m), NEW seen, Seen(seen, current),
         tx.m.established => tx.m.reference \in 0 .. current - 1
  PROVE  Entered(tx, Joining(tx, current, seen), current)
<1> DEFINE v == Registered(tx, current, seen)
           w == Located(v, current, seen)
           u == Bridged(w, current, seen)
<1>1. Proper(v) /\ Grown(tx, v) /\ \A p \in DOMAIN seen : IsSet(v.m, current, p)
  BY RegisteredProper
<1>2. Joining(tx, current, seen) = u
  BY DEF Joining
<1> HIDE DEF v
<1>3. /\ Features(v.m) = Features(tx.m) /\ v.m.n = tx.m.n /\ v.order = tx.order
      /\ v.m.established => v.m.reference \in 0 .. current - 1
      /\ \A f, g \in Features(tx.m) : IsSet(tx.m, f, g) => IsSet(v.m, f, g)
  BY <1>1 DEF Grown, Keeps
<1>4. Entered(v, w, current)
  BY <1>1, <1>3, LocatedProper
<1> HIDE DEF w
<1>5. DOMAIN seen \subseteq 0 .. current - 1 /\ DOMAIN seen \subseteq Features(tx.m)
  <2>1. Features(tx.m) = 0 .. tx.m.n - 1 /\ tx.m.n \in Nat
    BY TransactionIs DEF Proper
  <2> QED
    BY <2>1 DEF Seen
<1>6. Proper(w) /\ \A p \in DOMAIN seen : IsSet(w.m, current, p)
  BY <1>1, <1>3, <1>4, <1>5 DEF Entered
<1>7. Proper(u) /\ Grown(w, u)
  BY <1>3, <1>4, <1>5, <1>6, BridgedProper DEF Entered
<1> HIDE DEF u
<1>8. u.sample = tx.sample
  BY <1>1, <1>4, <1>7 DEF Entered, Grown
<1> QED
  BY <1>2, <1>3, <1>4, <1>7, <1>8 DEF Entered, Grown, Keeps

-----------------------------------------------------------------------------
(* Closing *)

ClosingFields == {"m", "active", "doubt", "visited", "work", "quality"}

\* The state of a closing: the transaction's matrix, with more relations, and
\* its active views, with more.
Closing(s, tx) ==
  /\ DOMAIN s = ClosingFields
  /\ Filled(s.m) /\ Keeps(tx.m, s.m)
  /\ s.active \in [Features(tx.m) -> BOOLEAN]
  /\ \A f \in Features(tx.m) : tx.active[f] => s.active[f]
  /\ ~tx.m.established => \A f \in Features(tx.m) : ~s.active[f]
  /\ s.doubt \in SUBSET Nat /\ s.doubt \subseteq DOMAIN s.m.slot
  /\ Truthful(s.m, tx.sample, s.doubt)
  /\ s.work \in Seq(Features(tx.m))

\* Every view of the stack has a path to the root.
Anchored(s, root) ==
  /\ root \in s.visited
  /\ \A i \in 1 .. Len(s.work) : s.work[i] = root \/ IsSet(s.m, root, s.work[i])

\* A relation, read towards its first view.
LEMMA ToFirstIs ==
  ASSUME NEW m, Filled(m), NEW f \in Features(m), NEW g \in Features(m), f # g, IsSet(m, f, g)
  PROVE  ToFirst(m, f, g) = Lead(m, f, g) /\ ToFirst(m, f, g) \in Transform
BY SetIs DEF ToFirst, Lead

\* A view is put on the stack.
Pushed(s, f, quality) ==
  [s EXCEPT !.visited = @ \cup {f}, !.work = Append(@, f), !.quality = quality]

\* It is one with a path to the root.
LEMMA PushedCloses ==
  ASSUME NEW tx, WellMade(tx), NEW s, Closing(s, tx), NEW root, Anchored(s, root),
         NEW f \in Features(tx.m), IsSet(s.m, root, f), NEW quality
  PROVE  LET u == Pushed(s, f, quality) IN
         /\ Closing(u, tx) /\ Anchored(u, root)
         /\ u.m = s.m /\ u.active = s.active /\ u.work = Append(s.work, f)
<1> DEFINE stack == Append(s.work, f)
           u == Pushed(s, f, quality)
<1>1. /\ DOMAIN u = ClosingFields /\ u.m = s.m /\ u.active = s.active /\ u.work = stack
      /\ u.visited = s.visited \cup {f} /\ u.doubt = s.doubt
  BY DEF Closing, ClosingFields, Pushed
<1> HIDE DEF u
<1>2. /\ stack \in Seq(Features(tx.m)) /\ Len(stack) = Len(s.work) + 1 /\ Len(s.work) \in Nat
      /\ \A i \in 1 .. Len(s.work) : stack[i] = s.work[i]
      /\ stack[Len(s.work) + 1] = f
  BY DEF Closing
<1> HIDE DEF stack
<1>3. Closing(u, tx)
  BY <1>1, <1>2 DEF Closing
<1>4. ASSUME NEW i \in 1 .. Len(stack)
      PROVE  stack[i] = root \/ IsSet(s.m, root, stack[i])
  <2>1. CASE i = Len(s.work) + 1
    BY <1>2, <2>1
  <2>2. CASE i # Len(s.work) + 1
    <3>1. i \in 1 .. Len(s.work)
      BY <1>2, <2>2
    <3> QED
      BY <1>2, <3>1 DEF Anchored
  <2> QED
    BY <2>1, <2>2
<1>5. Anchored(u, root)
  BY <1>1, <1>4 DEF Anchored
<1> QED
  BY <1>1, <1>3, <1>5 DEF u, stack

\* One candidate.
LEMMA CandidateCloses ==
  ASSUME NEW tx, WellMade(tx), NEW s, Closing(s, tx), NEW root \in Features(tx.m),
         Anchored(s, root), NEW current \in Features(tx.m),
         current = root \/ IsSet(s.m, root, current), NEW candidate \in Features(tx.m)
  PROVE  LET u == CloseCandidate(s, root, current, candidate) IN
         Closing(u, tx) /\ Anchored(u, root) /\ Keeps(s.m, u.m)
<1> DEFINE edge == Rank(s.m, current, candidate)
           toRoot == IF current = root THEN Identity ELSE ToFirst(s.m, root, current)
           known == IF current = root THEN 0 ELSE Rank(s.m, root, current)
           bottleneck == IF known < edge THEN known ELSE edge
           quality == With(s.quality, {current, candidate}, edge)
           seen == Pushed(s, candidate, quality)
           pair == {root, candidate}
           direct == Rank(s.m, root, candidate)
           kept == direct > 2 \/ (direct = 2 /\ seen.quality[pair] >= bottleneck)
           map == Compose(toRoot, ToFirst(s.m, current, candidate))
           laid == IF candidate > root THEN map ELSE Invert(map)
           k == SetSlot(s.m, SlotIndex(s.m, root, candidate), 2, laid)
           active == [f \in DOMAIN s.active |->
                        s.active[f] \/ (f \in pair /\ \E g \in pair : s.active[g])]
           at == SlotIndex(s.m, root, candidate)
           doubtful == Doubtful(s, root, current) \/ Doubtful(s, current, candidate)
           now == Marked(s.doubt, at, doubtful)
           u == CloseCandidate(s, root, current, candidate)
<1>0. /\ Filled(s.m) /\ Features(s.m) = Features(tx.m) /\ Features(tx.m) \subseteq Nat
      /\ tx.sample \in [Features(tx.m) -> Sample] /\ s.active \in [Features(tx.m) -> BOOLEAN]
      /\ DOMAIN s = ClosingFields /\ Keeps(s.m, s.m)
      /\ root \in Nat /\ candidate \in Nat /\ current \in Nat
  BY TransactionIs DEF Closing, Keeps
<1>1. CASE candidate \in s.visited \/ candidate = current \/ edge <= 0
  <2>1. u = s
    BY <1>1 DEF CloseCandidate
  <2> QED
    BY <1>0, <2>1
<1>2. CASE ~(candidate \in s.visited \/ candidate = current \/ edge <= 0)
  <2>1. IsSet(s.m, current, candidate) /\ candidate # current /\ candidate # root
    BY <1>2 DEF Rank, Anchored
  <2>2. CASE current = root \/ kept
    <3>1. IsSet(s.m, root, candidate)
      BY <2>1, <2>2 DEF Rank
    <3>2. u = seen
      BY <1>2, <2>2 DEF CloseCandidate, Pushed
    <3>3. Closing(seen, tx) /\ Anchored(seen, root) /\ seen.m = s.m
      <4> HIDE DEF quality
      <4> QED
        BY <3>1, PushedCloses
    <3> QED
      BY <1>0, <3>2, <3>3
  <2>3. CASE ~(current = root \/ kept)
    <3>1. IsSet(s.m, root, current) /\ current # root
      BY <2>3
    <3>2. u = [seen EXCEPT !.m = StoreToFirst(s.m, root, candidate, map),
                           !.doubt = now,
                           !.quality = With(seen.quality, pair, bottleneck), !.active = active]
      <4>1. /\ seen.m = s.m /\ seen.active = s.active /\ seen.doubt = s.doubt
        BY <1>0 DEF ClosingFields, Pushed
      <4>2. u = [seen EXCEPT !.m = StoreToFirst(seen.m, root, candidate, map),
                             !.doubt = Marked(seen.doubt, at, doubtful),
                             !.quality = With(seen.quality, pair, bottleneck),
                             !.active = [f \in DOMAIN seen.active |->
                                seen.active[f] \/ (f \in pair /\ \E g \in pair : seen.active[g])]]
        BY <1>2, <2>3 DEF CloseCandidate, Pushed
      <4> HIDE DEF seen, u, map, pair, bottleneck, at, doubtful
      <4> QED
        BY <4>1, <4>2
    <3>3. /\ ToFirst(s.m, current, candidate) \in Transform
          /\ ToFirst(s.m, current, candidate) = Lead(s.m, current, candidate)
          /\ toRoot \in Transform /\ toRoot = Lead(s.m, root, current)
      BY <1>0, <2>1, <3>1, ToFirstIs
    <3>4. map \in Transform /\ Invert(map) \in Transform /\ laid \in Transform
      BY <3>3, ComposeIs, InvertIs
    <3>5. ASSUME ~doubtful
          PROVE  map = Measured(tx.sample[candidate], tx.sample[root])
      <4>1. /\ Truthful(s.m, tx.sample, s.doubt)
            /\ SlotIndex(s.m, current, candidate) \notin s.doubt
            /\ SlotIndex(s.m, root, current) \notin s.doubt
        BY <2>1, <3>1, <3>5 DEF Closing, Doubtful
      <4>2. /\ tx.sample[candidate] \in Sample /\ tx.sample[root] \in Sample
            /\ tx.sample[current] \in Sample
        BY <1>0
      <4>3. Lead(s.m, current, candidate) = Measured(tx.sample[candidate], tx.sample[current])
        BY <1>0, <2>1, <4>1, LeadIs
      <4>4. Lead(s.m, root, current) = Measured(tx.sample[current], tx.sample[root])
        BY <1>0, <3>1, <4>1, LeadIs
      <4> QED
        BY <3>3, <4>2, <4>3, <4>4, MeasuredChain
    <3> HIDE DEF map
    <3>6. Truthful(k, tx.sample, now)
      <4>1. Truthful(s.m, tx.sample, s.doubt)
        BY DEF Closing
      <4>2. /\ tx.sample[candidate] \in Sample /\ tx.sample[root] \in Sample
            /\ tx.sample \in [Features(s.m) -> Sample]
        BY <1>0
      <4>3. ~doubtful /\ root > candidate
              => laid = Measured(tx.sample[root], tx.sample[candidate])
        BY <1>0, <3>5, <4>2, MeasuredBack
      <4>4. ~doubtful /\ candidate > root
              => laid = Measured(tx.sample[candidate], tx.sample[root])
        BY <3>5
      <4>5. doubtful \in BOOLEAN
        OBVIOUS
      <4> HIDE DEF laid, doubtful
      <4> QED
        BY <1>0, <2>1, <3>4, <4>1, <4>2, <4>3, <4>4, <4>5, SetSlotTruthful
    <3>7. Filled(k) /\ Keeps(s.m, k) /\ IsSet(k, root, candidate)
      <4> HIDE DEF laid
      <4> QED
        BY <1>0, <2>1, <3>4, SetSlotFilled
    <3>15. now \in SUBSET Nat /\ now \subseteq DOMAIN k.slot
      <4>1. s.m \in Matrices
        BY <1>0 DEF Filled, IsMatrix
      <4>2. DOMAIN k.slot = DOMAIN s.m.slot \cup {at}
        <5> HIDE DEF at, laid
        <5> QED
          BY <4>1 DEF SetSlot, With, Matrices, at
      <4>3. at \in Nat
        BY <1>0, <2>1, PairIs
      <4>4. s.doubt \in SUBSET Nat /\ s.doubt \subseteq DOMAIN s.m.slot
        BY DEF Closing
      <4> HIDE DEF at, k, doubtful
      <4> QED
        BY <4>2, <4>3, <4>4 DEF Marked
    <3>8. StoreToFirst(s.m, root, candidate, map) = k
      BY DEF StoreToFirst
    <3> HIDE DEF k, now
    <3>9. /\ active \in [Features(tx.m) -> BOOLEAN]
          /\ \A f \in Features(tx.m) : s.active[f] => active[f]
          /\ (\A f \in Features(tx.m) : ~s.active[f]) => \A f \in Features(tx.m) : ~active[f]
      BY <1>0
    <3> DEFINE v == [s EXCEPT !.m = k, !.active = active, !.doubt = now]
               q == With(seen.quality, pair, bottleneck)
               w == Pushed(v, candidate, q)
    <3> HIDE DEF active, q
    <3>10. /\ DOMAIN v = ClosingFields /\ v.m = k /\ v.active = active /\ v.work = s.work
           /\ v.visited = s.visited /\ v.doubt = now
      BY <1>0 DEF ClosingFields
    <3>11. u = w
      <4>1. u = [seen EXCEPT !.m = k, !.doubt = now, !.quality = q, !.active = active]
        BY <3>2, <3>8 DEF q, active
      <4> HIDE DEF quality, u
      <4> QED
        BY <1>0, <4>1 DEF ClosingFields, Pushed
    <3> HIDE DEF v
    <3>12. Closing(v, tx)
      BY <1>0, <3>6, <3>7, <3>9, <3>10, <3>15, KeepsTransitive DEF Closing
    <3>13. Anchored(v, root)
      <4> SUFFICES ASSUME NEW i \in 1 .. Len(s.work), s.work[i] # root
                   PROVE  IsSet(k, root, s.work[i])
        BY <3>10 DEF Anchored
      <4>1. IsSet(s.m, root, s.work[i]) /\ s.work[i] \in Features(tx.m)
        BY DEF Anchored, Closing
      <4> QED
        BY <1>0, <3>7, <4>1 DEF Keeps
    <3>14. Closing(w, tx) /\ Anchored(w, root) /\ w.m = k
      <4>1. IsSet(v.m, root, candidate)
        BY <3>7, <3>10
      <4>2. Closing(w, tx) /\ Anchored(w, root) /\ w.m = v.m
        <5>1. Closing(w, tx)
          BY <3>12, <3>13, <4>1, PushedCloses, Zenon
        <5>2. Anchored(w, root)
          BY <3>12, <3>13, <4>1, PushedCloses, Zenon
        <5>3. w.m = v.m
          BY <3>10 DEF Pushed, ClosingFields
        <5> QED
          BY <5>1, <5>2, <5>3
      <4> QED
        BY <3>10, <4>2
    <3> HIDE DEF w, u
    <3> QED
      BY <3>7, <3>11, <3>14 DEF u
  <2> QED
    BY <2>2, <2>3
<1> QED
  BY <1>1, <1>2

\* All the candidates of one view.
LEMMA FromCloses ==
  ASSUME NEW tx, WellMade(tx), NEW s, Closing(s, tx), NEW root \in Features(tx.m),
         Anchored(s, root), NEW current \in Features(tx.m),
         current = root \/ IsSet(s.m, root, current)
  PROVE  LET u == CloseFrom(s, root, current) IN Closing(u, tx) /\ Anchored(u, root)
<1> DEFINE n == tx.m.n
           Fits0(x) == Closing(x, tx) /\ Anchored(x, root) /\ Keeps(s.m, x.m)
<1>1. n \in Nat /\ Features(tx.m) = 0 .. n - 1 /\ s.m.n = n /\ Features(s.m) = Features(tx.m)
  BY TransactionIs DEF Closing, Keeps
<1> HIDE DEF n
<1>2. PICK d : CloseFrom(s, root, current) = d[n] /\ FromTurns(d, n, s, root, current)
  BY <1>1, CloseFromUnfolds
<1> DEFINE S == {i \in 0 .. n : Fits0(d[i])}
<1>3. 0 \in S
  BY <1>1, <1>2 DEF Keeps, FromTurns
<1>4. ASSUME NEW i \in 1 .. n, i - 1 \in S
      PROVE  i \in S
  <2>1. n - i \in Features(tx.m) /\ d[i] = CloseCandidate(d[i - 1], root, current, n - i)
    BY <1>1, <1>2 DEF FromTurns
  <2>2. Closing(d[i - 1], tx) /\ Anchored(d[i - 1], root) /\ Keeps(s.m, d[i - 1].m)
    BY <1>4
  <2>3. current = root \/ IsSet(d[i - 1].m, root, current)
    BY <1>1, <2>2 DEF Keeps
  <2>4. Closing(d[i], tx) /\ Anchored(d[i], root) /\ Keeps(d[i - 1].m, d[i].m)
    BY <2>1, <2>2, <2>3, CandidateCloses
  <2> QED
    BY <1>1, <2>2, <2>4, KeepsTransitive
<1>5. n \in S
  <2>1. \A i \in 1 .. n : i - 1 \in S => i \in S
    BY <1>4
  <2> HIDE DEF S
  <2>2. \A i \in 0 .. n : i \in S
    BY <1>1, <1>3, <2>1, TurnByTurn
  <2> QED
    BY <1>1, <2>2
<1> QED
  BY <1>2, <1>5

\* One view taken from the stack.
LEMMA PopCloses ==
  ASSUME NEW tx, WellMade(tx), NEW s, Closing(s, tx), NEW root \in Features(tx.m),
         Anchored(s, root)
  PROVE  LET u == ClosePop(s, root) IN Closing(u, tx) /\ Anchored(u, root)
<1> DEFINE last == Len(s.work)
           current == s.work[last]
           stack == SubSeq(s.work, 1, last - 1)
           quality == IF current = root THEN s.quality
                      ELSE With(s.quality, {root, current}, Rank(s.m, root, current))
           v == [s EXCEPT !.work = stack, !.quality = quality]
<1>1. s.work \in Seq(Features(tx.m)) /\ last \in Nat /\ DOMAIN s = ClosingFields
  BY DEF Closing
<1>2. CASE last = 0
  BY <1>2 DEF ClosePop
<1>3. CASE last # 0
  <2>1. ClosePop(s, root) = CloseFrom(v, root, current)
    BY <1>3 DEF ClosePop
  <2>2. /\ current \in Features(tx.m)
        /\ current = root \/ IsSet(s.m, root, current)
    BY <1>1, <1>3 DEF Anchored
  <2>3. /\ stack \in Seq(Features(tx.m)) /\ Len(stack) = last - 1
        /\ \A i \in 1 .. last - 1 : stack[i] = s.work[i]
    BY <1>1, <1>3
  <2> HIDE DEF stack, quality
  <2>4. /\ DOMAIN v = ClosingFields /\ v.m = s.m /\ v.active = s.active /\ v.work = stack
        /\ v.visited = s.visited /\ v.doubt = s.doubt
    BY <1>1 DEF ClosingFields
  <2> HIDE DEF v
  <2>5. Closing(v, tx)
    BY <2>3, <2>4 DEF Closing
  <2>6. Anchored(v, root)
    BY <1>1, <2>3, <2>4 DEF Anchored
  <2>7. current = root \/ IsSet(v.m, root, current)
    BY <2>2, <2>4
  <2> HIDE DEF current
  <2> QED
    BY <2>1, <2>2, <2>5, <2>6, <2>7, FromCloses
<1> QED
  BY <1>2, <1>3

\* The stack of one root.
LEMMA RootCloses ==
  ASSUME NEW tx, WellMade(tx), NEW s, Closing(s, tx), NEW root \in Features(tx.m)
  PROVE  Closing(CloseRoot(s, root), tx)
<1> DEFINE n == tx.m.n
           v == [s EXCEPT !.visited = {root}, !.work = <<root>>]
<1>1. n \in Nat /\ s.m.n = n
  BY TransactionIs DEF Closing, Keeps
<1>2. Closing(v, tx) /\ Anchored(v, root)
  <2>1. /\ DOMAIN v = ClosingFields /\ v.m = s.m /\ v.active = s.active
        /\ v.visited = {root} /\ v.work = <<root>> /\ v.doubt = s.doubt
    BY DEF Closing, ClosingFields
  <2> HIDE DEF v
  <2>2. <<root>> \in Seq(Features(tx.m)) /\ \A i \in 1 .. Len(<<root>>) : <<root>>[i] = root
    OBVIOUS
  <2>3. Closing(v, tx)
    BY <2>1, <2>2 DEF Closing
  <2> QED
    BY <2>1, <2>2, <2>3 DEF Anchored
<1> HIDE DEF n, v
<1>3. PICK d : CloseRoot(s, root) = d[n] /\ RootTurns(d, n, s, root)
  BY <1>1, CloseRootUnfolds
<1> DEFINE S == {i \in 0 .. n : Closing(d[i], tx) /\ Anchored(d[i], root)}
<1>4. 0 \in S
  BY <1>1, <1>2, <1>3 DEF RootTurns, v
<1>5. ASSUME NEW i \in 1 .. n, i - 1 \in S
      PROVE  i \in S
  <2>1. d[i] = ClosePop(d[i - 1], root)
    BY <1>3 DEF RootTurns
  <2>2. Closing(d[i - 1], tx) /\ Anchored(d[i - 1], root)
    BY <1>5
  <2>3. Closing(d[i], tx) /\ Anchored(d[i], root)
    BY <2>1, <2>2, PopCloses
  <2> QED
    BY <2>3
<1>6. n \in S
  <2>1. \A i \in 1 .. n : i - 1 \in S => i \in S
    BY <1>5
  <2> HIDE DEF S
  <2>2. \A i \in 0 .. n : i \in S
    BY <1>1, <1>4, <2>1, TurnByTurn
  <2> QED
    BY <1>1, <2>2
<1> QED
  BY <1>3, <1>6

\* u has the views and the reference of tx.
SameGraph(tx, u) ==
  /\ u.m.n = tx.m.n /\ u.order = tx.order /\ u.sample = tx.sample
  /\ u.m.established = tx.m.established /\ u.m.reference = tx.m.reference

\* goodix_milan_relation_matrix_close
LEMMA CloseMade ==
  ASSUME NEW tx, WellMade(tx)
  PROVE  WellMade(Close(tx)) /\ SameGraph(tx, Close(tx))
<1> DEFINE n == tx.m.n
           u == Close(tx)
<1>1. /\ n \in Nat /\ Features(tx.m) = 0 .. n - 1 /\ tx \in Transactions /\ Filled(tx.m)
      /\ tx.active \in [Features(tx.m) -> BOOLEAN] /\ tx.doubt \in SUBSET Nat
  BY TransactionIs
<1> HIDE DEF n
<1>2. PICK d : /\ Close(tx) = [tx EXCEPT !.m = d[n].m, !.active = d[n].active,
                                          !.doubt = d[n].doubt]
               /\ CloseTurns(d, n, tx)
  BY <1>1, CloseUnfolds DEF n
<1> DEFINE S == {i \in 0 .. n : Closing(d[i], tx)}
<1>3. 0 \in S
  <2>1. /\ DOMAIN d[0] = ClosingFields /\ d[0].m = tx.m /\ d[0].active = tx.active
        /\ d[0].work = << >> /\ d[0].doubt = tx.doubt
    BY <1>2 DEF Unclosed, ClosingFields, CloseTurns
  <2>2. << >> \in Seq(Features(tx.m)) /\ Keeps(tx.m, tx.m)
    BY DEF Keeps
  <2>3. Closing(d[0], tx)
    BY <1>1, <2>1, <2>2 DEF Closing, WellMade
  <2> QED
    BY <1>1, <2>3
<1>4. ASSUME NEW i \in 1 .. n, i - 1 \in S
      PROVE  i \in S
  <2>1. d[i] = CloseRoot(d[i - 1], i - 1) /\ i - 1 \in Features(tx.m)
    BY <1>1, <1>2 DEF CloseTurns
  <2>2. Closing(d[i], tx)
    BY <1>4, <2>1, RootCloses
  <2> QED
    BY <2>2
<1>5. n \in S
  <2>1. \A i \in 1 .. n : i - 1 \in S => i \in S
    BY <1>4
  <2> HIDE DEF S
  <2>2. \A i \in 0 .. n : i \in S
    BY <1>1, <1>3, <2>1, TurnByTurn
  <2> QED
    BY <1>1, <2>2
<1>6. /\ Closing(d[n], tx) /\ Filled(d[n].m) /\ Keeps(tx.m, d[n].m) /\ d[n].m \in Matrices
      /\ d[n].active \in [Features(tx.m) -> BOOLEAN] /\ d[n].doubt \in SUBSET Nat
  BY <1>5 DEF Closing, Filled, IsMatrix
<1> DEFINE k == d[n].m
           a == d[n].active
           now == d[n].doubt
<1>7. /\ k.n = n /\ k.established = tx.m.established /\ k.reference = tx.m.reference
      /\ Features(k) = Features(tx.m)
  BY <1>6 DEF Keeps, n
<1> HIDE DEF k, a, now, u
<1>8. /\ u \in Transactions /\ u.m = k /\ u.active = a /\ u.sample = tx.sample
      /\ u.registration = tx.registration /\ u.order = tx.order /\ u.doubt = now
  <2>1. a \in UNION {[0 .. j - 1 -> BOOLEAN] : j \in 1 .. MaxFeatures}
    BY <1>6, <1>7, ActiveIs DEF k, a
  <2>2. u = [tx EXCEPT !.m = k, !.active = a, !.doubt = now]
    BY <1>2 DEF u, k, a, now
  <2>3. k \in Matrices /\ now \in SUBSET Nat
    BY SMTT(30), <1>6 DEF k, now
  <2> QED
    BY <1>1, <2>1, <2>2, <2>3 DEF Transactions
<1>9. WellMade(u)
  BY <1>1, <1>6, <1>7, <1>8 DEF WellMade, Closing, k, a, now, n
<1> QED
  BY <1>7, <1>8, <1>9 DEF SameGraph, u, n

-----------------------------------------------------------------------------
(* An insertion, and its rollback *)

\* A template's matrix is closed when it is full.
LEMMA ClosedMade ==
  ASSUME NEW tx, WellMade(tx)
  PROVE  /\ WellMade(Closed(tx)) /\ SameGraph(tx, Closed(tx))
         /\ tx.m.n # MaxFeatures => Closed(tx) = tx
BY CloseMade DEF Closed, SameGraph

\* What an insertion has done.
Extended(tx, u) ==
  /\ WellMade(u) /\ tx.m.n \in Nat /\ u.m.n = tx.m.n + 1 /\ u.order = tx.m.n + 1
  /\ u.m.n < MaxFeatures => Placeable(u)
  /\ u.m.established => u.m.reference \in 0 .. tx.m.n - 1

\* goodix_enrollment_transaction_insert
LEMMA InsertedMade ==
  ASSUME NEW tx, Begun(tx), tx.m.n < MaxFeatures, NEW sample \in Sample,
         NEW seen, Seen(seen, tx.m.n)
  PROVE  Extended(tx, Inserted(tx, sample, seen))
<1> DEFINE n == tx.m.n
           v == Appended(tx, sample)
           w == Joining(v, n, seen)
           x == [w EXCEPT !.order = n + 1]
           u == Inserted(tx, sample, seen)
<1>1. Opened(tx, v)
  BY AppendedProper
<1>2. u = Closed(x)
  BY DEF Inserted
<1> HIDE DEF v
<1>3. /\ Proper(v) /\ v.m.n = n + 1 /\ n \in Nat
      /\ v.m.established => v.m.reference \in 0 .. n - 1
  BY <1>1 DEF Opened
<1>4. n \in Features(v.m)
  BY <1>3 DEF Features
<1>5. Entered(v, w, n)
  <2>1. Seen(seen, n)
    OBVIOUS
  <2> HIDE DEF n
  <2> QED
    BY <1>3, <1>4, <2>1, JoiningProper
<1> HIDE DEF w
<1>6. /\ Proper(w) /\ WellMade(w) /\ Placeable(w) /\ w.m.n = n + 1 /\ w \in Transactions
      /\ w.m.established => w.m.reference \in 0 .. n - 1
  BY <1>3, <1>5 DEF Entered, Proper, WellMade
<1> HIDE DEF n, u
<1>7. /\ x \in Transactions /\ x.m = w.m /\ x.sample = w.sample /\ x.active = w.active
      /\ x.registration = w.registration /\ x.doubt = w.doubt /\ x.order = n + 1
  <2>1. n + 1 \in Nat /\ w \in Transactions
    BY <1>3, <1>6
  <2> QED
    BY <2>1 DEF Transactions
<1> HIDE DEF x
<1>8. WellMade(x) /\ Placeable(x)
  BY <1>6, <1>7 DEF WellMade, Placeable
<1>9. WellMade(u) /\ SameGraph(x, u) /\ (x.m.n # MaxFeatures => u = x)
  BY <1>2, <1>8, ClosedMade
<1>10. /\ u.m.n = n + 1 /\ u.order = n + 1
       /\ u.m.established => u.m.reference \in 0 .. n - 1
  BY <1>6, <1>7, <1>9 DEF SameGraph
<1>11. u.m.n < MaxFeatures => Placeable(u)
  <2> SUFFICES ASSUME u.m.n < MaxFeatures PROVE Placeable(u)
    OBVIOUS
  <2>1. x.m.n # MaxFeatures
    BY <1>3, <1>6, <1>7, <1>10, TemplateAssumption
  <2> QED
    BY <1>8, <1>9, <2>1
<1> QED
  BY <1>3, <1>9, <1>10, <1>11 DEF Extended, u, n

\* goodix_enrollment_transaction_delete_last
LEMMA DeleteLastMade ==
  ASSUME NEW tx, WellMade(tx), tx.m.n > 1, tx.m.established => tx.m.reference \in 0 .. tx.m.n - 2
  PROVE  LET u == DeleteLast(tx) IN
         WellMade(u) /\ u.m.n = tx.m.n - 1 /\ u.order = tx.order
<1> DEFINE m == tx.m
           last == m.n - 1
           start == m.base[last]
           gone == {i \in start .. tx.registration - 1 : i >= 1}
           s == Restrict(m.slot, DOMAIN m.slot \ gone)
           shorter == Unset(m, gone)
           lost == last = m.reference
           base == Restrict(shorter.base, 0 .. last - 1)
           k == [shorter EXCEPT !.n = last, !.base = base, !.established = @ /\ ~lost]
           o == Restrict(tx.overlap, DOMAIN tx.overlap \ (start .. tx.registration - 1))
           shown == Restrict(tx.sample, 0 .. last - 1)
           a == [f \in 0 .. last - 1 |-> tx.active[f] /\ ~lost]
           now == tx.doubt \ (start .. tx.registration - 1)
           u == DeleteLast(tx)
<1>1. /\ tx \in Transactions /\ Filled(m) /\ m \in Matrices /\ m.n \in 2 .. MaxFeatures
      /\ last \in 1 .. MaxFeatures - 1 /\ last \in Nat /\ MaxFeatures \in Nat
      /\ Features(m) = 0 .. last
      /\ m.slot \in [DOMAIN m.slot -> Relation] /\ DOMAIN m.slot \in SUBSET Nat
      /\ tx.sample \in [0 .. last -> Sample] /\ tx.active \in [0 .. last -> BOOLEAN]
      /\ tx.overlap \in Overlaps /\ tx.doubt \in SUBSET Nat
      /\ tx.doubt \subseteq DOMAIN m.slot /\ Truthful(m, tx.sample, tx.doubt)
  <2>1. m.slot \in Slots
    BY TransactionIs
  <2>2. m.slot \in [DOMAIN m.slot -> Relation] /\ DOMAIN m.slot \in SUBSET Nat
    BY <2>1, SlotsAre
  <2> QED
    BY <2>2, TransactionIs, TemplateAssumption DEF WellMade, Filled, IsMatrix
<1>0. last = m.n - 1
  OBVIOUS
<1> HIDE DEF last
<1>2. ~lost
  BY <1>0, <1>1 DEF WellMade, NoReference
<1>3. \A f \in 0 .. last : m.base[f] = RowBase(f)
  BY <1>1 DEF Filled, IsMatrix, Rowed
<1>4. start = RegistrationCount(last) /\ start \in Nat /\ start >= 1
  <2>1. last \in 0 .. last /\ last \in Nat /\ last > 0
    BY <1>1
  <2>2. start = RowBase(last)
    BY <1>3, <2>1
  <2> HIDE DEF start
  <2> QED
    BY <2>1, <2>2, RowIs
<1>5. tx.registration = RegistrationCount(m.n) /\ DOMAIN m.slot \subseteq 1 .. tx.registration - 1
      /\ tx.registration \in Nat
  BY <1>1, RowIs, TransactionIs DEF WellMade, Filled
<1> HIDE DEF start
<1>6. DOMAIN m.slot \ gone = DOMAIN m.slot \cap (1 .. start - 1)
  BY <1>1, <1>4, <1>5
<1>7. /\ DOMAIN s = DOMAIN m.slot \cap (1 .. start - 1)
      /\ \A i \in DOMAIN s : s[i] = m.slot[i]
      /\ s \in Slots
  <2>1. s = [i \in DOMAIN m.slot \cap (1 .. start - 1) |-> m.slot[i]]
    BY <1>6 DEF Restrict
  <2>2. /\ s \in [DOMAIN m.slot \cap (1 .. start - 1) -> Relation]
        /\ DOMAIN m.slot \cap (1 .. start - 1) \in SUBSET Nat
    BY <1>1, <2>1
  <2> HIDE DEF s
  <2> QED
    BY <2>1, <2>2, SlotsAre
<1>8. base = [f \in 0 .. last - 1 |-> RowBase(f)] /\ base \in [0 .. last - 1 -> Nat]
  <2>1. ASSUME NEW f \in 0 .. last - 1
        PROVE  RowBase(f) \in Nat /\ m.base[f] = RowBase(f)
    <3>1. f \in Nat /\ f \in 0 .. last
      BY <1>1
    <3> QED
      BY <1>3, <3>1, RowIs
  <2>2. shorter.base = m.base
    BY <1>1 DEF Unset, Matrices
  <2> HIDE DEF shorter
  <2>3. base = [f \in 0 .. last - 1 |-> RowBase(f)]
    BY <2>1, <2>2 DEF Restrict
  <2> HIDE DEF base
  <2> QED
    BY <2>1, <2>3
<1>9. base \in UNION {[0 .. j - 1 -> Nat] : j \in 1 .. MaxFeatures}
  <2> HIDE DEF base
  <2> QED
    BY <1>1, <1>8
<1>23. now \in SUBSET Nat /\ now \subseteq DOMAIN s
  <2> HIDE DEF s
  <2> QED
    BY <1>1, <1>4, <1>5, <1>7
<1>10. o \in Overlaps
  <2>1. tx.overlap \in [DOMAIN tx.overlap -> 0 .. 255] /\ DOMAIN tx.overlap \in SUBSET Nat
    <3>1. tx.overlap \in Overlaps
      BY <1>1
    <3> QED
      BY ZenonT(40), <3>1 DEF Overlaps
  <2>2. /\ DOMAIN tx.overlap \ (start .. tx.registration - 1) \in SUBSET Nat
        /\ o \in [DOMAIN tx.overlap \ (start .. tx.registration - 1) -> 0 .. 255]
    BY <2>1 DEF Restrict
  <2> HIDE DEF o
  <2> QED
    BY SMTT(30), <2>2 DEF Overlaps
<1>11. /\ shown \in [0 .. last - 1 -> Sample] /\ \A f \in 0 .. last - 1 : shown[f] = tx.sample[f]
  BY <1>1 DEF Restrict
<1>12. a \in [0 .. last - 1 -> BOOLEAN] /\ \A f \in 0 .. last - 1 : a[f] <=> tx.active[f]
  BY <1>1, <1>2
<1>13. u = [tx EXCEPT !.m = k, !.registration = start, !.overlap = o, !.sample = shown,
                       !.active = a, !.doubt = now]
  <2> HIDE DEF lost
  <2> QED
    BY DEF DeleteLast, start, lost, last
<1>14. shorter = [m EXCEPT !.slot = s]
  BY DEF Unset
<1> HIDE DEF s, base, o, shown, a, now, u, shorter
<1>15. /\ k \in Matrices /\ k.n = last /\ k.base = base /\ k.reference = m.reference
       /\ k.slot = s /\ k.established = m.established
  <2>1. /\ shorter \in Matrices /\ shorter.reference = m.reference /\ shorter.slot = s
        /\ shorter.established = m.established
    BY <1>1, <1>7, <1>14 DEF Matrices
  <2>2. k = [shorter EXCEPT !.n = last, !.base = base]
    <3>1. (shorter.established /\ ~lost) = shorter.established
      BY <1>2, <2>1, <1>1 DEF Matrices
    <3>2. k = [shorter EXCEPT !.n = last, !.base = base,
                              !.established = shorter.established /\ ~lost]
      OBVIOUS
    <3> HIDE DEF lost, k
    <3> QED
      BY <2>1, <3>1, <3>2 DEF Matrices
  <2>3. last \in 1 .. MaxFeatures
    BY <1>1
  <2> HIDE DEF k
  <2> QED
    BY <1>9, <2>1, <2>2, <2>3 DEF Matrices
<1> HIDE DEF k
<1>16. /\ u \in Transactions /\ u.m = k /\ u.sample = shown /\ u.active = a
       /\ u.registration = start /\ u.order = tx.order /\ u.doubt = now
  <2>1. /\ shown \in UNION {[0 .. j - 1 -> Sample] : j \in 1 .. MaxFeatures}
        /\ a \in UNION {[0 .. j - 1 -> BOOLEAN] : j \in 1 .. MaxFeatures}
    BY <1>1, <1>11, <1>12
  <2> QED
    BY <1>1, <1>4, <1>10, <1>13, <1>15, <1>23, <2>1 DEF Transactions
<1>17. Features(k) = 0 .. last - 1
  BY <1>15 DEF Features
<1>18. Filled(k)
  BY <1>4, <1>7, <1>8, <1>15, <1>17 DEF Filled, IsMatrix, Rowed
<1>19. Truthful(k, shown, now)
  <2> SUFFICES ASSUME NEW f \in 0 .. last - 1, NEW g \in 0 .. last - 1, f > g,
                      IsSet(k, f, g), SlotIndex(k, f, g) \notin now
               PROVE  SlotOf(k, f, g).map = Measured(shown[f], shown[g])
    BY <1>17 DEF Truthful
  <2>1. f \in 0 .. last /\ g \in 0 .. last
    BY <1>1
  <2>2. SlotIndex(k, f, g) = SlotAt(f, g) /\ SlotIndex(m, f, g) = SlotAt(f, g)
    BY <1>1, <1>17, <1>18, <2>1, SlotIndexIs DEF Filled
  <2>3. IsSet(m, f, g) /\ SlotOf(m, f, g) = SlotOf(k, f, g)
    BY <1>7, <1>15, <2>2 DEF IsSet, SlotOf
  <2>4. SlotIndex(m, f, g) \notin tx.doubt
    BY <1>4, <1>7, <1>15, <2>2 DEF IsSet, now
  <2> QED
    BY <1>1, <1>11, <2>1, <2>3, <2>4 DEF Truthful
<1>20. k.established => k.reference \in Features(k) /\ a[k.reference]
  <2> SUFFICES ASSUME m.established
               PROVE  m.reference \in 0 .. last - 1 /\ a[m.reference]
    BY <1>15, <1>17
  <2>1. m.reference \in 0 .. last - 1
    BY <1>0, <1>1
  <2> QED
    BY <1>12, <2>1 DEF WellMade
<1>21. ~k.established => k.reference = NoReference /\ \A f \in Features(k) : ~a[f]
  BY <1>1, <1>12, <1>15, <1>17 DEF WellMade
<1>22. WellMade(u)
  BY <1>4, <1>11, <1>12, <1>15, <1>16, <1>17, <1>18, <1>19, <1>20, <1>21, <1>23 DEF WellMade
<1> QED
  BY <1>0, <1>15, <1>16, <1>22 DEF u

\* The views that can be placed are those whose placement can be read.
LEMMA ReadableIsPlaceable ==
  ASSUME NEW tx, WellMade(tx)
  PROVE  LiveFieldsReadable(tx) <=> Placeable(tx)
BY DEF WellMade, LiveFieldsReadable, HasRoute, Placeable

-----------------------------------------------------------------------------
(* What an enrollment publishes *)

\* A transaction that can be published.
Publishable(tx) == Proper(tx) /\ tx.m.n <= tx.order

\* The relations that are packed are those with the reference.
LEMMA StarIs ==
  ASSUME NEW tx, Proper(tx), tx.m.established
  PROVE  LET s == ProjectReferenceStar(tx.m) IN
         /\ \A i \in DOMAIN s : /\ i \in DOMAIN tx.m.slot /\ s[i] = tx.m.slot[i]
                                /\ \E f \in Others(tx.m, tx.m.reference) :
                                     i = SlotAt(f, tx.m.reference)
         /\ \A f \in Others(tx.m, tx.m.reference) : IsSet(tx.m, f, tx.m.reference) =>
              SlotAt(f, tx.m.reference) \in DOMAIN s
<1> DEFINE m == tx.m
           r == tx.m.reference
           s == ProjectReferenceStar(m)
           star == {i \in DOMAIN m.slot : \E f \in Others(m, r) : i = SlotIndex(m, f, r)}
<1>1. Filled(m) /\ r \in Features(m)
  BY TransactionIs DEF Proper, WellMade
<1>2. \A f \in Others(m, r) : SlotIndex(m, f, r) = SlotAt(f, r)
  BY <1>1, PairIs DEF Others
<1>3. s = [i \in star |-> m.slot[i]]
  BY DEF ProjectReferenceStar, Restrict
<1> HIDE DEF s
<1>4. DOMAIN s = star /\ \A i \in star : s[i] = m.slot[i]
  BY <1>3
<1> QED
  BY <1>2, <1>4 DEF IsSet, s

\* A published template has the shape that unpacking expects.
LEMMA PublishedMatrixReadable ==
  ASSUME NEW tx, Publishable(tx)
  PROVE  LET t == TemplateOf(tx) IN MatrixReadable(t) /\ Normalizable(t)
<1> DEFINE t == TemplateOf(tx)
           m == tx.m
           r == tx.m.reference
<1>1. /\ Proper(tx) /\ WellMade(tx) /\ Filled(m) /\ m.n \in 1 .. MaxFeatures
      /\ Features(m) = 0 .. m.n - 1 /\ tx.registration = RegistrationCount(m.n)
      /\ Features(m) \subseteq Nat
  BY TransactionIs DEF Publishable, Proper, WellMade
<1>2. /\ t.n = m.n /\ t.reference = r /\ t.established = m.established
      /\ t.relation = ProjectReferenceStar(m) /\ t.registration = tx.registration
      /\ Features(t) = Features(m)
      /\ \A f \in Features(m) : t.feature[f].base = m.base[f] /\ t.feature[f].active = tx.active[f]
  BY DEF TemplateOf, Features
<1> HIDE DEF t
<1>3. \A f \in Features(m) : m.base[f] = RowBase(f)
  BY <1>1 DEF Filled, IsMatrix, Rowed
<1>4. CASE m.established
  <2>1. r \in Features(m)
    BY <1>1, <1>4 DEF WellMade
  <2>2. ASSUME NEW i \in DOMAIN t.relation
        PROVE  /\ i \in 1 .. t.registration - 1
               /\ \E f \in Others(t, t.reference) : SlotIndex(BuildMatrix(t), f, t.reference) = i
    <3>1. PICK f \in Others(m, r) : i \in DOMAIN m.slot /\ i = SlotAt(f, r)
      BY <1>1, <1>2, <1>4, StarIs
    <3>2. i \in 1 .. t.registration - 1
      BY <1>1, <1>2, <3>1 DEF Filled
    <3>3. f \in Features(m) /\ f \in Nat /\ r \in Nat /\ f # r
      BY <1>1, <2>1, <3>1 DEF Others
    <3>4. SlotIndex(BuildMatrix(t), f, r) = SlotAt(f, r)
      <4>1. BuildMatrix(t).base = [g \in Features(m) |-> RowBase(g)]
        BY <1>2, <1>3 DEF BuildMatrix
      <4> QED
        BY <2>1, <3>3, <4>1 DEF SlotIndex, SlotAt
    <3>5. f \in Others(t, t.reference)
      BY <1>2, <3>1 DEF Others
    <3> QED
      BY <1>2, <3>1, <3>2, <3>4, <3>5
  <2>3. MatrixReadable(t)
    BY <1>1, <1>2, <1>3, <1>4, <2>1, <2>2 DEF MatrixReadable
  <2>4. Normalizable(t)
    BY <1>2, <1>4, <2>1 DEF Normalizable, HasReference
  <2> QED
    BY <2>3, <2>4 DEF t
<1>5. CASE ~m.established
  <2>1. t.relation = << >>
    BY <1>2, <1>5 DEF ProjectReferenceStar
  <2>2. r = NoReference /\ \A f \in Features(m) : ~tx.active[f]
    BY <1>1, <1>5 DEF WellMade
  <2>3. MatrixReadable(t)
    BY <1>1, <1>2, <1>3, <1>5, <2>1, <2>2 DEF MatrixReadable
  <2>4. Normalizable(t)
    BY <1>2, <1>5, <2>1, <2>2 DEF Normalizable
  <2> QED
    BY <2>3, <2>4 DEF t
<1> QED
  BY <1>4, <1>5

\* Its order and its ages are those of its views.
LEMMA PublishedOrderReadable ==
  ASSUME NEW tx, Publishable(tx)
  PROVE  LET t == TemplateOf(tx) IN OrderReadable(t) /\ AgesRanked(t)
<1> DEFINE t == TemplateOf(tx)
<1>1. tx.m.n \in Nat /\ tx.order \in Nat /\ tx.m.n <= tx.order /\ Features(tx.m) = 0 .. tx.m.n - 1
  BY TransactionIs DEF Publishable, Proper
<1>2. /\ t.n = tx.m.n /\ Features(t) = 0 .. tx.m.n - 1
      /\ t.order = [i \in 1 .. tx.order |-> i - 1]
      /\ \A f \in 0 .. tx.m.n - 1 : t.feature[f].ordinal = f
  BY <1>1 DEF TemplateOf, Features
<1> HIDE DEF t
<1>3. 1 .. tx.m.n \subseteq DOMAIN t.order /\ \A i \in 1 .. tx.m.n : t.order[i] = i - 1
  BY <1>1, <1>2
<1>4. {t.order[i] : i \in 1 .. tx.m.n} = 0 .. tx.m.n - 1
  <2>1. \A f \in 0 .. tx.m.n - 1 : f + 1 \in 1 .. tx.m.n /\ t.order[f + 1] = f
    BY <1>1, <1>3
  <2>2. \A i \in 1 .. tx.m.n : t.order[i] \in 0 .. tx.m.n - 1
    BY <1>1, <1>3
  <2> QED
    BY <2>1, <2>2
<1>5. OrderReadable(t)
  BY <1>2, <1>3, <1>4 DEF OrderReadable
<1>6. AgesRanked(t)
  BY <1>2 DEF AgesRanked
<1> QED
  BY <1>5, <1>6 DEF t

\* An active view's packed relation leads where the view lies.
LEMMA PublishedLeads ==
  ASSUME NEW tx, Publishable(tx), tx.m.established, NEW f \in Features(tx.m),
         tx.active[f], ~Doubtful(tx, f, tx.m.reference)
  PROVE  LET t == TemplateOf(tx)
             r == tx.m.reference IN
         /\ ToReference(t, f) = Measured(tx.sample[f], tx.sample[r])
         /\ FromReference(t, f) = Measured(tx.sample[r], tx.sample[f])
<1> DEFINE t == TemplateOf(tx)
           m == tx.m
           r == tx.m.reference
           relation == RelationTransform(t, f, r)
<1>1. /\ Proper(tx) /\ Filled(m) /\ r \in Features(m) /\ Features(m) \subseteq Nat
      /\ tx.sample \in [Features(m) -> Sample] /\ Truthful(m, tx.sample, tx.doubt)
      /\ f = r \/ IsSet(m, f, r)
  BY TransactionIs DEF Publishable, Proper, WellMade, Placeable
<1>2. t.reference = r /\ t.relation = ProjectReferenceStar(m)
  BY DEF TemplateOf
<1>3. f \in Nat /\ r \in Nat /\ tx.sample[f] \in Sample /\ tx.sample[r] \in Sample
  BY <1>1
<1> HIDE DEF t
<1>4. CASE f = r
  <2>1. ToReference(t, f) = Identity /\ FromReference(t, f) = Identity
    BY <1>2, <1>4 DEF ToReference, FromReference, ReferenceTransform
  <2> QED
    BY <1>3, <1>4, <2>1, MeasuredHere DEF t
<1>5. CASE f # r
  <2>1. IsSet(m, f, r) /\ IsSet(m, r, f) /\ SlotOf(m, f, r) = SlotOf(m, r, f)
    BY <1>1, <1>5, PairTurns
  <2>2. SlotIndex(m, f, r) = SlotAt(f, r)
    BY <1>1, <1>5, PairIs
  <2>3. /\ SlotAt(f, r) \in DOMAIN t.relation
        /\ t.relation[SlotAt(f, r)] = m.slot[SlotAt(f, r)]
    <3>1. f \in Others(m, r)
      BY <1>5 DEF Others
    <3>2. SlotAt(f, r) \in DOMAIN ProjectReferenceStar(m)
      BY <1>1, <2>1, <3>1, StarIs
    <3>3. ProjectReferenceStar(m)[SlotAt(f, r)] = m.slot[SlotAt(f, r)]
      BY <1>1, <3>2, StarIs
    <3> QED
      BY <1>2, <3>2, <3>3
  <2>4. relation = SlotOf(m, f, r).map
    BY <2>2, <2>3 DEF RelationTransform, SlotAt, SlotOf
  <2>9. SlotIndex(m, f, r) \notin tx.doubt /\ SlotIndex(m, r, f) \notin tx.doubt
    BY <1>1, <1>5, PairIs DEF Doubtful
  <2>5. Lead(m, r, f) = Measured(tx.sample[f], tx.sample[r])
    BY <1>1, <1>5, <2>1, <2>9, LeadIs
  <2>6. Lead(m, f, r) = Measured(tx.sample[r], tx.sample[f])
    BY <1>1, <1>5, <2>1, <2>9, LeadIs
  <2>7. CASE f > r
    <3>1. /\ Lead(m, r, f) = relation /\ Lead(m, f, r) = Invert(relation)
      BY <1>3, <2>1, <2>4, <2>7 DEF Lead
    <3>2. /\ ToReference(t, f) = relation
          /\ FromReference(t, f) = Invert(relation)
      BY <1>2, <1>3, <2>7 DEF ToReference, FromReference, ReferenceTransform
    <3> QED
      BY <2>5, <2>6, <3>1, <3>2 DEF t
  <2>8. CASE f < r
    <3>1. /\ Lead(m, r, f) = Invert(relation) /\ Lead(m, f, r) = relation
      BY <1>3, <2>1, <2>4, <2>8 DEF Lead
    <3>2. /\ ToReference(t, f) = Invert(relation)
          /\ FromReference(t, f) = relation
      BY <1>2, <1>3, <2>8 DEF ToReference, FromReference, ReferenceTransform
    <3> QED
      BY <2>5, <2>6, <3>1, <3>2 DEF t
  <2> QED
    BY <1>3, <1>5, <2>7, <2>8
<1> QED
  BY <1>4, <1>5

\* The active views of a published template are where their samples lie.
LEMMA PublishedPlaced ==
  ASSUME NEW tx, Publishable(tx)
  PROVE  LiveFieldsReadable(tx) /\ PlacedTrue(TemplateOf(tx))
<1> DEFINE t == TemplateOf(tx)
<1>1. LiveFieldsReadable(tx)
  BY ReadableIsPlaceable DEF Publishable, Proper
<1>2. /\ Features(t) = Features(tx.m) /\ t.established = tx.m.established
      /\ \A f \in Features(tx.m) : /\ t.feature[f].active = tx.active[f]
                                   /\ (t.feature[f].sure <=> ~Doubtful(tx, f, tx.m.reference))
                                   /\ t.feature[f].sample = tx.sample[f]
  BY DEF TemplateOf, Features
<1>3. /\ tx.sample \in [Features(tx.m) -> Sample]
      /\ tx.m.established => tx.m.reference \in Features(tx.m)
  BY DEF Publishable, Proper, WellMade
<1>4. ASSUME NEW f \in Features(tx.m), NEW g \in Features(tx.m), tx.active[f], tx.active[g],
             tx.m.established, ~Doubtful(tx, f, tx.m.reference),
             ~Doubtful(tx, g, tx.m.reference)
      PROVE  Compose(FromReference(t, g), ToReference(t, f)) = Measured(tx.sample[f], tx.sample[g])
  <2> DEFINE r == tx.m.reference
  <2>1. ToReference(t, f) = Measured(tx.sample[f], tx.sample[r])
    BY <1>4, PublishedLeads
  <2>2. FromReference(t, g) = Measured(tx.sample[r], tx.sample[g])
    BY <1>4, PublishedLeads
  <2>3. tx.sample[f] \in Sample /\ tx.sample[g] \in Sample /\ tx.sample[r] \in Sample
    BY <1>3, <1>4
  <2> QED
    BY <2>1, <2>2, <2>3, MeasuredChain
<1> HIDE DEF t
<1>5. PlacedTrue(t)
  BY <1>2, <1>4 DEF PlacedTrue
<1> QED
  BY <1>1, <1>5 DEF t

-----------------------------------------------------------------------------
(* The enrollment *)

\* The inductive invariant of the enrollment: the transaction is new, or it can
\* be published; the counters are in range.
EnrollmentInvariant ==
  /\ transaction = NewTransaction \/ Publishable(transaction)
  /\ bad \in [record : 0 .. 5, continue : 0 .. 3]
  /\ status \in {"none", "accepted", "center", "remove"}
  /\ attempts \in 0 .. Len(Touches)

\* The registrations of a new view are those of earlier views.
LEMMA PriorsAreSeen ==
  ASSUME NEW tx, Begun(tx), NEW priors \in SUBSET Features(tx.m),
         NEW seen \in [priors -> Registration]
  PROVE  Seen(seen, tx.m.n) /\ tx.m.n \in 0 .. MaxFeatures
<1>1. tx.m.n \in 0 .. MaxFeatures
  <2>1. CASE tx = NewTransaction
    BY <2>1, TemplateAssumption DEF NewTransaction, EmptyMatrix
  <2>2. CASE Proper(tx)
    BY <2>2, TransactionIs DEF Proper
  <2> QED
    BY <2>1, <2>2 DEF Begun
<1>2. DOMAIN seen = priors /\ priors \subseteq 0 .. tx.m.n - 1
  BY DEF Features
<1>3. \A p \in DOMAIN seen : seen[p] \in Registration
  BY <1>2
<1> QED
  BY <1>1, <1>2, <1>3, EnrollmentAssumption DEF Seen

\* A transaction that is kept, whether the new view stays or goes, can be
\* published.
LEMMA KeptPublishable ==
  ASSUME NEW tx, Begun(tx), tx.m.n < MaxFeatures, NEW sample \in Sample, NEW seen,
         Seen(seen, tx.m.n),
         Inserted(tx, sample, seen).m.n = MaxFeatures
           => LiveFieldsReadable(Inserted(tx, sample, seen))
  PROVE  /\ Publishable(Inserted(tx, sample, seen))
         /\ tx.m.n > 0 /\ LiveFieldsReadable(DeleteLast(Inserted(tx, sample, seen)))
              => Publishable(DeleteLast(Inserted(tx, sample, seen)))
<1> DEFINE u == Inserted(tx, sample, seen)
<1>1. /\ WellMade(u) /\ tx.m.n \in Nat /\ u.m.n = tx.m.n + 1 /\ u.order = tx.m.n + 1
      /\ u.m.n < MaxFeatures => Placeable(u)
      /\ u.m.established => u.m.reference \in 0 .. tx.m.n - 1
  BY InsertedMade DEF Extended
<1> HIDE DEF u
<1>2. Placeable(u)
  BY <1>1, ReadableIsPlaceable, TemplateAssumption DEF u
<1>3. Publishable(u)
  BY <1>1, <1>2 DEF Publishable, Proper
<1>4. ASSUME tx.m.n > 0, LiveFieldsReadable(DeleteLast(u))
      PROVE  Publishable(DeleteLast(u))
  <2>1. u.m.n > 1 /\ u.m.n - 2 = tx.m.n - 1
    BY <1>1, <1>4
  <2>2. WellMade(DeleteLast(u)) /\ DeleteLast(u).m.n = u.m.n - 1 /\ DeleteLast(u).order = u.order
    BY <1>1, <2>1, DeleteLastMade
  <2>3. Placeable(DeleteLast(u))
    BY <1>4, <2>2, ReadableIsPlaceable
  <2> QED
    BY <1>1, <2>2, <2>3 DEF Publishable, Proper
<1> QED
  BY <1>3, <1>4 DEF u

\* An attempt keeps the invariant.
LEMMA AttemptKeepsEnrollment ==
  ASSUME EnrollmentInvariant, Attempt
  PROVE  EnrollmentInvariant'
<1>1. attempts' \in 0 .. Len(Touches) /\ attempts + 1 \in 1 .. Len(Touches)
  <2>1. Len(Touches) \in Nat
    BY EnrollmentAssumption
  <2> QED
    BY <2>1 DEF EnrollmentInvariant, Attempt
<1>2. CommitNonRollback \in [record : 0 .. 5, continue : 0 .. 3]
  BY DEF CommitNonRollback, EnrollmentInvariant
<1>3. CASE Unusable
  BY <1>1, <1>2, <1>3 DEF Unusable, EnrollmentInvariant
<1>4. ASSUME NEW priors \in SUBSET Features(transaction.m), NEW seen \in [priors -> Registration],
             Try(Touches[attempts + 1], seen)
      PROVE  EnrollmentInvariant'
  <2> DEFINE sample == Touches[attempts + 1]
             tentative == Inserted(transaction, sample, seen)
             deleted == DeleteLast(tentative)
             failed == tentative.m.n = MaxFeatures /\ ~LiveFieldsReadable(tentative)
  <2>1. sample \in Sample
    BY <1>1, EnrollmentAssumption
  <2>2. Begun(transaction)
    BY DEF EnrollmentInvariant, Begun, Publishable
  <2>3. Seen(seen, transaction.m.n) /\ transaction.m.n < MaxFeatures
    BY <2>2, PriorsAreSeen DEF Attempt
  <2>4. ~failed => /\ Publishable(tentative)
                   /\ transaction.m.n > 0 /\ LiveFieldsReadable(deleted) => Publishable(deleted)
    BY <2>1, <2>2, <2>3, KeptPublishable
  <2>5. PICK metrics \in Metrics :
          LET rollback == ShouldRollback(transaction.m.n, metrics)
          IN IF failed \/ (rollback /\ ~LiveFieldsReadable(deleted))
             THEN /\ status' = "remove" /\ bad' = CommitNonRollback
                  /\ UNCHANGED <<transaction, taken>>
             ELSE IF rollback
             THEN /\ status' = "center" /\ bad' = CommitRollback
                  /\ transaction' = deleted /\ UNCHANGED taken
             ELSE /\ status' = "accepted" /\ bad' = CommitNonRollback
                  /\ transaction' = tentative /\ taken' = Append(taken, seen)
    BY <1>4 DEF Try
  <2> DEFINE rollback == ShouldRollback(transaction.m.n, metrics)
  <2>6. rollback => /\ CommitRollback \in [record : 0 .. 5, continue : 0 .. 3]
                    /\ transaction.m.n > 0
    <3> SUFFICES ASSUME rollback
                 PROVE  /\ CommitRollback \in [record : 0 .. 5, continue : 0 .. 3]
                        /\ transaction.m.n > 0
      OBVIOUS
    <3>1. transaction.m.n \in 0 .. MaxFeatures
      BY <2>2, PriorsAreSeen
    <3>2. transaction.m.n > 2 /\ bad.record <= 4 /\ bad.continue <= 2
      BY DEF ShouldRollback
    <3>3. bad.record + 1 \in 0 .. 5 /\ bad.continue + 1 \in 0 .. 3
      BY <3>2 DEF EnrollmentInvariant
    <3> QED
      BY <3>1, <3>2, <3>3, TemplateAssumption DEF CommitRollback
  <2> HIDE DEF tentative, deleted, failed, rollback
  <2>7. CASE failed \/ (rollback /\ ~LiveFieldsReadable(deleted))
    BY <1>1, <1>2, <2>5, <2>7 DEF EnrollmentInvariant, rollback
  <2>8. CASE ~failed /\ rollback /\ LiveFieldsReadable(deleted)
    BY <1>1, <2>4, <2>5, <2>6, <2>8 DEF EnrollmentInvariant, rollback
  <2>9. CASE ~failed /\ ~rollback
    BY <1>1, <1>2, <2>4, <2>5, <2>9 DEF EnrollmentInvariant, rollback
  <2> QED
    BY <2>7, <2>8, <2>9
<1>5. MayRegister(Touches[attempts + 1]) \subseteq Features(transaction.m)
  BY DEF MayRegister
<1> QED
  BY <1>3, <1>4, <1>5 DEF Attempt

\* The invariant holds throughout an enrollment.
LEMMA EnrollmentInvariantHolds == EnrollmentSpec => []EnrollmentInvariant
<1>1. EnrollmentInit => EnrollmentInvariant
  <2>1. Len(Touches) \in Nat
    BY EnrollmentAssumption
  <2> QED
    BY <2>1 DEF EnrollmentInit, EnrollmentInvariant
<1>2. EnrollmentInvariant /\ [EnrollmentNext]_enrollmentVars => EnrollmentInvariant'
  <2> SUFFICES ASSUME EnrollmentInvariant, [EnrollmentNext]_enrollmentVars
               PROVE  EnrollmentInvariant'
    OBVIOUS
  <2>1. CASE Attempt
    BY <2>1, AttemptKeepsEnrollment
  <2>2. CASE UNCHANGED enrollmentVars
    BY <2>2 DEF enrollmentVars, EnrollmentInvariant
  <2> QED
    BY <2>1, <2>2 DEF EnrollmentNext, Finish
<1> QED
  BY <1>1, <1>2, PTL DEF EnrollmentSpec

\* The types of an enrollment: the counters of bad touches never leave their
\* range, a transaction has a sample, a flag and a row for each of its views, and
\* a view that was rolled back leaves no relation.
THEOREM EnrollmentTypesCorrect == EnrollmentSpec => []EnrollmentTypeOK
<1>1. EnrollmentInvariant => EnrollmentTypeOK
  <2> SUFFICES ASSUME EnrollmentInvariant PROVE EnrollmentTypeOK
    OBVIOUS
  <2>1. /\ transaction.m.n \in 0 .. MaxFeatures
        /\ DOMAIN transaction.sample = Features(transaction.m)
        /\ transaction.active \in [Features(transaction.m) -> BOOLEAN]
        /\ transaction.m.base = [f \in Features(transaction.m) |-> RowBase(f)]
        /\ transaction.registration
             = IF transaction.m.n = 0 THEN 0 ELSE RegistrationCount(transaction.m.n)
        /\ DOMAIN transaction.m.slot \subseteq 1 .. transaction.registration - 1
        /\ transaction.doubt \subseteq DOMAIN transaction.m.slot
    <3>1. CASE transaction = NewTransaction
      <4>1. /\ transaction.m.n = 0 /\ transaction.sample = << >> /\ transaction.active = << >>
            /\ Features(transaction.m) = {} /\ transaction.m.base = << >>
            /\ transaction.registration = 0 /\ transaction.doubt = {}
            /\ DOMAIN transaction.m.slot = {}
        BY <3>1 DEF NewTransaction, EmptyMatrix, Features
      <4> QED
        BY <4>1, TemplateAssumption
    <3>2. CASE Publishable(transaction)
      <4>1. WellMade(transaction) /\ Filled(transaction.m) /\ transaction.m.n \in 1 .. MaxFeatures
        BY <3>2, TransactionIs DEF Publishable, Proper
      <4>2. /\ transaction.registration = RegistrationCount(transaction.m.n)
            /\ transaction.doubt \subseteq DOMAIN transaction.m.slot
            /\ DOMAIN transaction.m.slot \subseteq 1 .. transaction.registration - 1
        BY <4>1 DEF WellMade, Filled
      <4>3. transaction.m.base = [f \in Features(transaction.m) |-> RowBase(f)]
        <5>1. Rowed(transaction.m) /\ transaction.m \in Matrices
          BY <4>1 DEF Filled, IsMatrix
        <5> QED
          BY <5>1 DEF Rowed, Matrices, Features
      <4>4. MaxFeatures \in Nat
        BY TemplateAssumption
      <4> QED
        BY <4>1, <4>2, <4>3, <4>4, TransactionIs
    <3> QED
      BY <3>1, <3>2 DEF EnrollmentInvariant
  <2>2. bad.record \in 0 .. 5 /\ bad.continue \in 0 .. 3
    BY DEF EnrollmentInvariant
  <2> QED
    BY <2>1, <2>2 DEF EnrollmentTypeOK, EnrollmentInvariant
<1> QED
  BY <1>1, EnrollmentInvariantHolds, PTL

\* Whatever was inserted, bridged, closed and rolled back, an enrollment
\* publishes a template that every later match accepts, with its active views
\* where they lie, but for those whose placement is in doubt.
THEOREM EnrollmentPublishesSound == EnrollmentSpec => []PublishedSound
<1>1. EnrollmentInvariant => PublishedSound
  <2> SUFFICES ASSUME EnrollmentInvariant, transaction.m.n > 0
               PROVE  /\ LET t == TemplateOf(transaction)
                         IN /\ MatrixReadable(t) /\ Normalizable(t)
                            /\ OrderReadable(t) /\ AgesRanked(t)
                      /\ LiveFieldsReadable(transaction) /\ PlacedTrue(TemplateOf(transaction))
    BY DEF PublishedSound, PublishedReadable, PublishedPlacement
  <2>1. Publishable(transaction)
    BY DEF EnrollmentInvariant, NewTransaction, EmptyMatrix
  <2> QED
    BY <2>1, PublishedMatrixReadable, PublishedOrderReadable, PublishedPlaced
<1> QED
  BY <1>1, EnrollmentInvariantHolds, PTL

-----------------------------------------------------------------------------
(* Two transactions that agree: in u the first c views have been taken, in v *)
(* all views are there from the start.                                       *)

\* u and v agree on the first c views, and no other view of v is active.
Alike(u, v, c) ==
  /\ v.m.slot = u.m.slot /\ v.overlap = u.overlap /\ v.m.reference = u.m.reference
  /\ v.m.established = u.m.established /\ v.doubt = u.doubt
  /\ \A f \in 0 .. c - 1 : v.m.base[f] = u.m.base[f] /\ v.sample[f] = u.sample[f]
                           /\ v.active[f] = u.active[f]
  /\ \A f \in Features(v.m) : f >= c => ~v.active[f]

Twins(u, v, c) == Proper(u) /\ Proper(v) /\ u.m.n = c /\ v.m.n >= c /\ Alike(u, v, c)

\* What can be read of the first views.
LEMMA TwinsRead ==
  ASSUME NEW u, NEW v, NEW c, Twins(u, v, c)
  PROVE  /\ \A f \in 0 .. c - 1 : \A g \in 0 .. c - 1 :
              /\ SlotIndex(v.m, f, g) = SlotIndex(u.m, f, g)
              /\ IsSet(v.m, f, g) = IsSet(u.m, f, g)
              /\ SlotOf(v.m, f, g) = SlotOf(u.m, f, g)
              /\ Rank(v.m, f, g) = Rank(u.m, f, g)
              /\ Overlapping(v, f, g) = Overlapping(u, f, g)
              /\ Doubtful(v, f, g) = Doubtful(u, f, g)
         /\ v.m.established = u.m.established /\ v.m.reference = u.m.reference
         /\ \A f \in 0 .. c - 1 : v.active[f] = u.active[f] /\ v.sample[f] = u.sample[f]
<1>1. Alike(u, v, c)
  BY DEF Twins
<1>2. ASSUME NEW f \in 0 .. c - 1, NEW g \in 0 .. c - 1
      PROVE  SlotIndex(v.m, f, g) = SlotIndex(u.m, f, g)
  BY <1>1 DEF Alike, SlotIndex
<1>3. ASSUME NEW f \in 0 .. c - 1, NEW g \in 0 .. c - 1
      PROVE  /\ IsSet(v.m, f, g) = IsSet(u.m, f, g)
             /\ SlotOf(v.m, f, g) = SlotOf(u.m, f, g)
  BY <1>1, <1>2 DEF Alike, IsSet, SlotOf
<1>4. ASSUME NEW f \in 0 .. c - 1, NEW g \in 0 .. c - 1
      PROVE  /\ Rank(v.m, f, g) = Rank(u.m, f, g)
             /\ Overlapping(v, f, g) = Overlapping(u, f, g)
             /\ Doubtful(v, f, g) = Doubtful(u, f, g)
  BY <1>1, <1>2, <1>3 DEF Alike, Rank, Overlapping, Doubtful
<1> QED
  BY <1>1, <1>2, <1>3, <1>4 DEF Alike

\* The fields that count.
LEMMA TwinsAre ==
  ASSUME NEW u, NEW v, NEW c, Twins(u, v, c)
  PROVE  /\ c \in Nat /\ Features(u.m) = 0 .. c - 1 /\ 0 .. c - 1 \subseteq Features(v.m)
         /\ u \in Transactions /\ v \in Transactions /\ u.m \in Matrices /\ v.m \in Matrices
         /\ u.active \in [Features(u.m) -> BOOLEAN] /\ v.active \in [Features(v.m) -> BOOLEAN]
         /\ Features(v.m) = 0 .. v.m.n - 1 /\ v.m.n \in Nat /\ u.m.n = c
         /\ Proper(u) /\ Proper(v) /\ Alike(u, v, c)
         /\ Filled(u.m) /\ Filled(v.m)
         /\ u.m.established => u.m.reference \in 0 .. c - 1
<1>1. Proper(u) /\ Proper(v) /\ WellMade(u) /\ WellMade(v)
  BY DEF Twins, Proper
<1>2. /\ Filled(u.m) /\ Filled(v.m) /\ u.m \in Matrices /\ v.m \in Matrices
      /\ u \in Transactions /\ v \in Transactions
      /\ u.active \in [Features(u.m) -> BOOLEAN] /\ v.active \in [Features(v.m) -> BOOLEAN]
      /\ Features(v.m) = 0 .. v.m.n - 1 /\ v.m.n \in Nat
      /\ Features(u.m) = 0 .. u.m.n - 1 /\ u.m.n \in Nat
  BY <1>1, TransactionIs DEF Filled, IsMatrix
<1>3. u.m.n = c /\ v.m.n >= c /\ Alike(u, v, c)
  BY DEF Twins
<1>4. u.m.established => u.m.reference \in Features(u.m)
  BY <1>1 DEF WellMade
<1> QED
  BY <1>1, <1>2, <1>3, <1>4

\* What is in doubt in one is in doubt in the other.
LEMMA TwinsDoubt ==
  ASSUME NEW u, NEW v, NEW c, Twins(u, v, c), u.m.established,
         NEW f \in 0 .. c - 1, NEW g \in 0 .. c - 1
  PROVE  DoubtfulThrough(v, f, g) = DoubtfulThrough(u, f, g)
<1>1. u.m.reference \in 0 .. c - 1
  BY TwinsAre
<1>2. /\ Doubtful(v, f, g) = Doubtful(u, f, g)
      /\ Doubtful(v, g, u.m.reference) = Doubtful(u, g, u.m.reference)
      /\ v.m.reference = u.m.reference
  BY <1>1, TwinsRead
<1> QED
  BY <1>2 DEF DoubtfulThrough

\* Other slots in a matrix.
LEMMA SlotsOf ==
  ASSUME NEW m \in Matrices, NEW s
  PROVE  LET k == [m EXCEPT !.slot = s] IN
         /\ k.slot = s /\ k.n = m.n /\ k.base = m.base /\ k.reference = m.reference
         /\ k.established = m.established /\ Features(k) = Features(m)
BY DEF Matrices, Features

\* x is tx with other slots, and f active; the doubt is given.
Gained(tx, x, s, f, doubt) ==
  /\ Proper(x) /\ x.m = [tx.m EXCEPT !.slot = s] /\ x.active = [tx.active EXCEPT ![f] = TRUE]
  /\ x.overlap = tx.overlap /\ x.sample = tx.sample /\ x.doubt = doubt

\* The same view made active in both, by the same relation.
LEMMA TwinsGain ==
  ASSUME NEW u, NEW v, NEW c, Twins(u, v, c), NEW f \in 0 .. c - 1, NEW s, NEW doubt,
         NEW x, Gained(u, x, s, f, doubt), NEW y, Gained(v, y, s, f, doubt)
  PROVE  Twins(x, y, c)
<1>1. /\ c \in Nat /\ u.m \in Matrices /\ v.m \in Matrices /\ Features(u.m) = 0 .. c - 1
      /\ Features(v.m) = 0 .. v.m.n - 1 /\ 0 .. c - 1 \subseteq Features(v.m)
      /\ u.active \in [Features(u.m) -> BOOLEAN] /\ v.active \in [Features(v.m) -> BOOLEAN]
      /\ Alike(u, v, c) /\ u.m.n = c /\ v.m.n \in Nat /\ v.m.n >= c
  BY TwinsAre DEF Twins
<1>2. /\ x.m.slot = s /\ x.m.n = c /\ x.m.base = u.m.base /\ x.m.reference = u.m.reference
      /\ x.m.established = u.m.established
  BY <1>1, SlotsOf DEF Gained
<1>3. /\ y.m.slot = s /\ y.m.n = v.m.n /\ y.m.base = v.m.base /\ y.m.reference = v.m.reference
      /\ y.m.established = v.m.established /\ Features(y.m) = Features(v.m)
  <2>1. y.m = [v.m EXCEPT !.slot = s] /\ v.m \in Matrices
    BY <1>1 DEF Gained
  <2> QED
    BY <2>1, SlotsOf
<1>4. /\ Proper(x) /\ Proper(y) /\ x.active = [u.active EXCEPT ![f] = TRUE]
      /\ y.active = [v.active EXCEPT ![f] = TRUE] /\ x.sample = u.sample /\ y.sample = v.sample
      /\ x.overlap = u.overlap /\ y.overlap = v.overlap /\ x.doubt = doubt /\ y.doubt = doubt
  BY DEF Gained
<1>5. ASSUME NEW g \in 0 .. c - 1
      PROVE  y.active[g] = x.active[g]
  <2>1. g \in Features(u.m) /\ g \in Features(v.m)
    BY <1>1
  <2>2. v.active[g] = u.active[g]
    BY <1>1 DEF Alike
  <2>3. CASE g = f
    BY <1>1, <1>4, <2>1, <2>3
  <2>4. CASE g # f
    <3>1. x.active[g] = u.active[g] /\ y.active[g] = v.active[g]
      BY <1>1, <1>4, <2>1, <2>4
    <3> QED
      BY <2>2, <3>1
  <2> QED
    BY <2>3, <2>4
<1>6. ASSUME NEW g \in Features(y.m), g >= c
      PROVE  ~y.active[g]
  <2>1. g \in Features(v.m) /\ ~v.active[g] /\ g # f
    BY <1>1, <1>3, <1>6 DEF Alike
  <2> QED
    BY <1>1, <1>4, <2>1
<1>7. \A g \in 0 .. c - 1 : v.m.base[g] = u.m.base[g] /\ v.sample[g] = u.sample[g]
  BY <1>1 DEF Alike
<1>8. u.overlap = v.overlap /\ u.m.reference = v.m.reference /\ u.m.established = v.m.established
  BY <1>1 DEF Alike
<1>9. Alike(x, y, c)
  <2>1. /\ y.m.slot = x.m.slot /\ y.m.reference = x.m.reference
        /\ y.m.established = x.m.established
    BY <1>2, <1>3, <1>8
  <2>2. y.overlap = x.overlap /\ y.doubt = x.doubt
    BY <1>4, <1>8
  <2>3. ASSUME NEW g \in 0 .. c - 1
        PROVE  y.m.base[g] = x.m.base[g] /\ y.sample[g] = x.sample[g] /\ y.active[g] = x.active[g]
    BY <1>2, <1>3, <1>4, <1>5, <1>7
  <2>4. \A g \in Features(y.m) : g >= c => ~y.active[g]
    BY <1>6
  <2> QED
    BY <2>1, <2>2, <2>3, <2>4 DEF Alike
<1> QED
  BY <1>1, <1>2, <1>3, <1>4, <1>9 DEF Twins

\* The same view placed in the same way in both.
LEMMA TwinsPlaced ==
  ASSUME NEW u, NEW v, NEW c, Twins(u, v, c), u.m.established, NEW f \in 0 .. c - 1,
         NEW toReference, NEW doubtful,
         Proper(Placed(u, f, toReference, doubtful)), Proper(Placed(v, f, toReference, doubtful))
  PROVE  Twins(Placed(u, f, toReference, doubtful), Placed(v, f, toReference, doubtful), c)
<1> DEFINE r == u.m.reference
           map == IF f > r THEN toReference ELSE Invert(toReference)
           index == SlotIndex(u.m, f, r)
           s == With(u.m.slot, index, [rank |-> 0, map |-> map])
           doubt == Marked(u.doubt, index, doubtful)
           x == Placed(u, f, toReference, doubtful)
           y == Placed(v, f, toReference, doubtful)
<1>1. u \in Transactions /\ v \in Transactions /\ Alike(u, v, c) /\ r \in 0 .. c - 1
  BY TwinsAre
<1>2. /\ v.m.reference = r /\ v.m.slot = u.m.slot /\ SlotIndex(v.m, f, r) = index
      /\ v.doubt = u.doubt
  BY <1>1, TwinsRead DEF Alike
<1>3. /\ StoreReference(u.m, f, toReference) = [u.m EXCEPT !.slot = s]
      /\ StoreReference(v.m, f, toReference) = [v.m EXCEPT !.slot = s]
  BY <1>2 DEF StoreReference, SetSlot
<1>8. Marked(v.doubt, SlotIndex(v.m, f, v.m.reference), doubtful) = doubt
  BY <1>2
<1>9. Marked(u.doubt, SlotIndex(u.m, f, u.m.reference), doubtful) = doubt
  OBVIOUS
<1> HIDE DEF s, map, doubt, index, r
<1>4. /\ x.m = [u.m EXCEPT !.slot = s] /\ x.active = [u.active EXCEPT ![f] = TRUE]
      /\ x.overlap = u.overlap /\ x.sample = u.sample /\ x.doubt = doubt
  BY <1>1, <1>3, <1>9 DEF Placed, Transactions
<1>5. /\ y.m = [v.m EXCEPT !.slot = s] /\ y.active = [v.active EXCEPT ![f] = TRUE]
      /\ y.overlap = v.overlap /\ y.sample = v.sample /\ y.doubt = doubt
  BY <1>1, <1>3, <1>8 DEF Placed, Transactions
<1> HIDE DEF x, y
<1>6. Gained(u, x, s, f, doubt) /\ Gained(v, y, s, f, doubt)
  BY <1>4, <1>5 DEF Gained, x, y
<1>7. Twins(x, y, c)
  BY <1>6, TwinsGain
<1> QED
  BY <1>7 DEF x, y

\* d are the turns of a route.
RouteTurns(d, n, tx, list, position, candidate) ==
  /\ d[0] = [path |-> SlotOf(tx.m, candidate, list[position]).map, child |-> position]
  /\ \A i \in 1 .. n : d[i] = Hop(tx, list, d[i - 1], position - i)

\* The hops, as turns.
LEMMA RouteRuns ==
  ASSUME NEW tx, NEW list, NEW position, NEW candidate, NEW n \in Nat, n = position - 1
  PROVE  \E d : /\ RouteFrom(tx, list, position, candidate) = d[n].path
                /\ RouteTurns(d, n, tx, list, position, candidate)
BY RouteUnfolds DEF RouteTurns

\* Routes over the first views are the same.
LEMMA TwinsRoute ==
  ASSUME NEW u, NEW v, NEW c, Twins(u, v, c), NEW list \in Seq(0 .. c - 1),
         NEW position \in DOMAIN list, NEW f \in 0 .. c - 1
  PROVE  RouteFrom(v, list, position, f) = RouteFrom(u, list, position, f)
<1> DEFINE n == position - 1
<1>1. /\ DOMAIN list = 1 .. Len(list) /\ Len(list) \in Nat
      /\ \A i \in 1 .. Len(list) : list[i] \in 0 .. c - 1
  <2>1. c \in Nat
    BY TwinsAre
  <2> QED
    BY <2>1
<1>2. position \in 1 .. Len(list) /\ n \in Nat
  BY <1>1
<1>n. n = position - 1
  OBVIOUS
<1> HIDE DEF n
<1>3. PICK d : /\ RouteFrom(u, list, position, f) = d[n].path
               /\ RouteTurns(d, n, u, list, position, f)
  BY <1>2, <1>n, RouteRuns
<1>4. PICK e : /\ RouteFrom(v, list, position, f) = e[n].path
               /\ RouteTurns(e, n, v, list, position, f)
  BY <1>2, <1>n, RouteRuns
<1> DEFINE S == {i \in 0 .. n : e[i] = d[i] /\ d[i].child \in 1 .. Len(list)}
<1>5. 0 \in S
  <2>1. SlotOf(v.m, f, list[position]) = SlotOf(u.m, f, list[position])
    BY <1>1, <1>2, TwinsRead
  <2>2. e[0] = d[0] /\ d[0].child = position
    BY <1>3, <1>4, <2>1 DEF RouteTurns
  <2> QED
    BY <1>2, <2>2
<1>6. ASSUME NEW i \in 1 .. n, i - 1 \in S
      PROVE  i \in S
  <2> DEFINE w == position - i
             b == d[i - 1].child
  <2>1. w \in 1 .. Len(list) /\ b \in 1 .. Len(list)
    BY <1>1, <1>2, <1>6, <1>n
  <2>2. /\ IsSet(v.m, list[w], list[b]) = IsSet(u.m, list[w], list[b])
        /\ SlotOf(v.m, list[w], list[b]) = SlotOf(u.m, list[w], list[b])
    BY SMTT(30), <1>1, <2>1, TwinsRead
  <2>3. e[i - 1] = d[i - 1]
    BY <1>6
  <2>4. Hop(v, list, d[i - 1], w) = Hop(u, list, d[i - 1], w)
    BY <2>2 DEF Hop
  <2>5. e[i] = d[i]
    BY <1>3, <1>4, <2>3, <2>4 DEF RouteTurns
  <2>6. d[i].child = w \/ d[i].child = b
    <3>1. d[i] = Hop(u, list, d[i - 1], w)
      BY <1>3 DEF RouteTurns
    <3> HIDE DEF w
    <3> QED
      BY <3>1 DEF Hop
  <2> QED
    BY <2>1, <2>5, <2>6
<1>7. \A i \in 1 .. n : i - 1 \in S => i \in S
  BY <1>6
<1> HIDE DEF S
<1>8. \A i \in 0 .. n : i \in S
  BY <1>2, <1>5, <1>7, TurnByTurn
<1>9. e[n] = d[n]
  BY <1>2, <1>8 DEF S
<1> QED
  BY <1>3, <1>4, <1>9

-----------------------------------------------------------------------------
(* Propagation in two transactions that agree *)

\* d are the turns of a propagation to the earlier views.
LowerTurns(d, n, tx, toReference) ==
  /\ d[0] = [tx |-> tx, work |-> <<n>>]
  /\ \A i \in 1 .. n : d[i] = LowerCandidate(d[i - 1], n - i, toReference)

\* The earlier views, as turns.
LEMMA LowerRuns ==
  ASSUME NEW tx, NEW n \in Nat, NEW toReference
  PROVE  \E d : PropagateLower(tx, n, toReference) = d[n].tx /\ LowerTurns(d, n, tx, toReference)
BY LowerUnfolds DEF LowerTurns

\* The turns spread from the pivot.
LEMMA LowerTurnsSpread ==
  ASSUME NEW tx, Proper(tx), NEW n, NEW toReference, Leads(tx, n, toReference),
         NEW d, LowerTurns(d, n, tx, toReference)
  PROVE  n \in Nat /\ \A i \in 0 .. n : Spreads(d[i], tx, n, toReference)
<1>1. n \in Features(tx.m) /\ n \in Nat
  BY TransactionIs DEF Leads, Proper
<1> DEFINE S == {i \in 0 .. n : Spreads(d[i], tx, n, toReference)}
<1>2. 0 \in S
  <2>1. <<n>> \in Seq(Features(tx.m)) /\ Len(<<n>>) >= 1 /\ <<n>>[1] = n
    BY <1>1
  <2>2. d[0].tx = tx /\ d[0].work = <<n>>
    BY DEF LowerTurns
  <2>3. Spreads(d[0], tx, n, toReference)
    BY <2>1, <2>2, GrownSame DEF Spreads
  <2> QED
    BY <1>1, <2>3
<1>3. ASSUME NEW i \in 1 .. n, i - 1 \in S
      PROVE  i \in S
  <2>1. n - i \in 0 .. n - 1 /\ Spreads(d[i - 1], tx, n, toReference)
    BY <1>1, <1>3
  <2>2. d[i] = LowerCandidate(d[i - 1], n - i, toReference)
    BY DEF LowerTurns
  <2> QED
    BY <1>1, <2>1, <2>2, LowerSpreads
<1>4. \A i \in 1 .. n : i - 1 \in S => i \in S
  BY <1>3
<1> HIDE DEF S
<1>5. \A i \in 0 .. n : i \in S
  BY <1>1, <1>2, <1>4, TurnByTurn
<1> QED
  BY <1>1, <1>5 DEF S

\* Two worklists that agree.
Abreast(s, z, c) == Twins(s.tx, z.tx, c) /\ z.work = s.work /\ s.work \in Seq(0 .. c - 1)

\* The views of a list that overlap f, and the last of a set of positions.
Near(tx, f, list) == {p \in DOMAIN list : Overlapping(tx, f, list[p])}
LastOf(T) == CHOOSE p \in T : \A q \in T : q <= p

\* Where one earlier view goes.
LowerTo(tx, f, list, toReference) ==
  Compose(toReference, Invert(RouteFrom(tx, list, LastOf(Near(tx, f, list)), f)))

\* The earlier view, placed.
LowerPlaced(tx, f, list, toReference) ==
  Placed(tx, f, LowerTo(tx, f, list, toReference),
         LastOf(Near(tx, f, list)) # 1 \/ DoubtfulThrough(tx, f, list[1]))

\* What one earlier view adds.
LEMMA LowerAdds ==
  ASSUME NEW s, NEW f, NEW toReference
  PROVE  /\ s.tx.active[f] \/ Near(s.tx, f, s.work) = {}
              => LowerCandidate(s, f, toReference) = s
         /\ ~(s.tx.active[f] \/ Near(s.tx, f, s.work) = {}) =>
              /\ LowerCandidate(s, f, toReference).tx = LowerPlaced(s.tx, f, s.work, toReference)
              /\ LowerCandidate(s, f, toReference).work = Append(s.work, f)
<1> DEFINE near == Near(s.tx, f, s.work)
           placed == LowerPlaced(s.tx, f, s.work, toReference)
           next == LowerCandidate(s, f, toReference)
<1>1. next = IF s.tx.active[f] \/ near = {} THEN s
             ELSE [tx |-> placed, work |-> Append(s.work, f)]
  BY DEF LowerCandidate, Near, LastOf, LowerTo, LowerPlaced
<1> HIDE DEF next, placed
<1> QED
  BY <1>1 DEF next, placed

\* One earlier view.
LEMMA TwinsLower ==
  ASSUME NEW s, NEW z, NEW c, Abreast(s, z, c), s.tx.m.established,
         NEW f \in 0 .. c - 1, NEW toReference,
         Proper(LowerCandidate(s, f, toReference).tx), Proper(LowerCandidate(z, f, toReference).tx)
  PROVE  Abreast(LowerCandidate(s, f, toReference), LowerCandidate(z, f, toReference), c)
<1> DEFINE u == s.tx
           v == z.tx
           list == s.work
           at == LastOf(Near(u, f, list))
           s1 == LowerCandidate(s, f, toReference)
           z1 == LowerCandidate(z, f, toReference)
<1>1. /\ c \in Nat /\ u \in Transactions /\ v \in Transactions /\ z.work = list
      /\ list \in Seq(0 .. c - 1) /\ Twins(u, v, c)
  BY TwinsAre DEF Abreast
<1>2. Proper(s1.tx) /\ Proper(z1.tx) /\ u.m.established
  OBVIOUS
<1>3. /\ u.active[f] \/ Near(u, f, list) = {} => s1 = s
      /\ ~(u.active[f] \/ Near(u, f, list) = {}) =>
           s1.tx = LowerPlaced(u, f, list, toReference) /\ s1.work = Append(list, f)
  BY ZenonT(40), <1>1, LowerAdds
<1>4. /\ v.active[f] \/ Near(v, f, list) = {} => z1 = z
      /\ ~(v.active[f] \/ Near(v, f, list) = {}) =>
           z1.tx = LowerPlaced(v, f, list, toReference) /\ z1.work = Append(list, f)
  <2>2. /\ z.tx.active[f] \/ Near(z.tx, f, z.work) = {} => z1 = z
        /\ ~(z.tx.active[f] \/ Near(z.tx, f, z.work) = {}) =>
             z1.tx = LowerPlaced(z.tx, f, z.work, toReference) /\ z1.work = Append(z.work, f)
    BY LowerAdds
  <2>3. z.work = list
    BY <1>1
  <2> HIDE DEF z1, list
  <2> QED
    BY <2>2, <2>3
<1>5. Abreast(s, z, c)
  OBVIOUS
<1> HIDE DEF u, v, list, s1, z1
<1>6. /\ DOMAIN list = 1 .. Len(list) /\ Len(list) \in Nat
      /\ \A p \in DOMAIN list : list[p] \in 0 .. c - 1
  BY <1>1
<1>7. Near(v, f, list) = Near(u, f, list) /\ v.active[f] = u.active[f]
  <2>1. \A p \in DOMAIN list : Overlapping(v, f, list[p]) = Overlapping(u, f, list[p])
    BY SMTT(30), <1>1, <1>6, TwinsRead
  <2>2. Near(v, f, list) = Near(u, f, list)
    BY <2>1 DEF Near
  <2>3. v.active[f] = u.active[f]
    BY <1>1, TwinsRead
  <2> QED
    BY <2>2, <2>3
<1>8. CASE u.active[f] \/ Near(u, f, list) = {}
  BY <1>3, <1>4, <1>5, <1>7, <1>8 DEF s1, z1
<1>9. CASE ~(u.active[f] \/ Near(u, f, list) = {})
  <2>1. at \in DOMAIN list
    <3>1. Near(u, f, list) \in SUBSET (1 .. Len(list)) /\ Near(u, f, list) # {}
      BY <1>6, <1>9 DEF Near
    <3>2. at \in Near(u, f, list)
      BY <1>6, <3>1, LastExists DEF LastOf
    <3> QED
      BY <3>2 DEF Near
  <2>2. RouteFrom(v, list, at, f) = RouteFrom(u, list, at, f)
    <3> HIDE DEF at
    <3> QED
      BY <1>1, <2>1, TwinsRoute
  <2>3. LowerTo(v, f, list, toReference) = LowerTo(u, f, list, toReference)
    BY <1>7, <2>2 DEF LowerTo
  <2> DEFINE to == LowerTo(u, f, list, toReference)
             doubtful == at # 1 \/ DoubtfulThrough(u, f, list[1])
             x == Placed(u, f, to, doubtful)
             y == Placed(v, f, to, doubtful)
  <2>10. (at # 1 \/ DoubtfulThrough(v, f, list[1])) = doubtful
    <3> DEFINE pivot == list[1]
    <3>1. pivot \in 0 .. c - 1
      BY <1>6, <2>1
    <3> HIDE DEF pivot
    <3>2. DoubtfulThrough(v, f, pivot) = DoubtfulThrough(u, f, pivot)
      BY <1>1, <1>2, <3>1, TwinsDoubt
    <3> QED
      BY <3>2 DEF pivot
  <2>4. s1.tx = x /\ s1.work = Append(list, f)
    BY <1>3, <1>9 DEF LowerPlaced
  <2>5. LowerPlaced(v, f, list, toReference) = y
    BY <1>1, <1>7, <2>3, <2>10 DEF LowerPlaced
  <2> HIDE DEF doubtful, to, at, x, y
  <2>6. z1.tx = y /\ z1.work = Append(list, f)
    BY <1>4, <1>7, <1>9, <2>5
  <2>7. Proper(x) /\ Proper(y)
    BY <1>2, <2>4, <2>6
  <2>8. Twins(x, y, c)
    BY <1>1, <1>2, <2>7, TwinsPlaced DEF x, y
  <2>9. Append(list, f) \in Seq(0 .. c - 1)
    BY <1>1
  <2> QED
    BY <2>4, <2>6, <2>8, <2>9 DEF Abreast, s1, z1
<1> QED
  BY <1>8, <1>9

\* The earlier views.
LEMMA TwinsPropagateLower ==
  ASSUME NEW u, NEW v, NEW c, Twins(u, v, c), NEW pivot \in 0 .. c - 1, NEW toReference,
         Leads(u, pivot, toReference), Leads(v, pivot, toReference)
  PROVE  Twins(PropagateLower(u, pivot, toReference), PropagateLower(v, pivot, toReference), c)
<1>1. Proper(u) /\ Proper(v) /\ c \in Nat /\ pivot \in Nat
  BY TwinsAre
<1>2. PICK d : /\ PropagateLower(u, pivot, toReference) = d[pivot].tx
               /\ LowerTurns(d, pivot, u, toReference)
  BY <1>1, LowerRuns
<1>3. PICK e : /\ PropagateLower(v, pivot, toReference) = e[pivot].tx
               /\ LowerTurns(e, pivot, v, toReference)
  BY <1>1, LowerRuns
<1>4. \A i \in 0 .. pivot : Spreads(d[i], u, pivot, toReference)
  BY <1>1, <1>2, LowerTurnsSpread
<1>5. \A i \in 0 .. pivot : Spreads(e[i], v, pivot, toReference)
  BY <1>1, <1>3, LowerTurnsSpread
<1> DEFINE S == {i \in 0 .. pivot : Abreast(d[i], e[i], c)}
<1>6. 0 \in S
  <2>1. d[0] = [tx |-> u, work |-> <<pivot>>] /\ e[0] = [tx |-> v, work |-> <<pivot>>]
    BY <1>2, <1>3 DEF LowerTurns
  <2>2. <<pivot>> \in Seq(0 .. c - 1)
    OBVIOUS
  <2>3. d[0].tx = u /\ d[0].work = <<pivot>> /\ e[0].tx = v /\ e[0].work = <<pivot>>
    BY <2>1
  <2>4. Abreast(d[0], e[0], c)
    BY <2>2, <2>3 DEF Abreast
  <2> QED
    BY <1>1, <2>4
<1>7. ASSUME NEW i \in 1 .. pivot, i - 1 \in S
      PROVE  i \in S
  <2>1. pivot - i \in 0 .. c - 1 /\ i - 1 \in 0 .. pivot /\ i \in 0 .. pivot
    BY <1>1
  <2>2. /\ d[i] = LowerCandidate(d[i - 1], pivot - i, toReference)
        /\ e[i] = LowerCandidate(e[i - 1], pivot - i, toReference)
    BY <1>2, <1>3 DEF LowerTurns
  <2>3. Abreast(d[i - 1], e[i - 1], c)
    BY <1>7
  <2>4. Proper(d[i].tx) /\ Proper(e[i].tx) /\ d[i - 1].tx.m.established
    BY <1>4, <1>5, <2>1 DEF Spreads, Leads, Grown, Keeps
  <2>5. Abreast(d[i], e[i], c)
    BY <2>1, <2>2, <2>3, <2>4, TwinsLower
  <2> QED
    BY <2>1, <2>5
<1>8. \A i \in 1 .. pivot : i - 1 \in S => i \in S
  BY <1>7
<1> HIDE DEF S
<1>9. \A i \in 0 .. pivot : i \in S
  BY <1>1, <1>6, <1>8, TurnByTurn
<1>10. Abreast(d[pivot], e[pivot], c)
  BY <1>1, <1>9 DEF S
<1> QED
  BY <1>2, <1>3, <1>10 DEF Abreast

-----------------------------------------------------------------------------
(* The bridge in two transactions that agree *)

\* What one later view adds.
LEMMA HigherAdds ==
  ASSUME NEW tx, NEW f, NEW pivot, NEW toReference
  PROVE  LET to == Compose(toReference, SlotOf(tx.m, f, pivot).map)
             next == HigherCandidate(tx, f, pivot, toReference) IN
         /\ tx.active[f] \/ ~Overlapping(tx, f, pivot) => next = tx
         /\ ~(tx.active[f] \/ ~Overlapping(tx, f, pivot)) =>
              next = Placed(tx, f, to, DoubtfulThrough(tx, f, pivot))
BY DEF HigherCandidate

\* One later view.
LEMMA TwinsHigher ==
  ASSUME NEW u, NEW v, NEW c, Twins(u, v, c), u.m.established, NEW f \in 0 .. c - 1,
         NEW pivot \in 0 .. c - 1, NEW toReference,
         Proper(HigherCandidate(u, f, pivot, toReference)),
         Proper(HigherCandidate(v, f, pivot, toReference))
  PROVE  Twins(HigherCandidate(u, f, pivot, toReference),
               HigherCandidate(v, f, pivot, toReference), c)
<1> DEFINE to == Compose(toReference, SlotOf(u.m, f, pivot).map)
           x == HigherCandidate(u, f, pivot, toReference)
           y == HigherCandidate(v, f, pivot, toReference)
           doubtful == DoubtfulThrough(u, f, pivot)
           x1 == Placed(u, f, to, doubtful)
           y1 == Placed(v, f, to, doubtful)
<1>1. DoubtfulThrough(v, f, pivot) = doubtful
  BY TwinsDoubt
<1>2. /\ v.active[f] = u.active[f] /\ Overlapping(v, f, pivot) = Overlapping(u, f, pivot)
      /\ SlotOf(v.m, f, pivot) = SlotOf(u.m, f, pivot)
  BY TwinsRead
<1>3. /\ u.active[f] \/ ~Overlapping(u, f, pivot) => x = u
      /\ ~(u.active[f] \/ ~Overlapping(u, f, pivot)) => x = x1
  BY HigherAdds
<1>4. /\ v.active[f] \/ ~Overlapping(v, f, pivot) => y = v
      /\ ~(v.active[f] \/ ~Overlapping(v, f, pivot)) => y = y1
  <2>1. /\ v.active[f] \/ ~Overlapping(v, f, pivot) => y = v
        /\ ~(v.active[f] \/ ~Overlapping(v, f, pivot)) =>
             y = Placed(v, f, Compose(toReference, SlotOf(v.m, f, pivot).map),
                        DoubtfulThrough(v, f, pivot))
    BY HigherAdds
  <2> HIDE DEF y, doubtful
  <2> QED
    BY <1>1, <1>2, <2>1
<1>5. Proper(x) /\ Proper(y)
  OBVIOUS
<1> HIDE DEF x, y, to, doubtful
<1>6. CASE u.active[f] \/ ~Overlapping(u, f, pivot)
  BY <1>2, <1>3, <1>4, <1>6 DEF x, y
<1>7. CASE ~(u.active[f] \/ ~Overlapping(u, f, pivot))
  <2> HIDE DEF x1, y1
  <2>1. x = x1 /\ y = y1
    BY <1>2, <1>3, <1>4, <1>7
  <2>2. Proper(x1) /\ Proper(y1)
    BY <1>5, <2>1
  <2>3. Twins(x1, y1, c)
    BY <2>2, TwinsPlaced DEF x1, y1
  <2> QED
    BY <2>1, <2>3 DEF x, y
<1> QED
  BY <1>6, <1>7

\* The later views.
LEMMA TwinsPropagateHigher ==
  ASSUME NEW u, NEW v, NEW c, Twins(u, v, c), NEW pivot \in 0 .. c - 1,
         NEW current \in 0 .. c - 1, pivot < current, NEW toReference,
         Leads(u, pivot, toReference), Leads(v, pivot, toReference)
  PROVE  Twins(PropagateHigher(u, pivot, current, toReference),
               PropagateHigher(v, pivot, current, toReference), c)
<1> DEFINE n == current - pivot - 1
<1>1. /\ Proper(u) /\ Proper(v) /\ c \in Nat /\ pivot \in Nat /\ current \in Nat /\ n \in Nat
      /\ 0 .. c - 1 = Features(u.m) /\ 0 .. c - 1 \subseteq Features(v.m)
  BY TwinsAre
<1>2. n = current - pivot - 1
  OBVIOUS
<1> HIDE DEF n
<1>3. PICK d : /\ PropagateHigher(u, pivot, current, toReference) = d[n]
               /\ HigherTurns(d, n, u, pivot, toReference)
  BY <1>1, <1>2, HigherUnfolds
<1>4. PICK e : /\ PropagateHigher(v, pivot, current, toReference) = e[n]
               /\ HigherTurns(e, n, v, pivot, toReference)
  BY <1>1, <1>2, HigherUnfolds
<1> DEFINE S == {i \in 0 .. n : /\ Twins(d[i], e[i], c)
                                /\ Leads(d[i], pivot, toReference)
                                /\ Leads(e[i], pivot, toReference)}
<1>5. 0 \in S
  BY <1>1, <1>3, <1>4 DEF HigherTurns
<1>6. ASSUME NEW i \in 1 .. n, i - 1 \in S
      PROVE  i \in S
  <2> DEFINE a == d[i - 1]
             b == e[i - 1]
             f == pivot + i
  <2>1. f \in 0 .. c - 1 /\ f > pivot
    BY <1>1, <1>2
  <2>2. Twins(a, b, c) /\ Leads(a, pivot, toReference) /\ Leads(b, pivot, toReference)
    BY <1>6
  <2>3. /\ d[i] = HigherCandidate(a, f, pivot, toReference)
        /\ e[i] = HigherCandidate(b, f, pivot, toReference)
    BY <1>3, <1>4 DEF HigherTurns
  <2> HIDE DEF a, b, f
  <2>4. /\ Proper(a) /\ Proper(b) /\ f \in Features(a.m) /\ f \in Features(b.m)
        /\ a.m.established
    BY SMTT(30), <2>1, <2>2, TwinsAre DEF Leads
  <2>5. /\ Proper(d[i]) /\ Leads(d[i], pivot, toReference)
        /\ Proper(e[i]) /\ Leads(e[i], pivot, toReference)
    BY <2>1, <2>2, <2>3, <2>4, HigherProper
  <2>7. Twins(d[i], e[i], c)
    BY <2>1, <2>2, <2>3, <2>4, <2>5, TwinsHigher
  <2> QED
    BY <1>1, <2>5, <2>7
<1>7. \A i \in 1 .. n : i - 1 \in S => i \in S
  BY <1>6
<1> HIDE DEF S
<1>8. \A i \in 0 .. n : i \in S
  BY <1>1, <1>5, <1>7, TurnByTurn
<1>9. Twins(d[n], e[n], c)
  BY <1>1, <1>8 DEF S
<1> QED
  BY <1>3, <1>4, <1>9

-----------------------------------------------------------------------------
(* One more view in two transactions that agree *)

\* One bridge.
LEMMA TwinsBridge ==
  ASSUME NEW u, NEW v, NEW c, Twins(u, v, c), u.m.established, NEW current \in 0 .. c - 1,
         u.active[current], NEW pivot \in 0 .. c - 1, pivot < current,
         pivot # u.m.reference, IsSet(u.m, current, pivot)
  PROVE  Twins(BridgeFeature(u, current, pivot), BridgeFeature(v, current, pivot), c)
<1> DEFINE to == BridgeTo(u, current, pivot)
           u1 == Landed(u, current, pivot)
           v1 == Landed(v, current, pivot)
           u2 == PropagateLower(u1, pivot, to)
           v2 == PropagateLower(v1, pivot, to)
<1>1. /\ Proper(u) /\ Proper(v) /\ v.m.established /\ v.m.reference = u.m.reference
      /\ current \in Features(u.m) /\ current \in Features(v.m)
      /\ pivot \in Features(u.m) /\ pivot \in Features(v.m)
      /\ u.m.reference \in 0 .. c - 1
  <2>1. /\ Proper(u) /\ Proper(v) /\ Alike(u, v, c) /\ u.m.reference \in 0 .. c - 1
        /\ 0 .. c - 1 = Features(u.m) /\ 0 .. c - 1 \subseteq Features(v.m)
    BY TwinsAre
  <2>2. v.m.established /\ v.m.reference = u.m.reference
    BY <2>1 DEF Alike
  <2> QED
    BY <2>1, <2>2
<1>2. v.active[current] /\ IsSet(v.m, current, pivot)
  BY TwinsRead
<1>3. BridgeTo(v, current, pivot) = to
  <2>1. /\ SlotOf(v.m, current, pivot) = SlotOf(u.m, current, pivot)
        /\ SlotOf(v.m, current, u.m.reference) = SlotOf(u.m, current, u.m.reference)
    BY <1>1, TwinsRead
  <2>2. FeatureToReference(v.m, current) = FeatureToReference(u.m, current)
    BY <1>1, <2>1 DEF FeatureToReference
  <2> QED
    BY <2>1, <2>2 DEF BridgeTo
<1>4. /\ BridgeFeature(u, current, pivot) = PropagateHigher(u2, pivot, current, to)
      /\ Proper(u1) /\ Leads(u1, pivot, to) /\ Proper(u2) /\ Leads(u2, pivot, to)
  BY <1>1, BridgeIs
<1>5. /\ BridgeFeature(v, current, pivot) = PropagateHigher(v2, pivot, current, to)
      /\ Proper(v1) /\ Leads(v1, pivot, to) /\ Proper(v2) /\ Leads(v2, pivot, to)
  <2>1. /\ BridgeFeature(v, current, pivot)
             = PropagateHigher(PropagateLower(v1, pivot, BridgeTo(v, current, pivot)), pivot,
                               current, BridgeTo(v, current, pivot))
        /\ Proper(v1) /\ Leads(v1, pivot, BridgeTo(v, current, pivot))
        /\ Proper(PropagateLower(v1, pivot, BridgeTo(v, current, pivot)))
        /\ Leads(PropagateLower(v1, pivot, BridgeTo(v, current, pivot)), pivot,
                 BridgeTo(v, current, pivot))
    BY <1>1, <1>2, BridgeIs
  <2> HIDE DEF to, v1
  <2> QED
    BY <1>3, <2>1
<1>6. Twins(u1, v1, c)
  <2> DEFINE doubtful == DoubtfulThrough(u, pivot, current)
             x == Placed(u, pivot, to, doubtful)
             y == Placed(v, pivot, to, doubtful)
  <2>4. DoubtfulThrough(v, pivot, current) = doubtful
    BY TwinsDoubt
  <2>1. u1 = x /\ v1 = y
    BY <1>3, <2>4 DEF Landed
  <2> HIDE DEF u1, v1, to, doubtful
  <2>2. Proper(x) /\ Proper(y)
    BY <1>4, <1>5, <2>1
  <2>3. Twins(x, y, c)
    BY <2>2, TwinsPlaced
  <2> HIDE DEF x, y
  <2> QED
    BY <2>1, <2>3
<1> HIDE DEF to, u1, v1
<1>7. Twins(u2, v2, c)
  BY <1>4, <1>5, <1>6, TwinsPropagateLower
<1> HIDE DEF u2, v2
<1>8. Twins(PropagateHigher(u2, pivot, current, to), PropagateHigher(v2, pivot, current, to), c)
  BY <1>4, <1>5, <1>7, TwinsPropagateHigher
<1> QED
  BY <1>4, <1>5, <1>8

\* d are the turns of the bridges of a new view.
BridgeTurns(d, n, tx, seen) ==
  /\ d[0] = tx
  /\ \A i \in 1 .. n : d[i] = IF i - 1 \in Pivots(tx, seen)
                                THEN BridgeFeature(d[i - 1], n, i - 1) ELSE d[i - 1]

\* The bridges, as turns.
LEMMA BridgeRuns ==
  ASSUME NEW tx, NEW n \in Nat, NEW seen, tx.m.established, tx.active[n]
  PROVE  \E d : Bridged(tx, n, seen) = d[n] /\ BridgeTurns(d, n, tx, seen)
BY BridgeUnfolds DEF BridgeTurns

\* A bridge can be built from what has grown out of a transaction.
LEMMA PivotStays ==
  ASSUME NEW tx, Proper(tx), tx.m.established, NEW current \in Features(tx.m),
         tx.active[current], NEW seen, DOMAIN seen \subseteq 0 .. current - 1,
         \A p \in DOMAIN seen : IsSet(tx.m, current, p), NEW p \in Pivots(tx, seen),
         NEW x, Grown(tx, x)
  PROVE  /\ x.m.established /\ x.active[current] /\ p # x.m.reference /\ IsSet(x.m, current, p)
         /\ p \in Features(tx.m) /\ p < current /\ Features(x.m) = Features(tx.m)
<1>1. /\ current \in Nat /\ Features(tx.m) = 0 .. tx.m.n - 1 /\ tx.m.n \in Nat
      /\ tx.m.reference \in Features(tx.m) /\ tx.active[tx.m.reference]
  BY TransactionIs DEF Proper, WellMade
<1>2. /\ p \in DOMAIN seen /\ p # tx.m.reference /\ p \in Features(tx.m)
      /\ p < current /\ IsSet(tx.m, current, p)
  BY <1>1 DEF Pivots
<1> QED
  BY <1>2 DEF Grown, Keeps

\* All the bridges of a new view.
LEMMA TwinsBridged ==
  ASSUME NEW u, NEW v, NEW c, Twins(u, v, c), NEW current \in 0 .. c - 1, NEW seen,
         DOMAIN seen \subseteq 0 .. current - 1,
         \A p \in DOMAIN seen : IsSet(u.m, current, p)
  PROVE  Twins(Bridged(u, current, seen), Bridged(v, current, seen), c)
<1>1. /\ v.m.established = u.m.established /\ v.active[current] = u.active[current]
      /\ Proper(u) /\ Proper(v) /\ c \in Nat /\ current \in Nat
      /\ 0 .. c - 1 = Features(u.m) /\ 0 .. c - 1 \subseteq Features(v.m)
  BY TwinsAre, TwinsRead
<1>2. CASE ~(u.m.established /\ u.active[current])
  <2>1. Bridged(u, current, seen) = u
    BY <1>2 DEF Bridged
  <2>2. Bridged(v, current, seen) = v
    BY <1>1, <1>2 DEF Bridged
  <2> QED
    BY <2>1, <2>2
<1>3. CASE u.m.established /\ u.active[current]
  <2>1. DOMAIN seen \subseteq 0 .. c - 1
    BY <1>1
  <2>2. Pivots(v, seen) = Pivots(u, seen)
    BY <2>1, TwinsRead DEF Pivots
  <2>3. \A p \in DOMAIN seen : IsSet(v.m, current, p)
    BY <2>1, TwinsRead
  <2>4. PICK d : Bridged(u, current, seen) = d[current] /\ BridgeTurns(d, current, u, seen)
    BY <1>1, <1>3, BridgeRuns
  <2>5. PICK e : Bridged(v, current, seen) = e[current] /\ BridgeTurns(e, current, v, seen)
    BY <1>1, <1>3, BridgeRuns
  <2> DEFINE S == {i \in 0 .. current : /\ Twins(d[i], e[i], c)
                                        /\ Grown(u, d[i]) /\ Grown(v, e[i])}
  <2>6. 0 \in S
    BY <1>1, <2>4, <2>5, GrownSame DEF BridgeTurns
  <2>7. ASSUME NEW i \in 1 .. current, i - 1 \in S
        PROVE  i \in S
    <3> DEFINE a == d[i - 1]
               b == e[i - 1]
               p == i - 1
    <3>1. Twins(a, b, c) /\ Grown(u, a) /\ Grown(v, b)
      BY <2>7
    <3>2. /\ d[i] = IF p \in Pivots(u, seen) THEN BridgeFeature(a, current, p) ELSE a
          /\ e[i] = IF p \in Pivots(u, seen) THEN BridgeFeature(b, current, p) ELSE b
      BY <2>2, <2>4, <2>5 DEF BridgeTurns
    <3> HIDE DEF a, b, p
    <3>3. CASE p \in Pivots(u, seen)
      <4>1. /\ a.m.established /\ a.active[current] /\ p # a.m.reference /\ IsSet(a.m, current, p)
            /\ p \in 0 .. c - 1 /\ p < current /\ Features(a.m) = Features(u.m)
        BY <1>1, <1>3, <3>1, <3>3, PivotStays
      <4>2. /\ b.m.established /\ b.active[current] /\ p # b.m.reference /\ IsSet(b.m, current, p)
            /\ p \in Features(v.m) /\ Features(b.m) = Features(v.m) /\ current \in Features(v.m)
        <5>1. p \in Pivots(v, seen) /\ v.m.established /\ v.active[current]
              /\ current \in Features(v.m)
          BY <1>1, <1>3, <2>2, <3>3
        <5> QED
          BY <1>1, <2>3, <3>1, <5>1, PivotStays
      <4>3. Proper(a) /\ Proper(b)
        BY <3>1 DEF Twins
      <4>4. Grown(a, BridgeFeature(a, current, p))
        BY <1>1, <4>1, <4>3, BridgeFeatureProper
      <4>5. Grown(b, BridgeFeature(b, current, p))
        BY <4>1, <4>2, <4>3, BridgeFeatureProper
      <4>6. Twins(BridgeFeature(a, current, p), BridgeFeature(b, current, p), c)
        BY <3>1, <4>1, TwinsBridge
      <4>7. Twins(d[i], e[i], c) /\ Grown(a, d[i]) /\ Grown(b, e[i])
        BY <3>2, <3>3, <4>4, <4>5, <4>6
      <4>8. Grown(u, d[i]) /\ Grown(v, e[i])
        BY <3>1, <4>7, GrownTransitive
      <4> QED
        BY <1>1, <4>7, <4>8
    <3>4. CASE p \notin Pivots(u, seen)
      BY <1>1, <3>1, <3>2, <3>4
    <3> QED
      BY <3>3, <3>4
  <2>8. \A i \in 1 .. current : i - 1 \in S => i \in S
    BY <2>7
  <2> HIDE DEF S
  <2>9. \A i \in 0 .. current : i \in S
    BY <1>1, <2>6, <2>8, TurnByTurn
  <2>10. Twins(d[current], e[current], c)
    BY <1>1, <2>9 DEF S
  <2> QED
    BY <2>4, <2>5, <2>10
<1> QED
  BY <1>2, <1>3

-----------------------------------------------------------------------------
(* A new view registered and placed in two transactions that agree *)

\* The earlier view whose registration goes into slot i.
PriorAt(tx, current, seen, i) ==
  CHOOSE p \in DOMAIN seen : SlotIndex(tx.m, current, p) = i

\* The slots of the new view's row that are set, and what is stored in them.
RowOf(tx, current, seen) == {SlotIndex(tx.m, current, p) : p \in DOMAIN seen}

RegisteredSlots(tx, current, seen) ==
  [i \in DOMAIN tx.m.slot \cup RowOf(tx, current, seen) |->
     IF i \in RowOf(tx, current, seen)
     THEN [rank |-> seen[PriorAt(tx, current, seen, i)].inliers,
           map |-> Measured(tx.sample[current], tx.sample[PriorAt(tx, current, seen, i)])]
     ELSE tx.m.slot[i]]

RegisteredOverlaps(tx, current, seen) ==
  [i \in DOMAIN tx.overlap \cup RowOf(tx, current, seen) |->
     IF i \in RowOf(tx, current, seen) THEN seen[PriorAt(tx, current, seen, i)].overlap
     ELSE tx.overlap[i]]

\* A registration, field by field.
LEMMA RegisteredIs ==
  ASSUME NEW tx \in Transactions, NEW current, NEW seen
  PROVE  LET x == Registered(tx, current, seen) IN
         /\ x.m = [tx.m EXCEPT !.slot = RegisteredSlots(tx, current, seen)]
         /\ x.overlap = RegisteredOverlaps(tx, current, seen)
         /\ x.sample = tx.sample /\ x.active = tx.active /\ x.doubt = tx.doubt
<1> DEFINE s == RegisteredSlots(tx, current, seen)
           o == RegisteredOverlaps(tx, current, seen)
           x == Registered(tx, current, seen)
<1>1. x = [tx EXCEPT !.m.slot = s, !.overlap = o]
  BY DEF Registered, RegisteredSlots, RegisteredOverlaps, RowOf, PriorAt
<1> HIDE DEF x, s, o
<1>2. x.m = [tx.m EXCEPT !.slot = s] /\ x.overlap = o
      /\ x.sample = tx.sample /\ x.active = tx.active /\ x.doubt = tx.doubt
  BY <1>1 DEF Transactions
<1> QED
  BY <1>2 DEF x, s, o

\* The slots of different earlier views differ.
LEMMA PriorIs ==
  ASSUME NEW m, Filled(m), NEW current \in Features(m), NEW p \in Features(m), p < current,
         NEW q \in Features(m), q < current, SlotIndex(m, current, p) = SlotIndex(m, current, q)
  PROVE  p = q
<1>1. current \in Nat /\ p \in Nat /\ q \in Nat /\ p # current /\ q # current
  BY MatrixIs DEF Filled
<1>2. SlotAt(current, p) = SlotAt(current, q)
  BY <1>1, PairIs
<1> QED
  BY <1>1, <1>2, SlotsApart

\* The new view's registrations.
LEMMA TwinsRegistered ==
  ASSUME NEW u, NEW v, NEW c, Twins(u, v, c), NEW current \in 0 .. c - 1,
         NEW seen, Seen(seen, current)
  PROVE  Twins(Registered(u, current, seen), Registered(v, current, seen), c)
<1> DEFINE x == Registered(u, current, seen)
           y == Registered(v, current, seen)
           s == RegisteredSlots(u, current, seen)
           o == RegisteredOverlaps(u, current, seen)
<1>1. /\ c \in Nat /\ u \in Transactions /\ v \in Transactions /\ Proper(u) /\ Proper(v)
      /\ Filled(u.m) /\ u.m \in Matrices /\ v.m \in Matrices
      /\ Features(u.m) = 0 .. c - 1 /\ 0 .. c - 1 \subseteq Features(v.m)
      /\ Alike(u, v, c) /\ u.m.n = c /\ v.m.n \in Nat
  BY TwinsAre
<1>2. v.m.n >= c
  BY DEF Twins
<1>3. DOMAIN seen \subseteq 0 .. c - 1 /\ \A p \in DOMAIN seen : p < current /\ p \in Features(u.m)
  BY <1>1 DEF Seen
<1>4. \A p \in DOMAIN seen : SlotIndex(v.m, current, p) = SlotIndex(u.m, current, p)
  BY <1>3, TwinsRead
<1>5. RowOf(v, current, seen) = RowOf(u, current, seen)
  BY <1>4 DEF RowOf
<1>6. ASSUME NEW i \in RowOf(u, current, seen)
      PROVE  /\ PriorAt(v, current, seen, i) = PriorAt(u, current, seen, i)
             /\ PriorAt(u, current, seen, i) \in DOMAIN seen
  <2>1. /\ PriorAt(u, current, seen, i) \in DOMAIN seen
        /\ SlotIndex(u.m, current, PriorAt(u, current, seen, i)) = i
    BY DEF RowOf, PriorAt
  <2>2. /\ PriorAt(v, current, seen, i) \in DOMAIN seen
        /\ SlotIndex(v.m, current, PriorAt(v, current, seen, i)) = i
    <3>1. i \in RowOf(v, current, seen)
      BY <1>5
    <3> QED
      BY <3>1 DEF RowOf, PriorAt
  <2> QED
    BY <1>1, <1>3, <1>4, <2>1, <2>2, PriorIs
<1>7. RegisteredSlots(v, current, seen) = s
  <2>1. \A p \in DOMAIN seen : v.sample[p] = u.sample[p]
    BY <1>3, TwinsRead
  <2>2. v.m.slot = u.m.slot /\ v.sample[current] = u.sample[current]
    BY <1>1 DEF Alike
  <2> QED
    BY <1>5, <1>6, <2>1, <2>2 DEF RegisteredSlots
<1>8. RegisteredOverlaps(v, current, seen) = o
  <2>1. v.overlap = u.overlap
    BY <1>1 DEF Alike
  <2> QED
    BY <1>5, <1>6, <2>1 DEF RegisteredOverlaps
<1>9. /\ x.m = [u.m EXCEPT !.slot = s] /\ x.overlap = o
      /\ x.sample = u.sample /\ x.active = u.active /\ x.doubt = u.doubt
  BY <1>1, RegisteredIs
<1>10. /\ y.m = [v.m EXCEPT !.slot = s] /\ y.overlap = o
       /\ y.sample = v.sample /\ y.active = v.active /\ y.doubt = v.doubt
  BY <1>1, <1>7, <1>8, RegisteredIs
<1>11. Proper(x) /\ Proper(y)
  BY <1>1, RegisteredProper
<1> HIDE DEF x, y, s, o
<1>12. /\ x.m.slot = s /\ x.m.n = c /\ x.m.base = u.m.base /\ x.m.reference = u.m.reference
       /\ x.m.established = u.m.established
  BY <1>1, <1>9, SlotsOf
<1>13. /\ y.m.slot = s /\ y.m.n = v.m.n /\ y.m.base = v.m.base /\ y.m.reference = v.m.reference
       /\ y.m.established = v.m.established /\ Features(y.m) = Features(v.m)
  <2>1. y.m = [v.m EXCEPT !.slot = s] /\ v.m \in Matrices
    BY <1>1, <1>10
  <2> QED
    BY <2>1, SlotsOf
<1>14. /\ y.overlap = x.overlap /\ y.doubt = x.doubt /\ y.m.reference = x.m.reference
       /\ y.m.established = x.m.established
  BY <1>1, <1>9, <1>10, <1>12, <1>13 DEF Alike
<1>15. \A f \in 0 .. c - 1 : /\ y.m.base[f] = x.m.base[f] /\ y.sample[f] = x.sample[f]
                             /\ y.active[f] = x.active[f]
  BY <1>1, <1>9, <1>10, <1>12, <1>13 DEF Alike
<1>16. \A f \in Features(y.m) : f >= c => ~y.active[f]
  BY <1>1, <1>10, <1>13 DEF Alike
<1>17. Alike(x, y, c)
  BY <1>12, <1>13, <1>14, <1>15, <1>16 DEF Alike
<1> QED
  BY <1>2, <1>11, <1>12, <1>13, <1>17 DEF Twins, x, y

\* How the new view is placed through a placed one.
Through(tx, seen) == Best(seen, {p \in DOMAIN seen : tx.active[p]})

ConnectedTo(tx, current, seen) ==
  LET through == Through(tx, seen)
      direct == SlotOf(tx.m, current, through).map
  IN IF through = tx.m.reference THEN direct
     ELSE Route(SlotOf(tx.m, through, tx.m.reference).map, direct, through, tx.m.reference)

ConnectedSlots(tx, current, seen) ==
  LET rank == Rank(tx.m, current, tx.m.reference)
  IN With(tx.m.slot, SlotIndex(tx.m, current, tx.m.reference),
          [rank |-> IF rank < 0 THEN 0 ELSE rank, map |-> ConnectedTo(tx, current, seen)])

ConnectedDoubt(tx, current, seen) ==
  Marked(tx.doubt, SlotIndex(tx.m, current, tx.m.reference),
         DoubtfulThrough(tx, current, Through(tx, seen)))

\* The same, field by field.
LEMMA ConnectedIs ==
  ASSUME NEW tx \in Transactions, NEW current, NEW seen, Proper(Connected(tx, current, seen))
  PROVE  Gained(tx, Connected(tx, current, seen), ConnectedSlots(tx, current, seen), current,
                ConnectedDoubt(tx, current, seen))
<1> DEFINE s == ConnectedSlots(tx, current, seen)
           a == [tx.active EXCEPT ![current] = TRUE]
           doubt == ConnectedDoubt(tx, current, seen)
           x == Connected(tx, current, seen)
<1>1. x = [tx EXCEPT !.m = [tx.m EXCEPT !.slot = s], !.active[current] = TRUE,
                     !.doubt = doubt]
  <2> DEFINE to == ConnectedTo(tx, current, seen)
             had == Rank(tx.m, current, tx.m.reference)
             rank == IF had < 0 THEN 0 ELSE had
             index == SlotIndex(tx.m, current, tx.m.reference)
  <2>1. x = [tx EXCEPT !.m = SetSlot(@, index, rank, to), !.active[current] = TRUE,
                       !.doubt = Marked(@, index, DoubtfulThrough(tx, current, Through(tx, seen)))]
    BY DEF Connected, ConnectedTo, Through
  <2>2. s = With(tx.m.slot, index, [rank |-> rank, map |-> to])
    BY DEF ConnectedSlots
  <2> HIDE DEF x, s, to, rank
  <2>3. SetSlot(tx.m, index, rank, to) = [tx.m EXCEPT !.slot = s]
    BY <2>2 DEF SetSlot
  <2>4. x = [tx EXCEPT !.m = SetSlot(tx.m, index, rank, to), !.active[current] = TRUE,
                       !.doubt = doubt]
    BY <2>1 DEF ConnectedDoubt
  <2> QED
    BY <2>3, <2>4
<1> HIDE DEF x, s, doubt
<1>2. x.m = [tx.m EXCEPT !.slot = s] /\ x.active = a
      /\ x.overlap = tx.overlap /\ x.sample = tx.sample /\ x.doubt = doubt
  BY <1>1 DEF Transactions
<1> QED
  BY <1>2 DEF x, s, doubt, Gained

\* The new view is placed through the same view in both.
LEMMA TwinsConnected ==
  ASSUME NEW u, NEW v, NEW c, Twins(u, v, c), u.m.established, NEW current \in 0 .. c - 1,
         NEW seen, Seen(seen, current), \E p \in DOMAIN seen : u.active[p],
         Proper(Connected(u, current, seen)), Proper(Connected(v, current, seen))
  PROVE  Twins(Connected(u, current, seen), Connected(v, current, seen), c)
<1> DEFINE x == Connected(u, current, seen)
           y == Connected(v, current, seen)
           s == ConnectedSlots(u, current, seen)
           doubt == ConnectedDoubt(u, current, seen)
           r == u.m.reference
           through == Through(u, seen)
           placed == {p \in DOMAIN seen : u.active[p]}
<1>1. /\ c \in Nat /\ u \in Transactions /\ v \in Transactions /\ Alike(u, v, c)
      /\ r \in 0 .. c - 1
  BY TwinsAre
<1>2. v.m.reference = r /\ v.m.slot = u.m.slot /\ v.doubt = u.doubt
  BY <1>1 DEF Alike
<1>3. DOMAIN seen \subseteq 0 .. c - 1 /\ current \in Nat
  BY <1>1 DEF Seen
<1>4. {p \in DOMAIN seen : v.active[p]} = placed
  BY <1>3, TwinsRead
<1>5. Through(v, seen) = through /\ through \in 0 .. c - 1
  <2>1. Through(v, seen) = through
    <3> HIDE DEF placed
    <3>1. /\ Through(v, seen) = Best(seen, {p \in DOMAIN seen : v.active[p]})
          /\ through = Best(seen, placed)
      BY DEF Through, placed
    <3> QED
      BY <1>4, <3>1
  <2>2. through \in placed
    <3>1. placed \in SUBSET (DOMAIN seen) /\ placed # {} /\ through = Best(seen, placed)
      BY DEF Through
    <3> HIDE DEF placed, through
    <3> QED
      BY <1>3, <3>1, BestIs
  <2> QED
    BY <1>3, <2>1, <2>2
<1>6. /\ SlotOf(v.m, current, through) = SlotOf(u.m, current, through)
      /\ SlotOf(v.m, through, r) = SlotOf(u.m, through, r)
      /\ Rank(v.m, current, r) = Rank(u.m, current, r)
      /\ SlotIndex(v.m, current, r) = SlotIndex(u.m, current, r)
  <2> HIDE DEF through, r
  <2> QED
    BY <1>1, <1>5, TwinsRead
<1>7. ConnectedTo(v, current, seen) = ConnectedTo(u, current, seen)
  BY <1>2, <1>5, <1>6 DEF ConnectedTo
<1>8. ConnectedSlots(v, current, seen) = s
  BY <1>2, <1>6, <1>7 DEF ConnectedSlots
<1>11. ConnectedDoubt(v, current, seen) = doubt
  <2>1. DoubtfulThrough(v, current, through) = DoubtfulThrough(u, current, through)
    BY <1>5, TwinsDoubt
  <2> HIDE DEF through, r
  <2>2. v.m.reference = u.m.reference
    BY <1>2 DEF r
  <2> QED
    BY <1>2, <1>5, <1>6, <2>1, <2>2 DEF ConnectedDoubt, through, r
<1>9. Gained(u, x, s, current, doubt)
  BY <1>1, ConnectedIs
<1>10. Gained(v, y, s, current, doubt)
  <2>1. Gained(v, y, ConnectedSlots(v, current, seen), current,
               ConnectedDoubt(v, current, seen))
    BY <1>1, ConnectedIs
  <2> HIDE DEF y, s, doubt
  <2> QED
    BY <1>8, <1>11, <2>1
<1> HIDE DEF x, y, s, doubt
<1> QED
  <2>1. Twins(x, y, c)
    BY <1>9, <1>10, TwinsGain
  <2> QED
    BY <2>1 DEF x, y

-----------------------------------------------------------------------------
(* The graph's first pair, and the whole insertion *)

\* The first pair that overlaps enough.
FirstPair(tx, current, best) ==
  [tx EXCEPT !.active[current] = TRUE, !.active[best] = TRUE,
             !.m.reference = best, !.m.established = TRUE]

\* x is tx with the first pair in it.
Paired(tx, x, current, best) ==
  /\ x.m.slot = tx.m.slot /\ x.m.n = tx.m.n /\ x.m.base = tx.m.base
  /\ x.m.reference = best /\ x.m.established = TRUE /\ Features(x.m) = Features(tx.m)
  /\ x.active = [[tx.active EXCEPT ![current] = TRUE] EXCEPT ![best] = TRUE]
  /\ x.overlap = tx.overlap /\ x.sample = tx.sample /\ x.doubt = tx.doubt

\* The same, field by field.
LEMMA FirstPairIs ==
  ASSUME NEW tx \in Transactions, NEW current, NEW best
  PROVE  Paired(tx, FirstPair(tx, current, best), current, best)
<1> DEFINE yes == TRUE
           k == [tx.m EXCEPT !.reference = best, !.established = yes]
           a == [[tx.active EXCEPT ![current] = TRUE] EXCEPT ![best] = TRUE]
           x == FirstPair(tx, current, best)
<1>1. x = [tx EXCEPT !.m = k, !.active = a]
  BY DEF FirstPair, Transactions
<1>2. tx.m \in Matrices
  BY DEF Transactions
<1>3. yes = TRUE
  OBVIOUS
<1> HIDE DEF yes
<1>4. /\ k.slot = tx.m.slot /\ k.n = tx.m.n /\ k.base = tx.m.base
      /\ k.reference = best /\ k.established = yes
  BY <1>2 DEF Matrices
<1> HIDE DEF k, a, x
<1>5. /\ x.m = k /\ x.active = a /\ x.overlap = tx.overlap /\ x.sample = tx.sample
      /\ x.doubt = tx.doubt
  BY <1>1 DEF Transactions
<1>6. Features(k) = Features(tx.m)
  BY <1>4 DEF Features
<1> QED
  BY <1>3, <1>4, <1>5, <1>6 DEF x, a, Paired

\* The first pair in both.
LEMMA TwinsFirst ==
  ASSUME NEW u, NEW v, NEW c, Twins(u, v, c), NEW current \in 0 .. c - 1, NEW best \in 0 .. c - 1,
         Proper(FirstPair(u, current, best)), Proper(FirstPair(v, current, best))
  PROVE  Twins(FirstPair(u, current, best), FirstPair(v, current, best), c)
<1> DEFINE x == FirstPair(u, current, best)
           y == FirstPair(v, current, best)
<1>1. /\ c \in Nat /\ u \in Transactions /\ v \in Transactions /\ Features(u.m) = 0 .. c - 1
      /\ 0 .. c - 1 \subseteq Features(v.m)
      /\ u.active \in [Features(u.m) -> BOOLEAN] /\ v.active \in [Features(v.m) -> BOOLEAN]
      /\ Alike(u, v, c) /\ u.m.n = c /\ v.m.n \in Nat
      /\ Features(v.m) = 0 .. v.m.n - 1
  BY TwinsAre
<1>2. v.m.n >= c /\ Proper(x) /\ Proper(y)
  BY DEF Twins
<1>p. Paired(u, x, current, best) /\ Paired(v, y, current, best)
  BY <1>1, FirstPairIs
<1> HIDE DEF x, y
<1>3. /\ x.m.slot = u.m.slot /\ x.m.n = c /\ x.m.base = u.m.base
      /\ x.m.reference = best /\ x.m.established = TRUE
      /\ x.active = [[u.active EXCEPT ![current] = TRUE] EXCEPT ![best] = TRUE]
      /\ x.overlap = u.overlap /\ x.sample = u.sample /\ x.doubt = u.doubt
  BY <1>1, <1>p DEF Paired
<1>4. /\ y.m.slot = v.m.slot /\ y.m.n = v.m.n /\ y.m.base = v.m.base
      /\ y.m.reference = best /\ y.m.established = TRUE /\ Features(y.m) = Features(v.m)
      /\ y.active = [[v.active EXCEPT ![current] = TRUE] EXCEPT ![best] = TRUE]
      /\ y.overlap = v.overlap /\ y.sample = v.sample /\ y.doubt = v.doubt
  BY <1>1, <1>p DEF Paired
<1>5. ASSUME NEW g \in 0 .. c - 1
      PROVE  y.active[g] = x.active[g]
  <2>1. g \in Features(u.m) /\ g \in Features(v.m)
    BY <1>1
  <2>2. v.active[g] = u.active[g]
    BY <1>1 DEF Alike
  <2>3. CASE g = current \/ g = best
    <3>1. x.active[g] = TRUE /\ y.active[g] = TRUE
      BY <1>1, <1>3, <1>4, <2>1, <2>3
    <3> QED
      BY <3>1
  <2>4. CASE g # current /\ g # best
    <3>1. x.active[g] = u.active[g] /\ y.active[g] = v.active[g]
      BY <1>1, <1>3, <1>4, <2>1, <2>4
    <3> QED
      BY <2>2, <3>1
  <2> QED
    BY <2>3, <2>4
<1>6. ASSUME NEW g \in Features(y.m), g >= c
      PROVE  ~y.active[g]
  <2>1. g \in Features(v.m) /\ ~v.active[g] /\ g # current /\ g # best
    BY <1>1, <1>4, <1>6 DEF Alike
  <2> QED
    BY <1>1, <1>4, <2>1
<1>7. \A g \in 0 .. c - 1 : v.m.base[g] = u.m.base[g] /\ v.sample[g] = u.sample[g]
  BY <1>1 DEF Alike
<1>8. /\ x.m.established = y.m.established /\ u.overlap = v.overlap
      /\ u.m.slot = v.m.slot /\ u.doubt = v.doubt
  BY <1>1, <1>3, <1>4 DEF Alike
<1>9. Alike(x, y, c)
  <2>1. /\ y.m.slot = x.m.slot /\ y.overlap = x.overlap /\ y.m.reference = x.m.reference
        /\ y.m.established = x.m.established /\ y.doubt = x.doubt
    BY <1>3, <1>4, <1>8
  <2>2. \A g \in 0 .. c - 1 : y.m.base[g] = x.m.base[g] /\ y.sample[g] = x.sample[g]
    BY <1>3, <1>4, <1>7
  <2>3. \A g \in 0 .. c - 1 : y.active[g] = x.active[g]
    BY <1>5
  <2>4. \A g \in Features(y.m) : g >= c => ~y.active[g]
    BY <1>6
  <2> QED
    BY <2>1, <2>2, <2>3, <2>4 DEF Alike
<1> QED
  BY <1>2, <1>3, <1>4, <1>9 DEF Twins, x, y

\* Which of the three ways a new view takes.
LEMMA LocatedIs ==
  ASSUME NEW tx, NEW current, NEW seen
  PROVE  LET best == Best(seen, DOMAIN seen)
             first == seen # << >> /\ ~tx.m.established /\ seen[best].overlap > 205
             placed == \E p \in DOMAIN seen : tx.active[p] IN
         /\ first => Located(tx, current, seen) = FirstPair(tx, current, best)
         /\ ~first /\ placed => Located(tx, current, seen) = Connected(tx, current, seen)
         /\ ~first /\ ~placed => Located(tx, current, seen) = tx
BY DEF Located, FirstPair

\* The place of the new view.
LEMMA TwinsLocated ==
  ASSUME NEW u, NEW v, NEW c, Twins(u, v, c), NEW current \in 0 .. c - 1,
         NEW seen, Seen(seen, current),
         Proper(Located(u, current, seen)), Proper(Located(v, current, seen))
  PROVE  Twins(Located(u, current, seen), Located(v, current, seen), c)
<1> DEFINE best == Best(seen, DOMAIN seen)
           first == seen # << >> /\ ~u.m.established /\ seen[best].overlap > 205
           placed == \E p \in DOMAIN seen : u.active[p]
           x == Located(u, current, seen)
           y == Located(v, current, seen)
<1>1. Proper(u) /\ WellMade(u) /\ c \in Nat /\ Features(u.m) = 0 .. c - 1 /\ Proper(x) /\ Proper(y)
  BY TwinsAre DEF Proper
<1>2. DOMAIN seen \subseteq 0 .. c - 1 /\ DOMAIN seen \subseteq 0 .. current - 1 /\ current \in Nat
  BY <1>1 DEF Seen
<1>3. /\ (seen # << >> /\ ~v.m.established /\ seen[best].overlap > 205) = first
      /\ (\E p \in DOMAIN seen : v.active[p]) = placed
  BY <1>2, TwinsRead
<1>4. /\ first => x = FirstPair(u, current, best)
      /\ ~first /\ placed => x = Connected(u, current, seen)
      /\ ~first /\ ~placed => x = u
  BY LocatedIs
<1>5. /\ first => y = FirstPair(v, current, best)
      /\ ~first /\ placed => y = Connected(v, current, seen)
      /\ ~first /\ ~placed => y = v
  <2>1. LET f == seen # << >> /\ ~v.m.established /\ seen[best].overlap > 205
            p == \E p \in DOMAIN seen : v.active[p] IN
        /\ f => y = FirstPair(v, current, best)
        /\ ~f /\ p => y = Connected(v, current, seen)
        /\ ~f /\ ~p => y = v
    BY LocatedIs
  <2> QED
    BY <1>3, <2>1
<1> HIDE DEF x, y
<1>6. CASE first
  <2>1. best \in 0 .. c - 1
    <3>1. DOMAIN seen # {}
      BY <1>6, NoneSeen DEF Seen
    <3>2. best \in DOMAIN seen
      BY <1>2, <3>1, BestIs
    <3> QED
      BY <1>2, <3>2
  <2>2. x = FirstPair(u, current, best) /\ y = FirstPair(v, current, best)
    BY <1>4, <1>5, <1>6
  <2> HIDE DEF best, first
  <2>3. Twins(FirstPair(u, current, best), FirstPair(v, current, best), c)
    BY <1>1, <2>1, <2>2, TwinsFirst
  <2> QED
    BY <2>2, <2>3 DEF x, y
<1>7. CASE ~first /\ placed
  <2>1. u.m.established
    BY <1>1, <1>2, <1>7 DEF WellMade
  <2>2. x = Connected(u, current, seen) /\ y = Connected(v, current, seen)
    BY <1>4, <1>5, <1>7
  <2>3. Twins(Connected(u, current, seen), Connected(v, current, seen), c)
    BY <1>1, <1>7, <2>1, <2>2, TwinsConnected
  <2> QED
    BY <2>2, <2>3 DEF x, y
<1>8. CASE ~first /\ ~placed
  BY <1>4, <1>5, <1>8 DEF x, y
<1> QED
  BY <1>6, <1>7, <1>8

\* A new view joins in the same way whether or not there are views after it.
LEMMA TwinsJoining ==
  ASSUME NEW u, NEW v, NEW c, Twins(u, v, c), NEW current \in 0 .. c - 1,
         NEW seen, Seen(seen, current),
         u.m.established => u.m.reference \in 0 .. current - 1
  PROVE  Twins(Joining(u, current, seen), Joining(v, current, seen), c)
<1> DEFINE u1 == Registered(u, current, seen)
           v1 == Registered(v, current, seen)
           u2 == Located(u1, current, seen)
           v2 == Located(v1, current, seen)
<1>1. /\ Proper(u) /\ Proper(v) /\ current \in Features(u.m) /\ current \in Features(v.m)
      /\ v.m.established => v.m.reference \in 0 .. current - 1
      /\ 0 .. c - 1 = Features(u.m) /\ c \in Nat
  BY TwinsAre, TwinsRead
<1>2. DOMAIN seen \subseteq 0 .. current - 1 /\ DOMAIN seen \subseteq 0 .. c - 1 /\ current \in Nat
  <2>1. c \in Nat /\ current \in Nat /\ current <= c - 1
    BY <1>1
  <2>2. DOMAIN seen \subseteq 0 .. current - 1
    BY DEF Seen
  <2> QED
    BY <2>1, <2>2
<1>3. Proper(u1) /\ Grown(u, u1) /\ \A p \in DOMAIN seen : IsSet(u1.m, current, p)
  BY <1>1, RegisteredProper
<1>4. Proper(v1) /\ Grown(v, v1) /\ \A p \in DOMAIN seen : IsSet(v1.m, current, p)
  BY <1>1, RegisteredProper
<1>5. Twins(u1, v1, c)
  BY TwinsRegistered
<1>6. /\ Joining(u, current, seen) = Bridged(u2, current, seen)
      /\ Joining(v, current, seen) = Bridged(v2, current, seen)
  BY DEF Joining
<1> HIDE DEF u1, v1
<1>7. Entered(u1, u2, current)
  BY <1>1, <1>3, LocatedProper DEF Grown, Keeps
<1>8. Entered(v1, v2, current)
  <2>1. /\ current \in Features(v1.m)
        /\ v1.m.established => v1.m.reference \in 0 .. current - 1
    BY <1>1, <1>4 DEF Grown, Keeps
  <2> QED
    BY <1>4, <2>1, LocatedProper
<1>9. Twins(u2, v2, c)
  BY <1>5, <1>7, <1>8, TwinsLocated DEF Entered
<1> HIDE DEF u2, v2
<1>10. \A p \in DOMAIN seen : IsSet(u2.m, current, p)
  BY <1>1, <1>2, <1>3, <1>7 DEF Entered, Grown, Keeps
<1>11. Twins(Bridged(u2, current, seen), Bridged(v2, current, seen), c)
  BY <1>2, <1>9, <1>10, TwinsBridged
<1> QED
  BY <1>6, <1>11

-----------------------------------------------------------------------------
(* Views taken one at a time, and combined at once *)

\* One view more, but the matrix is not closed.
Taking(tx, sample, seen) ==
  [Joining(Appended(tx, sample), tx.m.n, seen) EXCEPT !.order = tx.m.n + 1]

\* u has taken the first n views of v.
Leading(u, v, n) ==
  /\ Begun(u) /\ u.m.n = n /\ u.order = n
  /\ Proper(v) /\ v.m.n >= n /\ Alike(u, v, n)

\* Nothing is set in the row of a new view.
LEMMA RowSlots ==
  ASSUME NEW m, m = EmptyMatrix \/ Filled(m), m.n < MaxFeatures
  PROVE  LET k == AppendRow(m, RowBase(m.n)) IN
         /\ k.slot = m.slot
         /\ k.base = [f \in 0 .. m.n |-> IF f = m.n THEN RowBase(m.n) ELSE m.base[f]]
<1> DEFINE gone == RowBase(m.n) .. RowBase(m.n) + m.n - 1
           s == Restrict(m.slot, DOMAIN m.slot \ gone)
           base == [f \in 0 .. m.n |-> IF f = m.n THEN RowBase(m.n) ELSE m.base[f]]
           k == AppendRow(m, RowBase(m.n))
<1>1. /\ m = [n |-> m.n, base |-> m.base, reference |-> m.reference,
              established |-> m.established, slot |-> m.slot]
      /\ m.slot \in [DOMAIN m.slot -> Relation]
  <2>1. CASE m = EmptyMatrix
    <3>1. << >> \in [{} -> Relation] /\ DOMAIN << >> = {}
      OBVIOUS
    <3> QED
      BY <2>1, <3>1 DEF EmptyMatrix
  <2>2. CASE Filled(m)
    <3>1. m \in Matrices /\ m.slot \in Slots
      BY <2>2, MatrixIs DEF Filled
    <3>2. m.slot \in [DOMAIN m.slot -> Relation]
      BY <3>1, SlotsAre
    <3> QED
      BY <3>1, <3>2 DEF Matrices
  <2> QED
    BY <2>1, <2>2
<1>2. DOMAIN k.slot = DOMAIN m.slot
  BY RowAppended
<1>3. k = [Unset(m, gone) EXCEPT !.n = m.n + 1, !.base = base]
  BY DEF AppendRow
<1>4. Unset(m, gone) = [m EXCEPT !.slot = s]
  BY DEF Unset
<1> HIDE DEF k, base, gone
<1>5. k.slot = s /\ k.base = base
  <2> HIDE DEF s
  <2> QED
    BY <1>1, <1>3, <1>4
<1>6. s = [i \in DOMAIN m.slot \ gone |-> m.slot[i]]
  BY DEF Restrict
<1>7. DOMAIN m.slot \ gone = DOMAIN m.slot
  <2>1. DOMAIN s = DOMAIN m.slot \ gone
    BY <1>6
  <2> HIDE DEF s
  <2> QED
    BY <1>2, <1>5, <2>1
<1>8. s = m.slot
  <2>1. s = [i \in DOMAIN m.slot |-> m.slot[i]]
    BY <1>6, <1>7
  <2> HIDE DEF s
  <2> QED
    BY <1>1, <2>1
<1> QED
  BY <1>5, <1>8 DEF k, base

\* The fields of a transaction that has begun.
LEMMA BegunIs ==
  ASSUME NEW tx, Begun(tx)
  PROVE  /\ tx.m = EmptyMatrix \/ Filled(tx.m)
         /\ tx = [m |-> tx.m, sample |-> tx.sample, active |-> tx.active, overlap |-> tx.overlap,
                  registration |-> tx.registration, order |-> tx.order, doubt |-> tx.doubt]
         /\ tx.m.n \in Nat /\ DOMAIN tx.sample = 0 .. tx.m.n - 1
         /\ DOMAIN tx.active = 0 .. tx.m.n - 1
         /\ tx.m.established => tx.m.reference \in 0 .. tx.m.n - 1
<1>1. CASE tx = NewTransaction
  BY <1>1 DEF NewTransaction, EmptyMatrix
<1>2. CASE Proper(tx)
  BY <1>2, TransactionIs DEF Proper, WellMade, Transactions
<1> QED
  BY <1>1, <1>2 DEF Begun

\* The next view is the one that is there.
LEMMA TwinsAppended ==
  ASSUME NEW u, NEW v, NEW n, Leading(u, v, n), v.m.n > n, n < MaxFeatures,
         NEW sample \in Sample, sample = v.sample[n]
  PROVE  Twins(Appended(u, sample), v, n + 1)
<1> DEFINE x == Appended(u, sample)
           k == AppendRow(u.m, RowBase(n))
           shown == With(u.sample, n, sample)
           a == With(u.active, n, FALSE)
           size == IF n = 0 THEN 1 ELSE RowBase(n) + n
<1>1. Begun(u) /\ u.m.n = n /\ Proper(v) /\ Alike(u, v, n)
  BY DEF Leading
<1>2. /\ u.m = EmptyMatrix \/ Filled(u.m)
      /\ u = [m |-> u.m, sample |-> u.sample, active |-> u.active, overlap |-> u.overlap,
              registration |-> u.registration, order |-> u.order, doubt |-> u.doubt]
      /\ n \in Nat /\ DOMAIN u.sample = 0 .. n - 1 /\ DOMAIN u.active = 0 .. n - 1
  BY <1>1, BegunIs
<1>3. Proper(x) /\ x.m.n = n + 1
  BY <1>1, AppendedProper DEF Opened
<1>4. /\ k.slot = u.m.slot
      /\ k.base = [f \in 0 .. n |-> IF f = n THEN RowBase(n) ELSE u.m.base[f]]
  BY <1>1, <1>2, RowSlots
<1>5. /\ k.reference = u.m.reference /\ k.established = u.m.established
  BY <1>1, <1>2, RowAppended
<1>6. x = [u EXCEPT !.m = k, !.sample = shown, !.active = a, !.registration = size]
  BY <1>1 DEF Appended
<1>7. \A f \in 0 .. n : /\ shown[f] = IF f = n THEN sample ELSE u.sample[f]
                        /\ a[f] = IF f = n THEN FALSE ELSE u.active[f]
  <2>1. DOMAIN u.sample \cup {n} = 0 .. n /\ DOMAIN u.active \cup {n} = 0 .. n
    BY <1>2
  <2> QED
    BY <2>1 DEF With
<1> HIDE DEF x, k, shown, a, size
<1>8. x.m = k /\ x.sample = shown /\ x.active = a /\ x.overlap = u.overlap /\ x.doubt = u.doubt
  BY <1>2, <1>6
<1>9. /\ v.m.n \in Nat /\ Features(v.m) = 0 .. v.m.n - 1 /\ v.m.base[n] = RowBase(n)
      /\ v.active \in [Features(v.m) -> BOOLEAN]
  <2>1. /\ Filled(v.m) /\ v.m.n \in Nat /\ Features(v.m) = 0 .. v.m.n - 1
        /\ v.active \in [Features(v.m) -> BOOLEAN]
    BY <1>1, TransactionIs DEF Proper
  <2>2. n \in Features(v.m)
    BY <1>2, <2>1
  <2> QED
    BY <2>1, <2>2 DEF Filled, IsMatrix, Rowed
<1>10. /\ v.m.slot = x.m.slot /\ v.overlap = x.overlap /\ v.m.reference = x.m.reference
       /\ v.m.established = x.m.established /\ v.doubt = x.doubt
  BY <1>1, <1>4, <1>5, <1>8 DEF Alike
<1>11. n \in Features(v.m) /\ ~v.active[n]
  BY <1>1, <1>2, <1>9 DEF Alike
<1>12. ASSUME NEW f \in 0 .. n
       PROVE  v.m.base[f] = x.m.base[f] /\ v.sample[f] = x.sample[f] /\ v.active[f] = x.active[f]
  <2>1. CASE f = n
    <3>1. v.active[n] = FALSE
      BY <1>9, <1>11
    <3>2. x.m.base[n] = RowBase(n) /\ x.sample[n] = sample /\ x.active[n] = FALSE
      BY <1>4, <1>7, <1>8, <2>1
    <3> QED
      BY <1>9, <2>1, <3>1, <3>2
  <2>2. CASE f # n
    <3>1. f \in 0 .. n - 1
      BY <1>2, <2>2
    <3>2. v.m.base[f] = u.m.base[f] /\ v.sample[f] = u.sample[f] /\ v.active[f] = u.active[f]
      BY <1>1, <3>1 DEF Alike
    <3>3. x.m.base[f] = u.m.base[f] /\ x.sample[f] = u.sample[f] /\ x.active[f] = u.active[f]
      BY <1>4, <1>7, <1>8, <2>2
    <3> QED
      BY <3>2, <3>3
  <2> QED
    BY <2>1, <2>2
<1>13. \A f \in Features(v.m) : f >= n + 1 => ~v.active[f]
  BY <1>1, <1>2, <1>9 DEF Alike
<1>14. n = (n + 1) - 1
  BY <1>2
<1>15. Alike(x, v, n + 1)
  BY <1>10, <1>12, <1>13, <1>14 DEF Alike
<1>16. v.m.n >= n + 1
  BY <1>2, <1>9
<1> QED
  BY <1>1, <1>3, <1>15, <1>16 DEF Twins, x

\* A transaction with another count of its order.
LEMMA OrderSet ==
  ASSUME NEW tx, Proper(tx), NEW order \in Nat
  PROVE  LET x == [tx EXCEPT !.order = order] IN
         /\ Proper(x) /\ x.m = tx.m /\ x.sample = tx.sample /\ x.active = tx.active
         /\ x.overlap = tx.overlap /\ x.doubt = tx.doubt /\ x.order = order
<1> DEFINE x == [tx EXCEPT !.order = order]
<1>1. WellMade(tx) /\ Placeable(tx) /\ tx \in Transactions
  BY DEF Proper, WellMade
<1>2. /\ x \in Transactions /\ x.m = tx.m /\ x.sample = tx.sample /\ x.active = tx.active
      /\ x.registration = tx.registration /\ x.doubt = tx.doubt /\ x.order = order
      /\ x.overlap = tx.overlap
  BY <1>1 DEF Transactions
<1> HIDE DEF x
<1>3. WellMade(x) /\ Placeable(x)
  BY <1>1, <1>2 DEF WellMade, Placeable
<1> QED
  BY <1>2, <1>3 DEF Proper, x

\* One view more on both sides.
LEMMA LeadingGrows ==
  ASSUME NEW u, NEW v, NEW n, Leading(u, v, n), v.m.n > n, n < MaxFeatures,
         NEW sample \in Sample, sample = v.sample[n], NEW seen, Seen(seen, n)
  PROVE  /\ Leading(Taking(u, sample, seen), Joining(v, n, seen), n + 1)
         /\ Joining(v, n, seen).m.n = v.m.n /\ Joining(v, n, seen).sample = v.sample
         /\ Joining(v, n, seen).order = v.order
<1> DEFINE u1 == Appended(u, sample)
           u2 == Joining(u1, n, seen)
           u3 == [u2 EXCEPT !.order = n + 1]
           v2 == Joining(v, n, seen)
<1>1. /\ Begun(u) /\ u.m.n = n /\ Proper(v) /\ Alike(u, v, n) /\ n \in Nat
      /\ u.m.established => u.m.reference \in 0 .. n - 1
  BY BegunIs DEF Leading
<1>2. Twins(u1, v, n + 1)
  BY TwinsAppended
<1>3. /\ Proper(u1) /\ u1.m.n = n + 1
      /\ u1.m.established => u1.m.reference \in 0 .. n - 1
  BY <1>1, AppendedProper DEF Opened
<1> HIDE DEF u1
<1>4. n \in Features(v.m) /\ n \in Features(u1.m) /\ n \in 0 .. (n + 1) - 1
      /\ (v.m.established => v.m.reference \in 0 .. n - 1)
  <2>1. v.m.n \in Nat /\ Features(v.m) = 0 .. v.m.n - 1
    BY <1>1, TransactionIs DEF Proper
  <2>2. n \in Features(v.m) /\ n \in 0 .. (n + 1) - 1
    BY <1>1, <2>1
  <2>3. n \in Features(u1.m)
    BY <1>1, <1>3 DEF Features
  <2>4. v.m.established => v.m.reference \in 0 .. n - 1
    BY <1>1 DEF Alike
  <2> QED
    BY <2>2, <2>3, <2>4
<1>5. Twins(u2, v2, n + 1)
  BY <1>2, <1>3, <1>4, TwinsJoining
<1>6. Entered(v, v2, n)
  BY <1>1, <1>4, JoiningProper
<1> HIDE DEF u2, v2
<1>7. /\ Proper(u2) /\ Proper(v2) /\ u2.m.n = n + 1 /\ v2.m.n >= n + 1 /\ Alike(u2, v2, n + 1)
  BY <1>5 DEF Twins
<1>8. /\ Proper(u3) /\ u3.m = u2.m /\ u3.sample = u2.sample /\ u3.active = u2.active
      /\ u3.overlap = u2.overlap /\ u3.doubt = u2.doubt /\ u3.order = n + 1
  BY <1>1, <1>7, OrderSet
<1>9. Taking(u, sample, seen) = u3
  BY <1>1 DEF Taking, u2, u1
<1> HIDE DEF u3
<1>10. Alike(u3, v2, n + 1)
  BY <1>7, <1>8 DEF Alike
<1>11. Leading(u3, v2, n + 1)
  BY <1>7, <1>8, <1>10 DEF Leading, Begun
<1>12. v2.m.n = v.m.n /\ v2.sample = v.sample /\ v2.order = v.order
  BY <1>6 DEF Entered
<1> QED
  BY <1>9, <1>11, <1>12 DEF v2

-----------------------------------------------------------------------------
(* The two ways give the same template *)

\* v has a row for each of the samples.
AllThere(v, samples, n) ==
  /\ Leading(NewTransaction, v, 0) /\ v.m.n = n /\ v.order = n
  /\ v.sample = [f \in 0 .. n - 1 |-> samples[f + 1]]

\* All the views are there from the start, and none has a relation.
LEMMA SizedIs ==
  ASSUME NEW n \in 1 .. MaxFeatures, NEW samples \in Seq(Sample), Len(samples) = n
  PROVE  AllThere(Sized(samples), samples, n)
<1> DEFINE no == FALSE
           base == [f \in 0 .. n - 1 |-> RowBase(f)]
           shown == [f \in 0 .. n - 1 |-> samples[f + 1]]
           a == [f \in 0 .. n - 1 |-> no]
           size == RegistrationCount(n)
           k == [n |-> n, base |-> base, reference |-> NoReference, established |-> no,
                 slot |-> << >>]
           v == Sized(samples)
<1>1. n \in Nat /\ MaxFeatures \in Nat
  BY TemplateAssumption
<1>2. v = [m |-> k, sample |-> shown, active |-> a, overlap |-> << >>,
           registration |-> size, order |-> n, doubt |-> {}]
  <2> DEFINE none == {}
             empty == << >>
             m == [n |-> 0, base |-> empty, reference |-> NoReference,
                   established |-> no, slot |-> empty]
             b == [m |-> m, sample |-> empty, active |-> empty, overlap |-> empty,
                   registration |-> 0, order |-> 0, doubt |-> none]
             c == [[b EXCEPT !.m.n = n] EXCEPT !.m.base = base]
  <2>1. NewTransaction = b
    BY DEF NewTransaction, EmptyMatrix
  <2>2. v = [c EXCEPT !.sample = shown, !.active = a, !.registration = size, !.order = n]
    BY <2>1 DEF Sized
  <2>3. k = [n |-> n, base |-> base, reference |-> NoReference, established |-> no,
             slot |-> empty]
    OBVIOUS
  <2> HIDE DEF no, none, empty, base, shown, a, size, k, v
  <2>4. [[m EXCEPT !.n = n] EXCEPT !.base = base] = k
    <3>1. [m EXCEPT !.n = n] = [n |-> n, base |-> empty, reference |-> NoReference,
                                established |-> no, slot |-> empty]
      OBVIOUS
    <3>2. [[n |-> n, base |-> empty, reference |-> NoReference, established |-> no,
            slot |-> empty] EXCEPT !.base = base] = k
      BY <2>3
    <3> HIDE DEF m
    <3> QED
      BY <3>1, <3>2
  <2>5. c.m = [[m EXCEPT !.n = n] EXCEPT !.base = base]
    OBVIOUS
  <2>6. c = [b EXCEPT !.m = k]
    BY <2>4
  <2> HIDE DEF m, c
  <2>7. v = [m |-> k, sample |-> shown, active |-> a, overlap |-> empty,
             registration |-> size, order |-> n, doubt |-> none]
    BY <2>2, <2>6
  <2> QED
    BY <2>7 DEF none, empty, v
<1>3. /\ \A f \in 0 .. n - 1 : RowBase(f) \in Nat
      /\ size \in Nat
  <2>1. ASSUME NEW f \in 0 .. n - 1
        PROVE  RowBase(f) \in Nat
    <3>1. f \in Nat
      OBVIOUS
    <3> QED
      BY <3>1, RowIs
  <2>2. RowBase(n) \in Nat
    BY <1>1, RowIs
  <2>3. size \in Nat
    BY <1>1, <2>2 DEF RegistrationCount, RowBase
  <2> QED
    BY <2>1, <2>3
<1>4. /\ base \in [0 .. n - 1 -> Nat] /\ shown \in [0 .. n - 1 -> Sample]
      /\ a \in [0 .. n - 1 -> BOOLEAN]
  <2>1. \A f \in 0 .. n - 1 : samples[f + 1] \in Sample
    BY <1>1
  <2> QED
    BY <1>3, <2>1
<1>5. no = FALSE /\ \A f \in 0 .. n - 1 : ~a[f]
  OBVIOUS
<1> HIDE DEF size, a, no
<1>6. << >> \in Slots /\ << >> \in Overlaps /\ DOMAIN << >> = {}
  <2>1. << >> \in [{} -> Relation] /\ << >> \in [{} -> 0 .. 255] /\ DOMAIN << >> = {}
    OBVIOUS
  <2> QED
    BY ZenonT(40), <2>1 DEF Slots, Overlaps
<1>7. k \in Matrices /\ k.n = n /\ k.base = base /\ k.slot = << >> /\ k.reference = NoReference
      /\ k.established = no /\ Features(k) = 0 .. n - 1
  <2>1. base \in UNION {[0 .. j - 1 -> Nat] : j \in 1 .. MaxFeatures}
    BY <1>4
  <2>2. NoReference \in NoReference .. MaxFeatures - 1
    BY <1>1 DEF NoReference
  <2>3. no \in BOOLEAN
    BY <1>5
  <2> HIDE DEF base
  <2> QED
    BY <1>1, <1>6, <2>1, <2>2, <2>3 DEF Matrices, Features
<1>8. Filled(k)
  BY <1>6, <1>7 DEF Filled, IsMatrix, Rowed
<1> HIDE DEF k, base, shown, v
<1>9. /\ v.m = k /\ v.sample = shown /\ v.active = a /\ v.overlap = << >>
      /\ v.registration = size /\ v.order = n /\ v.doubt = {}
  BY <1>2
<1>10. v \in Transactions
  <2>1. /\ shown \in UNION {[0 .. j - 1 -> Sample] : j \in 1 .. MaxFeatures}
        /\ a \in UNION {[0 .. j - 1 -> BOOLEAN] : j \in 1 .. MaxFeatures}
    BY <1>4
  <2> QED
    BY <1>1, <1>2, <1>3, <1>6, <1>7, <2>1 DEF Transactions
<1>11. Truthful(k, shown, {})
  BY <1>6, <1>7 DEF Truthful, IsSet
<1>12. WellMade(v)
  BY <1>4, <1>5, <1>7, <1>8, <1>9, <1>10, <1>11 DEF WellMade, size
<1>13. Placeable(v)
  BY <1>5, <1>7, <1>9 DEF Placeable
<1>14. /\ NewTransaction.m.slot = << >> /\ NewTransaction.overlap = << >>
       /\ NewTransaction.m.reference = NoReference /\ NewTransaction.m.established = no
       /\ NewTransaction.doubt = {} /\ NewTransaction.m.n = 0 /\ NewTransaction.order = 0
  BY <1>5 DEF NewTransaction, EmptyMatrix
<1>15. Alike(NewTransaction, v, 0)
  <2>1. /\ v.m.slot = NewTransaction.m.slot /\ v.overlap = NewTransaction.overlap
        /\ v.m.reference = NewTransaction.m.reference
        /\ v.m.established = NewTransaction.m.established /\ v.doubt = NewTransaction.doubt
    BY <1>7, <1>9, <1>14
  <2>2. \A f \in Features(v.m) : ~v.active[f]
    BY <1>5, <1>7, <1>9
  <2>3. 0 .. 0 - 1 = {}
    OBVIOUS
  <2> QED
    BY <2>1, <2>2, <2>3 DEF Alike
<1>16. Leading(NewTransaction, v, 0)
  BY <1>1, <1>7, <1>9, <1>12, <1>13, <1>14, <1>15 DEF Leading, Begun, Proper
<1> QED
  BY <1>7, <1>9, <1>16 DEF AllThere, v, shown

\* When all the views have been taken the two are equal.
LEMMA LeadingAll ==
  ASSUME NEW u, NEW v, NEW n \in Nat, n > 0, Leading(u, v, n), v.m.n = n, v.order = n
  PROVE  u = v
<1>1. Proper(u) /\ Proper(v) /\ Alike(u, v, n) /\ u.m.n = n /\ u.order = n
  BY DEF Leading, Begun, NewTransaction, EmptyMatrix
<1>2. /\ u \in Transactions /\ v \in Transactions /\ u.m \in Matrices /\ v.m \in Matrices
      /\ Features(u.m) = 0 .. n - 1 /\ Features(v.m) = 0 .. n - 1
      /\ u.sample \in [0 .. n - 1 -> Sample] /\ v.sample \in [0 .. n - 1 -> Sample]
      /\ u.active \in [0 .. n - 1 -> BOOLEAN] /\ v.active \in [0 .. n - 1 -> BOOLEAN]
      /\ Filled(u.m) /\ Filled(v.m)
  BY <1>1, TransactionIs DEF Proper, Filled, IsMatrix
<1>3. u.registration = v.registration
  BY <1>1 DEF Proper, WellMade
<1>4. u.m.base = v.m.base
  BY <1>2 DEF Filled, IsMatrix, Rowed
<1>5. u.m = v.m
  <2>1. /\ u.m = [n |-> u.m.n, base |-> u.m.base, reference |-> u.m.reference,
                  established |-> u.m.established, slot |-> u.m.slot]
        /\ v.m = [n |-> v.m.n, base |-> v.m.base, reference |-> v.m.reference,
                  established |-> v.m.established, slot |-> v.m.slot]
    BY <1>2 DEF Matrices
  <2>2. /\ v.m.n = u.m.n /\ v.m.slot = u.m.slot /\ v.m.reference = u.m.reference
        /\ v.m.established = u.m.established
    BY <1>1 DEF Alike
  <2> QED
    BY <1>4, <2>1, <2>2
<1>6. u.sample = v.sample
  <2>1. \A f \in 0 .. n - 1 : v.sample[f] = u.sample[f]
    BY <1>1 DEF Alike
  <2> QED
    BY <1>2, <2>1
<1>7. u.active = v.active
  <2>1. \A f \in 0 .. n - 1 : v.active[f] = u.active[f]
    BY <1>1 DEF Alike
  <2> QED
    BY <1>2, <2>1
<1>8. u.overlap = v.overlap /\ u.doubt = v.doubt
  BY <1>1 DEF Alike
<1>9. /\ u = [m |-> u.m, sample |-> u.sample, active |-> u.active, overlap |-> u.overlap,
              registration |-> u.registration, order |-> u.order, doubt |-> u.doubt]
      /\ v = [m |-> v.m, sample |-> v.sample, active |-> v.active, overlap |-> v.overlap,
              registration |-> v.registration, order |-> v.order, doubt |-> v.doubt]
  BY <1>2 DEF Transactions
<1> QED
  BY <1>1, <1>3, <1>5, <1>6, <1>7, <1>8, <1>9

Seens == UNION {[priors -> Registration] : priors \in SUBSET (0 .. MaxFeatures)}

\* e are the transactions through which tx came about, without a rollback.
History(e, tx, list) ==
  /\ list \in Seq(Seens) /\ Len(list) = tx.m.n
  /\ e[0] = NewTransaction /\ tx = Closed(e[tx.m.n]) /\ e[tx.m.n].m.n = tx.m.n
  /\ \A i \in 1 .. tx.m.n : /\ Seen(list[i], i - 1)
                            /\ e[i] = Taking(e[i - 1], tx.sample[i - 1], list[i])

\* The views of a transaction without a rollback, combined.
LEMMA HistoryIsWhole ==
  ASSUME NEW tx, WellMade(tx), NEW list, NEW e, History(e, tx, list)
  PROVE  TemplateOf(tx) = Combine([f \in 1 .. tx.m.n |-> tx.sample[f - 1]], list)
<1> DEFINE n == tx.m.n
           samples == [f \in 1 .. n |-> tx.sample[f - 1]]
           shown == [f \in 0 .. n - 1 |-> samples[f + 1]]
<1>1. /\ n \in 1 .. MaxFeatures /\ n \in Nat /\ MaxFeatures \in Nat
      /\ tx.sample \in [0 .. n - 1 -> Sample]
  BY TransactionIs, TemplateAssumption
<1>2. /\ e[0] = NewTransaction /\ tx = Closed(e[n])
      /\ \A i \in 1 .. n : /\ Seen(list[i], i - 1)
                           /\ e[i] = Taking(e[i - 1], tx.sample[i - 1], list[i])
  BY DEF History
<1> HIDE DEF n
<1>3. samples \in Seq(Sample) /\ Len(samples) = n
  <2>1. \A f \in 1 .. n : tx.sample[f - 1] \in Sample
    BY <1>1
  <2> QED
    BY <1>1, <2>1
<1>4. \A f \in 0 .. n - 1 : shown[f] = tx.sample[f] /\ tx.sample[f] \in Sample
  BY <1>1
<1> HIDE DEF samples
<1>5. PICK d : /\ Combine(samples, list) = TemplateOf(Closed(d[n]))
               /\ CombineTurns(d, n, samples, list)
  BY <1>1, <1>3, CombineUnfolds
<1> DEFINE S == {i \in 0 .. n : /\ Leading(e[i], d[i], i) /\ d[i].m.n = n /\ d[i].order = n
                                /\ d[i].sample = shown}
<1>6. 0 \in S
  <2>1. d[0] = Sized(samples)
    BY <1>5 DEF CombineTurns
  <2>2. AllThere(d[0], samples, n)
    BY <1>1, <1>3, <2>1, SizedIs
  <2>3. /\ Leading(NewTransaction, d[0], 0) /\ d[0].m.n = n /\ d[0].order = n
        /\ d[0].sample = shown
    BY <2>2 DEF AllThere, shown
  <2> HIDE DEF shown
  <2> QED
    BY <1>1, <1>2, <2>3
<1> HIDE DEF shown
<1>7. ASSUME NEW i \in 1 .. n, i - 1 \in S
      PROVE  i \in S
  <2> DEFINE u == e[i - 1]
             v == d[i - 1]
             j == i - 1
             sample == tx.sample[j]
             seen == list[i]
  <2>1. Leading(u, v, j) /\ v.m.n = n /\ v.order = n /\ v.sample = shown
    BY <1>7
  <2>2. /\ e[i] = Taking(u, sample, seen) /\ Seen(seen, j)
        /\ d[i] = Joining(v, j, seen)
    BY <1>2, <1>5 DEF CombineTurns
  <2>3. j \in 0 .. n - 1 /\ j < MaxFeatures /\ j + 1 = i /\ j < n
    BY <1>1
  <2>4. sample = v.sample[j] /\ sample \in Sample
    BY <1>4, <2>1, <2>3
  <2> HIDE DEF u, v, j, sample, seen
  <2>5. /\ Leading(Taking(u, sample, seen), Joining(v, j, seen), j + 1)
        /\ Joining(v, j, seen).m.n = v.m.n /\ Joining(v, j, seen).sample = v.sample
        /\ Joining(v, j, seen).order = v.order
    BY <2>1, <2>2, <2>3, <2>4, LeadingGrows
  <2> QED
    BY <1>1, <2>1, <2>2, <2>3, <2>5
<1>8. \A i \in 1 .. n : i - 1 \in S => i \in S
  BY <1>7
<1> HIDE DEF S
<1>9. \A i \in 0 .. n : i \in S
  BY <1>1, <1>6, <1>8, TurnByTurn
<1>10. Leading(e[n], d[n], n) /\ d[n].m.n = n /\ d[n].order = n
  BY <1>1, <1>9 DEF S
<1>11. e[n] = d[n]
  BY <1>1, <1>10, LeadingAll
<1>12. TemplateOf(tx) = Combine(samples, list)
  BY <1>2, <1>5, <1>11
<1> QED
  BY <1>12 DEF samples, n

-----------------------------------------------------------------------------
(* Taking the views one at a time *)

\* What taking one more view does to the views.
LEMMA TakingIs ==
  ASSUME NEW tx, Begun(tx), tx.m.n < MaxFeatures, NEW sample \in Sample, NEW seen,
         Seen(seen, tx.m.n)
  PROVE  /\ Proper(Taking(tx, sample, seen)) /\ Taking(tx, sample, seen).m.n = tx.m.n + 1
         /\ Taking(tx, sample, seen).sample = With(tx.sample, tx.m.n, sample)
         /\ Inserted(tx, sample, seen) = Closed(Taking(tx, sample, seen))
<1> DEFINE n == tx.m.n
           u == Appended(tx, sample)
           v == Joining(u, n, seen)
<1>1. Opened(tx, u) /\ n \in Nat
  BY AppendedProper DEF Opened
<1>2. /\ Proper(u) /\ u.m.n = n + 1 /\ n \in Features(u.m)
      /\ u.m.established => u.m.reference \in 0 .. n - 1
  BY <1>1 DEF Opened, Features
<1>3. u.sample = With(tx.sample, n, sample)
  BY BegunIs DEF Appended
<1> HIDE DEF u
<1>4. Entered(u, v, n)
  BY <1>2, JoiningProper
<1>5. Proper(v) /\ v.m.n = n + 1 /\ v.sample = With(tx.sample, n, sample)
  BY <1>2, <1>3, <1>4 DEF Entered
<1>6. Taking(tx, sample, seen) = [v EXCEPT !.order = n + 1]
  BY DEF Taking, u
<1> HIDE DEF v
<1>7. /\ Proper(Taking(tx, sample, seen)) /\ Taking(tx, sample, seen).m = v.m
      /\ Taking(tx, sample, seen).sample = v.sample
  BY <1>1, <1>5, <1>6, OrderSet
<1>8. Inserted(tx, sample, seen) = Closed(Taking(tx, sample, seen))
  BY DEF Inserted, Taking
<1> QED
  BY <1>5, <1>7, <1>8

\* A view that is taken and kept continues the history.
LEMMA HistoryGrows ==
  ASSUME NEW tx, Begun(tx), tx.m.n < MaxFeatures, NEW list, NEW e, History(e, tx, list),
         NEW sample \in Sample, NEW seen \in Seens, Seen(seen, tx.m.n)
  PROVE  \E d : History(d, Inserted(tx, sample, seen), Append(list, seen))
<1> DEFINE n == tx.m.n
           x == Taking(tx, sample, seen)
           u == Inserted(tx, sample, seen)
           d == [i \in 0 .. n + 1 |-> IF i = n + 1 THEN x ELSE e[i]]
           more == Append(list, seen)
<1>1. n \in Nat /\ n < MaxFeatures /\ MaxFeatures \in Nat /\ DOMAIN tx.sample = 0 .. n - 1
  BY BegunIs, TemplateAssumption
<1>2. WellMade(x) /\ x.m.n = n + 1 /\ x.sample = With(tx.sample, n, sample) /\ u = Closed(x)
  BY TakingIs DEF Proper
<1>3. u.m.n = n + 1 /\ u.sample = With(tx.sample, n, sample)
  BY <1>2, ClosedMade DEF SameGraph
<1>4. /\ list \in Seq(Seens) /\ Len(list) = n /\ e[0] = NewTransaction /\ tx = Closed(e[n])
      /\ e[n].m.n = n
      /\ \A i \in 1 .. n : /\ Seen(list[i], i - 1)
                           /\ e[i] = Taking(e[i - 1], tx.sample[i - 1], list[i])
  BY DEF History
<1>5. e[n] = tx
  BY <1>1, <1>4 DEF Closed
<1> HIDE DEF n, x, u
<1>6. /\ more \in Seq(Seens) /\ Len(more) = n + 1 /\ more[n + 1] = seen
      /\ \A i \in 1 .. n : more[i] = list[i]
  BY <1>1, <1>4
<1>7. /\ u.sample[n] = sample
      /\ \A i \in 1 .. n : u.sample[i - 1] = tx.sample[i - 1]
  BY <1>1, <1>3 DEF With
<1>8. /\ d[n + 1] = x /\ d[0] = e[0]
      /\ \A i \in 1 .. n : d[i] = e[i] /\ d[i - 1] = e[i - 1]
      /\ d[n] = tx
  BY <1>1, <1>5
<1> HIDE DEF d, more
<1>9. ASSUME NEW i \in 1 .. n + 1
      PROVE  /\ Seen(more[i], i - 1)
             /\ d[i] = Taking(d[i - 1], u.sample[i - 1], more[i])
  <2>1. CASE i = n + 1
    <3>1. i - 1 = n
      BY <1>1, <2>1
    <3>2. d[i] = x /\ d[i - 1] = tx /\ u.sample[i - 1] = sample /\ more[i] = seen
      BY <1>6, <1>7, <1>8, <2>1, <3>1
    <3> QED
      BY <3>1, <3>2 DEF x, n
  <2>2. CASE i \in 1 .. n
    BY <1>4, <1>6, <1>7, <1>8, <2>2
  <2> QED
    BY <1>1, <2>1, <2>2
<1>10. /\ d[0] = NewTransaction /\ u = Closed(d[u.m.n]) /\ d[u.m.n].m.n = u.m.n
       /\ Len(more) = u.m.n
  BY <1>2, <1>3, <1>4, <1>6, <1>8
<1>11. History(d, u, more)
  BY <1>3, <1>6, <1>9, <1>10 DEF History
<1> QED
  BY <1>11 DEF u, more

\* As long as no view was rolled back, the transaction has a history.
HistoryKept == bad.record = 0 => \E e : History(e, transaction, taken)

\* An attempt keeps it.
LEMMA AttemptKeepsHistory ==
  ASSUME EnrollmentInvariant, HistoryKept, Attempt
  PROVE  HistoryKept'
<1>1. bad \in [record : 0 .. 5, continue : 0 .. 3]
  BY DEF EnrollmentInvariant
<1>2. CommitNonRollback.record = bad.record /\ CommitRollback.record # 0
  BY <1>1 DEF CommitNonRollback, CommitRollback
<1>3. CASE Unusable
  BY <1>2, <1>3 DEF Unusable, HistoryKept
<1>4. ASSUME NEW priors \in SUBSET Features(transaction.m), NEW seen \in [priors -> Registration],
             Try(Touches[attempts + 1], seen)
      PROVE  HistoryKept'
  <2> DEFINE sample == Touches[attempts + 1]
             tentative == Inserted(transaction, sample, seen)
             deleted == DeleteLast(tentative)
             failed == tentative.m.n = MaxFeatures /\ ~LiveFieldsReadable(tentative)
  <2>1. sample \in Sample
    <3>1. attempts + 1 \in 1 .. Len(Touches) /\ Len(Touches) \in Nat
      BY EnrollmentAssumption DEF EnrollmentInvariant, Attempt
    <3> QED
      BY <3>1, EnrollmentAssumption
  <2>2. Begun(transaction) /\ transaction.m.n < MaxFeatures
    BY DEF EnrollmentInvariant, Begun, Publishable, Attempt
  <2>3. Seen(seen, transaction.m.n) /\ transaction.m.n \in 0 .. MaxFeatures
    BY <2>2, PriorsAreSeen
  <2>4. seen \in Seens
    <3>1. priors \in SUBSET (0 .. MaxFeatures)
      BY <2>3, TemplateAssumption DEF Features
    <3> QED
      BY <3>1 DEF Seens
  <2>5. PICK metrics \in Metrics :
          LET rollback == ShouldRollback(transaction.m.n, metrics)
          IN IF failed \/ (rollback /\ ~LiveFieldsReadable(deleted))
             THEN /\ status' = "remove" /\ bad' = CommitNonRollback
                  /\ UNCHANGED <<transaction, taken>>
             ELSE IF rollback
             THEN /\ status' = "center" /\ bad' = CommitRollback
                  /\ transaction' = deleted /\ UNCHANGED taken
             ELSE /\ status' = "accepted" /\ bad' = CommitNonRollback
                  /\ transaction' = tentative /\ taken' = Append(taken, seen)
    BY <1>4 DEF Try
  <2> HIDE DEF deleted, failed
  <2>6. \/ bad' = CommitNonRollback /\ transaction' = transaction /\ taken' = taken
        \/ bad' = CommitRollback
        \/ /\ bad' = CommitNonRollback
           /\ transaction' = tentative /\ taken' = Append(taken, seen)
    BY <2>5
  <2>7. CASE bad' = CommitNonRollback /\ transaction' = transaction /\ taken' = taken
    BY <1>2, <2>7 DEF HistoryKept
  <2>8. CASE bad' = CommitRollback
    BY <1>2, <2>8 DEF HistoryKept
  <2>9. CASE /\ bad' = CommitNonRollback
             /\ transaction' = tentative /\ taken' = Append(taken, seen)
    <3> SUFFICES ASSUME bad'.record = 0
                 PROVE  \E e : History(e, transaction', taken')
      BY DEF HistoryKept
    <3>1. PICK e : History(e, transaction, taken)
      BY <1>2, <2>9 DEF HistoryKept
    <3>2. \E d : History(d, tentative, Append(taken, seen))
      BY <2>1, <2>2, <2>3, <2>4, <3>1, HistoryGrows
    <3> QED
      BY <2>9, <3>2
  <2> QED
    BY <2>6, <2>7, <2>8, <2>9
<1>5. MayRegister(Touches[attempts + 1]) \subseteq Features(transaction.m)
  BY DEF MayRegister
<1> QED
  BY <1>3, <1>4, <1>5 DEF Attempt

\* A transaction that was never rolled back has a history throughout.
LEMMA HistoryHolds == EnrollmentSpec => []HistoryKept
<1>1. EnrollmentInit => HistoryKept
  <2> SUFFICES ASSUME EnrollmentInit
               PROVE  \E e : History(e, transaction, taken)
    BY DEF HistoryKept
  <2> DEFINE e == [i \in 0 .. 0 |-> NewTransaction]
  <2>1. e[0] = NewTransaction
    OBVIOUS
  <2>2. NewTransaction.m.n = 0
    BY DEF NewTransaction, EmptyMatrix
  <2>3. Closed(NewTransaction) = NewTransaction
    BY <2>2, TemplateAssumption DEF Closed
  <2> HIDE DEF e
  <2>4. transaction = NewTransaction /\ taken = << >>
    BY DEF EnrollmentInit
  <2>5. taken \in Seq(Seens) /\ Len(taken) = 0 /\ 1 .. 0 = {}
    BY <2>4
  <2>6. History(e, transaction, taken)
    BY <2>1, <2>2, <2>3, <2>4, <2>5 DEF History
  <2> QED
    BY <2>6
<1>2. EnrollmentInvariant /\ HistoryKept /\ [EnrollmentNext]_enrollmentVars => HistoryKept'
  <2> SUFFICES ASSUME EnrollmentInvariant, HistoryKept, [EnrollmentNext]_enrollmentVars
               PROVE  HistoryKept'
    OBVIOUS
  <2>1. CASE Attempt
    BY <2>1, AttemptKeepsHistory
  <2>2. CASE UNCHANGED enrollmentVars
    BY <2>2 DEF enrollmentVars, HistoryKept
  <2> QED
    BY <2>1, <2>2 DEF EnrollmentNext, Finish
<1> QED
  BY <1>1, <1>2, EnrollmentInvariantHolds, PTL DEF EnrollmentSpec

\* Views taken one at a time and never rolled back give the template that
\* combining them at once gives.
THEOREM EnrollmentStepsAgree == EnrollmentSpec => []StepsAgreeWithWhole
<1>1. EnrollmentInvariant /\ HistoryKept => StepsAgreeWithWhole
  <2> SUFFICES ASSUME EnrollmentInvariant, HistoryKept, transaction.m.n > 0, bad.record = 0
               PROVE  TemplateOf(transaction)
                        = Combine([f \in 1 .. transaction.m.n |-> transaction.sample[f - 1]],
                                  taken)
    BY DEF StepsAgreeWithWhole
  <2>1. PICK e : History(e, transaction, taken)
    BY DEF HistoryKept
  <2>2. transaction # NewTransaction
    BY DEF NewTransaction, EmptyMatrix
  <2>3. WellMade(transaction)
    BY <2>2 DEF EnrollmentInvariant, Publishable, Proper
  <2> QED
    BY <2>1, <2>3, HistoryIsWhole
<1> QED
  BY <1>1, EnrollmentInvariantHolds, HistoryHolds, PTL

-----------------------------------------------------------------------------
(* What is published can be studied *)

\* The template as the print of an authentication: no match has met a view,
\* and the queue is not disabled.
AsPrint(t) ==
  [n |-> t.n,
   feature |-> [f \in Features(t) |->
     [sample |-> t.feature[f].sample, active |-> t.feature[f].active,
      base |-> t.feature[f].base, ordinal |-> t.feature[f].ordinal, generation |-> 0,
      sure |-> t.feature[f].sure]],
   reference |-> t.reference, established |-> t.established, relation |-> t.relation,
   registration |-> t.registration, order |-> t.order, disabled |-> FALSE]

\* What an authentication assumes of a print it starts with, but for the touches
\* that are still to come.
CanBeStored(t) ==
  /\ IsTemplate(t) /\ Readable(t) /\ Normalizable(t) /\ AgesRanked(t) /\ PlacedTrue(t)
  /\ \A f \in Active(t) : HasRoute(BuildMatrix(t), f)
  /\ Distinct(t)

\* The fields of a print.
LEMMA PrintIs ==
  ASSUME NEW t
  PROVE  LET p == AsPrint(t) IN
         /\ p.n = t.n /\ p.reference = t.reference /\ p.established = t.established
         /\ p.relation = t.relation /\ p.registration = t.registration /\ p.order = t.order
         /\ p.disabled = FALSE /\ Features(p) = Features(t)
         /\ \A f \in Features(t) :
              /\ p.feature[f].sample = t.feature[f].sample
              /\ p.feature[f].active = t.feature[f].active
              /\ p.feature[f].base = t.feature[f].base
              /\ p.feature[f].ordinal = t.feature[f].ordinal
              /\ p.feature[f].generation = 0
              /\ p.feature[f].sure = t.feature[f].sure
BY DEF AsPrint, Features

\* A print reads as its template.
LEMMA PrintReads ==
  ASSUME NEW t
  PROVE  LET p == AsPrint(t) IN
         /\ BuildMatrix(p) = BuildMatrix(t)
         /\ MatrixReadable(t) => MatrixReadable(p)
         /\ OrderReadable(t) => OrderReadable(p)
         /\ AgesRanked(t) => AgesRanked(p)
         /\ Normalizable(t) => Normalizable(p)
         /\ PlacedTrue(t) => PlacedTrue(p)
<1> DEFINE p == AsPrint(t)
<1>1. /\ p.n = t.n /\ p.reference = t.reference /\ p.established = t.established
      /\ p.relation = t.relation /\ p.registration = t.registration /\ p.order = t.order
      /\ Features(p) = Features(t)
      /\ \A f \in Features(t) :
           /\ p.feature[f].sample = t.feature[f].sample
           /\ p.feature[f].active = t.feature[f].active
           /\ p.feature[f].base = t.feature[f].base
           /\ p.feature[f].ordinal = t.feature[f].ordinal
           /\ p.feature[f].sure = t.feature[f].sure
  BY ZenonT(40), PrintIs
<1> HIDE DEF p
<1>2. BuildMatrix(p) = BuildMatrix(t)
  BY <1>1 DEF BuildMatrix
<1>3. MatrixReadable(t) => MatrixReadable(p)
  BY <1>1, <1>2 DEF MatrixReadable, Others
<1>4. OrderReadable(t) => OrderReadable(p)
  BY <1>1 DEF OrderReadable
<1>5. AgesRanked(t) => AgesRanked(p)
  <2>1. {p.feature[f].ordinal : f \in Features(t)} = {t.feature[f].ordinal : f \in Features(t)}
    BY <1>1
  <2> QED
    BY <1>1, <2>1 DEF AgesRanked
<1>6. Normalizable(t) => Normalizable(p)
  BY <1>1 DEF Normalizable, HasReference
<1>7. \A f : FromReference(p, f) = FromReference(t, f) /\ ToReference(p, f) = ToReference(t, f)
  BY <1>1 DEF FromReference, ToReference, ReferenceTransform, RelationTransform
<1>8. PlacedTrue(t) => PlacedTrue(p)
  BY <1>1, <1>7 DEF PlacedTrue
<1> QED
  BY <1>2, <1>3, <1>4, <1>5, <1>6, <1>8 DEF p

\* The counts of the registrations grow with the features.
LEMMA RegistrationsGrow ==
  ASSUME NEW n \in 1 .. MaxFeatures
  PROVE  /\ RegistrationCount(n) \in Nat /\ RegistrationCount(MaxFeatures) \in Nat
         /\ RegistrationCount(n) <= RegistrationCount(MaxFeatures)
<1>1. n \in Nat /\ n > 0 /\ MaxFeatures \in Nat /\ MaxFeatures > 0 /\ n <= MaxFeatures
  BY TemplateAssumption
<1>2. /\ RowBase(n) = RegistrationCount(n) /\ RegistrationCount(n) \in Nat
      /\ RowBase(MaxFeatures) = RegistrationCount(MaxFeatures)
      /\ RegistrationCount(MaxFeatures) \in Nat
  BY <1>1, RowIs
<1>3. n < MaxFeatures => RowBase(n) + n <= RowBase(MaxFeatures)
  BY <1>1, RowsApart
<1> QED
  BY <1>1, <1>2, <1>3

\* The print of a transaction that can be published is well formed.
LEMMA PrintIsTemplate ==
  ASSUME NEW tx, Publishable(tx), tx.order <= MaxFeatures
  PROVE  IsTemplate(AsPrint(TemplateOf(tx)))
<1> DEFINE t == TemplateOf(tx)
           p == AsPrint(t)
           m == tx.m
           slots == DOMAIN p.relation
<1>1. /\ Proper(tx) /\ tx \in Transactions /\ Filled(m) /\ IsMatrix(m) /\ m \in Matrices
      /\ m.n \in 1 .. MaxFeatures /\ m.slot \in Slots /\ Features(m) = 0 .. m.n - 1
      /\ Features(m) \subseteq Nat /\ m.established \in BOOLEAN
      /\ m.reference \in NoReference .. MaxFeatures - 1
      /\ tx.sample \in [Features(m) -> Sample] /\ tx.active \in [Features(m) -> BOOLEAN]
      /\ tx.order \in Nat /\ m.n <= tx.order /\ MaxFeatures \in Nat
  BY TransactionIs, TemplateAssumption DEF Publishable, Proper, IsMatrix, Matrices
<1>2. /\ t.n = m.n /\ t.reference = m.reference /\ t.established = m.established
      /\ t.relation = ProjectReferenceStar(m) /\ Features(t) = Features(m)
      /\ t.order = [i \in 1 .. tx.order |-> i - 1]
      /\ \A f \in Features(m) :
           /\ t.feature[f].sample = tx.sample[f] /\ t.feature[f].active = tx.active[f]
           /\ t.feature[f].base = m.base[f] /\ t.feature[f].ordinal = f
           /\ t.feature[f].sure = ~Doubtful(tx, f, m.reference)
  BY DEF TemplateOf, Features
<1>3. /\ p.n = t.n /\ p.reference = t.reference /\ p.established = t.established
      /\ p.relation = t.relation /\ p.order = t.order /\ p.disabled = FALSE
      /\ Features(p) = Features(t)
  BY PrintIs
<1>4. p = [n |-> p.n, feature |-> p.feature, reference |-> p.reference,
           established |-> p.established, relation |-> p.relation,
           registration |-> p.registration, order |-> p.order, disabled |-> p.disabled]
  BY DEF AsPrint
<1>5. p.feature \in [Features(m) -> StudiedFeature]
  <2>1. \A f \in Features(m) : m.base[f] \in Nat
    BY <1>1, RowIs DEF IsMatrix, Rowed
  <2>2. p.feature = [f \in Features(m) |->
          [sample |-> t.feature[f].sample, active |-> t.feature[f].active,
           base |-> t.feature[f].base, ordinal |-> t.feature[f].ordinal, generation |-> 0,
           sure |-> t.feature[f].sure]]
    BY <1>2 DEF AsPrint
  <2>3. ASSUME NEW f \in Features(m)
        PROVE  [sample |-> t.feature[f].sample, active |-> t.feature[f].active,
                base |-> t.feature[f].base, ordinal |-> t.feature[f].ordinal, generation |-> 0,
                sure |-> t.feature[f].sure] \in StudiedFeature
    <3>1. /\ t.feature[f].sample \in Sample /\ t.feature[f].active \in BOOLEAN
          /\ t.feature[f].base \in Nat /\ t.feature[f].ordinal \in Int
      BY SMTT(30), <1>1, <1>2, <2>1
    <3>2. t.feature[f].sure \in BOOLEAN
      BY <1>2, DoubtIs
    <3> HIDE DEF t
    <3> QED
      BY <3>1, <3>2 DEF StudiedFeature
  <2> HIDE DEF t, p
  <2> QED
    BY <2>2, <2>3
<1> HIDE DEF t, p
<1>6. p.relation \in [slots -> Relation] /\ slots \subseteq 1 .. RegistrationCount(m.n) - 1
  <2>1. CASE ~m.established
    <3>1. p.relation = << >>
      BY <1>2, <1>3, <2>1 DEF ProjectReferenceStar
    <3>2. p.relation \in [{} -> Relation] /\ slots = {}
      BY <3>1
    <3> QED
      BY <3>2
  <2>2. CASE m.established
    <3>1. \A i \in slots : i \in DOMAIN m.slot /\ p.relation[i] = m.slot[i]
      BY <1>1, <1>2, <1>3, <2>2, StarIs
    <3>2. \A i \in DOMAIN m.slot : m.slot[i] \in Relation
      BY <1>1, SlotsAre
    <3>3. p.relation = [i \in slots |-> p.relation[i]]
      BY <1>2, <1>3, <2>2 DEF ProjectReferenceStar, Restrict
    <3> QED
      BY <1>1, <3>1, <3>2, <3>3 DEF Filled
  <2> QED
    BY <1>1, <2>1, <2>2
<1>7. \E s \in SUBSET (1 .. RegistrationCount(MaxFeatures) - 1) : p.relation \in [s -> Relation]
  <2>1. slots \in SUBSET (1 .. RegistrationCount(MaxFeatures) - 1)
    BY SMTT(30), <1>1, <1>6, RegistrationsGrow
  <2> QED
    BY <1>6, <2>1
<1>8. \E views \in 1 .. MaxFeatures : p.order \in [1 .. views -> 0 .. MaxFeatures - 1]
  <2>1. tx.order \in 1 .. MaxFeatures
    BY <1>1
  <2>2. [i \in 1 .. tx.order |-> i - 1] \in [1 .. tx.order -> 0 .. MaxFeatures - 1]
    BY <1>1, <2>1
  <2> QED
    BY <1>2, <1>3, <2>1, <2>2
<1>9. IsTemplate(p)
  BY <1>1, <1>2, <1>3, <1>4, <1>5, <1>7, <1>8 DEF IsTemplate
<1> QED
  BY <1>9 DEF p, t

-----------------------------------------------------------------------------
(* Every view is a touch of its own *)

\* The views are touches that were made, no two of them the same one, and the
\* order table is no longer than the template can be.
TouchesShown ==
  /\ \A f \in Features(transaction.m) :
       \E i \in 1 .. attempts : transaction.sample[f] = Touches[i]
  /\ \A f, g \in Features(transaction.m) :
       transaction.sample[f] = transaction.sample[g] => f = g
  /\ transaction.order <= MaxFeatures

\* The touches are all different.
TouchesDiffer == \A i, j \in DOMAIN Touches : Touches[i] = Touches[j] => i = j

\* The views of a transaction after an insertion, and after its view is deleted.
LEMMA TriedViews ==
  ASSUME NEW tx, Begun(tx), tx.m.n < MaxFeatures, NEW sample \in Sample, NEW seen,
         Seen(seen, tx.m.n)
  PROVE  LET u == Inserted(tx, sample, seen)
             v == DeleteLast(u) IN
         /\ tx.m.n \in Nat /\ DOMAIN tx.sample = 0 .. tx.m.n - 1
         /\ u.m.n = tx.m.n + 1 /\ u.order <= MaxFeatures
         /\ u.sample[tx.m.n] = sample
         /\ \A f \in 0 .. tx.m.n - 1 : u.sample[f] = tx.sample[f]
         /\ tx.m.n > 0 => /\ v.m.n = tx.m.n /\ v.order <= MaxFeatures
                          /\ \A f \in 0 .. tx.m.n - 1 : v.sample[f] = tx.sample[f]
<1> DEFINE n == tx.m.n
           x == Taking(tx, sample, seen)
           u == Inserted(tx, sample, seen)
           v == DeleteLast(u)
<1>1. n \in Nat /\ MaxFeatures \in Nat /\ DOMAIN tx.sample = 0 .. n - 1
  BY BegunIs, TemplateAssumption
<1>2. /\ WellMade(u) /\ u.m.n = n + 1 /\ u.order = n + 1
      /\ u.m.established => u.m.reference \in 0 .. n - 1
  BY InsertedMade DEF Extended
<1>3. u.sample = With(tx.sample, n, sample)
  <2>1. WellMade(x) /\ x.sample = With(tx.sample, n, sample) /\ u = Closed(x)
    BY TakingIs DEF Proper
  <2> HIDE DEF x, u
  <2> QED
    BY <2>1, ClosedMade DEF SameGraph
<1> HIDE DEF u
<1>4. u.sample[n] = sample /\ \A f \in 0 .. n - 1 : u.sample[f] = tx.sample[f]
  BY <1>1, <1>3 DEF With
<1>5. ASSUME n > 0
      PROVE  /\ v.m.n = n /\ v.order <= MaxFeatures
             /\ \A f \in 0 .. n - 1 : v.sample[f] = tx.sample[f]
  <2>1. v.m.n = u.m.n - 1 /\ v.order = u.order
    <3>1. u.m.n > 1 /\ u.m.n - 2 = n - 1
      BY <1>1, <1>2, <1>5
    <3> QED
      BY <1>2, <3>1, DeleteLastMade
  <2>2. v.sample = Restrict(u.sample, 0 .. n - 1)
    <3>1. u \in Transactions /\ u.m.n - 1 = n
      BY <1>1, <1>2, TransactionIs
    <3>2. DeleteLast(u).sample = Restrict(u.sample, 0 .. (u.m.n - 1) - 1)
      BY <3>1 DEF DeleteLast, Transactions
    <3> QED
      BY <3>1, <3>2
  <2> HIDE DEF v
  <2>3. \A f \in 0 .. n - 1 : v.sample[f] = u.sample[f]
    BY <2>2 DEF Restrict
  <2> QED
    BY <1>1, <1>2, <1>4, <2>1, <2>3
<1> QED
  BY <1>1, <1>2, <1>4, <1>5 DEF u, v

\* An attempt shows the next touch.
LEMMA AttemptShows ==
  ASSUME TouchesDiffer, EnrollmentInvariant, TouchesShown, Attempt
  PROVE  TouchesShown'
<1> DEFINE n == transaction.m.n
           sample == Touches[attempts + 1]
<1>1. /\ attempts \in Nat /\ attempts' = attempts + 1 /\ attempts + 1 \in DOMAIN Touches
      /\ 1 .. attempts \subseteq DOMAIN Touches
      /\ 1 .. attempts' = 1 .. attempts \cup {attempts + 1}
      /\ sample \in Sample
  <2>1. attempts \in 0 .. Len(Touches) /\ attempts < Len(Touches) /\ attempts' = attempts + 1
        /\ Len(Touches) \in Nat /\ DOMAIN Touches = 1 .. Len(Touches)
    BY EnrollmentAssumption DEF EnrollmentInvariant, Attempt
  <2>2. attempts + 1 \in 1 .. Len(Touches)
    BY <2>1
  <2>3. sample \in Sample
    BY <2>2, EnrollmentAssumption
  <2> QED
    BY <2>1, <2>2, <2>3
<1>2. Begun(transaction) /\ n < MaxFeatures
  BY DEF EnrollmentInvariant, Begun, Publishable, Attempt
<1>3. n \in Nat /\ Features(transaction.m) = 0 .. n - 1
  BY <1>2, BegunIs DEF Features
<1>4. \A f \in 0 .. n - 1 : transaction.sample[f] # sample
  <2> SUFFICES ASSUME NEW f \in 0 .. n - 1
               PROVE  transaction.sample[f] # sample
    OBVIOUS
  <2>1. PICK i \in 1 .. attempts : transaction.sample[f] = Touches[i]
    BY <1>3 DEF TouchesShown
  <2>2. i \in DOMAIN Touches /\ i # attempts + 1
    BY <1>1
  <2> QED
    BY <1>1, <2>1, <2>2 DEF TouchesDiffer
<1>5. /\ \A f \in 0 .. n - 1 : \E i \in 1 .. attempts : transaction.sample[f] = Touches[i]
      /\ \A f, g \in 0 .. n - 1 : transaction.sample[f] = transaction.sample[g] => f = g
      /\ transaction.order <= MaxFeatures
  BY <1>3 DEF TouchesShown
<1> HIDE DEF n, sample
\* Whatever has the views there were, and at most the new one.
<1>6. ASSUME transaction'.order <= MaxFeatures,
             \/ transaction'.m.n = n
             \/ transaction'.m.n = n + 1 /\ transaction'.sample[n] = sample,
             \A f \in 0 .. n - 1 : transaction'.sample[f] = transaction.sample[f]
      PROVE  TouchesShown'
  <2>1. ASSUME NEW f \in Features(transaction'.m)
        PROVE  \/ f \in 0 .. n - 1
               \/ f = n /\ transaction'.sample[n] = sample
    BY <1>3, <1>6, <2>1 DEF Features
  <2>2. ASSUME NEW f \in Features(transaction'.m)
        PROVE  \E i \in 1 .. attempts' : transaction'.sample[f] = Touches[i]
    <3>1. CASE f \in 0 .. n - 1
      BY <1>1, <1>5, <1>6, <3>1
    <3>2. CASE f = n /\ transaction'.sample[n] = sample
      BY <1>1, <3>2 DEF sample
    <3> QED
      BY <2>1, <3>1, <3>2
  <2>3. ASSUME NEW f \in Features(transaction'.m), NEW g \in Features(transaction'.m),
               transaction'.sample[f] = transaction'.sample[g]
        PROVE  f = g
    <3>1. \/ f \in 0 .. n - 1
          \/ f = n /\ transaction'.sample[n] = sample
      BY <2>1
    <3>2. \/ g \in 0 .. n - 1
          \/ g = n /\ transaction'.sample[n] = sample
      BY <2>1
    <3> QED
      BY <1>4, <1>5, <1>6, <2>3, <3>1, <3>2
  <2> QED
    BY <1>6, <2>2, <2>3 DEF TouchesShown
<1>7. CASE UNCHANGED transaction
  BY <1>5, <1>6, <1>7 DEF n
<1>8. CASE Unusable
  BY <1>7, <1>8 DEF Unusable
<1>9. ASSUME NEW priors \in SUBSET Features(transaction.m), NEW seen \in [priors -> Registration],
             Try(Touches[attempts + 1], seen)
      PROVE  TouchesShown'
  <2> DEFINE tentative == Inserted(transaction, sample, seen)
             deleted == DeleteLast(tentative)
  <2>1. Seen(seen, n)
    BY <1>2, PriorsAreSeen DEF n
  <2>2. /\ tentative.m.n = n + 1 /\ tentative.order <= MaxFeatures
        /\ tentative.sample[n] = sample
        /\ \A f \in 0 .. n - 1 : tentative.sample[f] = transaction.sample[f]
        /\ n > 0 => /\ deleted.m.n = n /\ deleted.order <= MaxFeatures
                    /\ \A f \in 0 .. n - 1 : deleted.sample[f] = transaction.sample[f]
    BY <1>1, <1>2, <2>1, TriedViews DEF n
  <2>3. \/ UNCHANGED transaction
        \/ transaction' = tentative
        \/ transaction' = deleted /\ n > 0
    <3>1. PICK metrics \in Metrics :
            LET rollback == ShouldRollback(transaction.m.n, metrics)
                failed == tentative.m.n = MaxFeatures /\ ~LiveFieldsReadable(tentative)
            IN IF failed \/ (rollback /\ ~LiveFieldsReadable(deleted))
               THEN /\ status' = "remove" /\ bad' = CommitNonRollback
                    /\ UNCHANGED <<transaction, taken>>
               ELSE IF rollback
               THEN /\ status' = "center" /\ bad' = CommitRollback
                    /\ transaction' = deleted /\ UNCHANGED taken
               ELSE /\ status' = "accepted" /\ bad' = CommitNonRollback
                    /\ transaction' = tentative /\ taken' = Append(taken, seen)
      BY <1>9 DEF Try, sample
    <3>2. ShouldRollback(transaction.m.n, metrics) => n > 0
      BY <1>3 DEF ShouldRollback, n
    <3> HIDE DEF tentative, deleted
    <3> QED
      BY <3>1, <3>2
  <2> HIDE DEF tentative, deleted
  <2> QED
    BY <1>6, <1>7, <2>2, <2>3
<1>10. MayRegister(Touches[attempts + 1]) \subseteq Features(transaction.m)
  BY DEF MayRegister
<1> QED
  BY <1>8, <1>9, <1>10 DEF Attempt

\* A template with views that are touches of their own can be stored.
LEMMA PublishedCanBeStored ==
  ASSUME NEW tx, Publishable(tx), tx.order <= MaxFeatures,
         \A f, g \in Features(tx.m) : tx.sample[f] = tx.sample[g] => f = g
  PROVE  CanBeStored(AsPrint(TemplateOf(tx)))
<1> DEFINE t == TemplateOf(tx)
           p == AsPrint(t)
<1>1. /\ MatrixReadable(t) /\ Normalizable(t) /\ OrderReadable(t) /\ AgesRanked(t)
      /\ PlacedTrue(t) /\ LiveFieldsReadable(tx)
  BY PublishedMatrixReadable, PublishedOrderReadable, PublishedPlaced
<1>2. /\ Features(t) = Features(tx.m) /\ t.n = tx.m.n /\ t.established = tx.m.established
      /\ t.reference = tx.m.reference /\ t.relation = ProjectReferenceStar(tx.m)
      /\ \A f \in Features(tx.m) : /\ t.feature[f].sample = tx.sample[f]
                                   /\ t.feature[f].active = tx.active[f]
                                   /\ t.feature[f].base = tx.m.base[f]
  BY DEF TemplateOf, Features
<1> HIDE DEF t
<1>3. /\ BuildMatrix(p) = BuildMatrix(t) /\ MatrixReadable(p) /\ OrderReadable(p)
      /\ AgesRanked(p) /\ Normalizable(p) /\ PlacedTrue(p)
  BY <1>1, PrintReads
<1>4. /\ Features(p) = Features(t)
      /\ \A f \in Features(t) : /\ p.feature[f].sample = t.feature[f].sample
                                /\ p.feature[f].active = t.feature[f].active
  BY PrintIs
<1>5. IsTemplate(p)
  BY PrintIsTemplate DEF t
<1> HIDE DEF p
<1>6. Distinct(p)
  BY <1>2, <1>4 DEF Distinct
<1>7. ASSUME NEW f \in Active(p)
      PROVE  HasRoute(BuildMatrix(p), f)
  <2>1. f \in Features(tx.m) /\ tx.active[f] /\ HasRoute(tx.m, f)
    BY <1>1, <1>2, <1>4, <1>7 DEF Active, LiveFieldsReadable
  <2>2. Proper(tx) /\ Filled(tx.m) /\ Features(tx.m) \subseteq Nat
    BY TransactionIs DEF Publishable, Proper
  <2> DEFINE m == tx.m
             k == BuildMatrix(t)
             r == m.reference
  <2>3. m.established /\ r \in Features(m) /\ (f = r \/ IsSet(m, f, r))
    BY <1>1, <2>1 DEF HasRoute, LiveFieldsReadable
  <2>4. /\ k.reference = r /\ k.established = m.established /\ Features(k) = Features(m)
        /\ k.slot = t.relation /\ k.base = [g \in Features(m) |-> t.feature[g].base]
    BY <1>2 DEF BuildMatrix, Features
  <2>5. \A g \in Features(m) : k.base[g] = m.base[g]
    BY <1>2, <2>4
  <2>6. CASE f = r
    BY <1>3, <2>3, <2>4, <2>6 DEF HasRoute
  <2>7. CASE f # r
    <3>1. SlotIndex(k, f, r) = SlotIndex(m, f, r)
      BY <2>1, <2>3, <2>5 DEF SlotIndex
    <3>2. f \in Others(m, r) /\ IsSet(m, f, r)
      BY <2>1, <2>3, <2>7 DEF Others
    <3>3. SlotIndex(m, f, r) \in DOMAIN t.relation
      BY <1>2, <2>3, <3>2 DEF ProjectReferenceStar, Restrict, IsSet
    <3>4. IsSet(k, f, r)
      BY <2>4, <3>1, <3>3 DEF IsSet
    <3> QED
      BY <1>3, <2>3, <2>4, <3>4 DEF HasRoute
  <2> QED
    BY <2>6, <2>7
<1>8. CanBeStored(p)
  BY <1>3, <1>5, <1>6, <1>7 DEF CanBeStored, Readable
<1> QED
  BY <1>8 DEF p, t

\* What an enrollment of different touches publishes is what an authentication
\* assumes of a print: every premise of StoredAssumption but the one on the
\* touches still to come.
THEOREM EnrollmentCanBeStored ==
  ASSUME TouchesDiffer
  PROVE  EnrollmentSpec =>
           [](transaction.m.n > 0 => CanBeStored(AsPrint(TemplateOf(transaction))))
<1>1. EnrollmentInit => TouchesShown
  <2> SUFFICES ASSUME EnrollmentInit
               PROVE  TouchesShown
    OBVIOUS
  <2>1. transaction.m.n = 0 /\ transaction.order = 0
    BY DEF EnrollmentInit, NewTransaction, EmptyMatrix
  <2>2. Features(transaction.m) = {}
    BY <2>1 DEF Features
  <2> QED
    BY <2>1, <2>2, TemplateAssumption DEF TouchesShown
<1>2. EnrollmentInvariant /\ TouchesShown /\ [EnrollmentNext]_enrollmentVars => TouchesShown'
  <2> SUFFICES ASSUME EnrollmentInvariant, TouchesShown, [EnrollmentNext]_enrollmentVars
               PROVE  TouchesShown'
    OBVIOUS
  <2>1. CASE Attempt
    BY <2>1, AttemptShows
  <2>2. CASE UNCHANGED enrollmentVars
    BY <2>2 DEF enrollmentVars, TouchesShown
  <2> QED
    BY <2>1, <2>2 DEF EnrollmentNext, Finish
<1>3. EnrollmentInvariant /\ TouchesShown =>
        (transaction.m.n > 0 => CanBeStored(AsPrint(TemplateOf(transaction))))
  <2> SUFFICES ASSUME EnrollmentInvariant, TouchesShown, transaction.m.n > 0
               PROVE  CanBeStored(AsPrint(TemplateOf(transaction)))
    OBVIOUS
  <2>1. Publishable(transaction)
    BY DEF EnrollmentInvariant, NewTransaction, EmptyMatrix
  <2> QED
    BY <2>1, PublishedCanBeStored DEF TouchesShown
<1> QED
  BY <1>1, <1>2, <1>3, EnrollmentInvariantHolds, PTL DEF EnrollmentSpec

=============================================================================
