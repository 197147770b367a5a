------------------------------ MODULE MCStudy ------------------------------
EXTENDS Study, TLC

\* Six samples, no two of them placed alike; not all placements commute.
SixPlaces == 1 :> <<1, 2, 3>> @@ 2 :> <<2, 1, 3>> @@ 3 :> <<2, 3, 1>>
             @@ 4 :> <<1, 3, 2>> @@ 5 :> <<3, 1, 2>> @@ 6 :> <<3, 2, 1>>

\* A template as enrollment leaves it: samples 1 .. n, some of them placed.
Enrolled(n, reference, active) ==
  LET slotOf(f) == IF f > reference THEN RowBase(f) + reference ELSE RowBase(reference) + f
      owner(i) == CHOOSE f \in active \ {reference} : slotOf(f) = i
      toward(f) == IF f > reference THEN Measured(f + 1, reference + 1)
                   ELSE Measured(reference + 1, f + 1)
  IN [n |-> n,
      feature |-> [f \in 0 .. n - 1 |->
        [sample |-> f + 1, active |-> f \in active, base |-> RowBase(f), ordinal |-> f,
         generation |-> 0, sure |-> TRUE]],
      reference |-> reference, established |-> active # {},
      relation |-> [i \in {slotOf(f) : f \in active \ {reference}} |->
                      [rank |-> 0, map |-> toward(owner(i))]],
      registration |-> RegistrationCount(n),
      order |-> [i \in 1 .. n |-> i - 1],
      disabled |-> FALSE]

Enrollments ==
  {Enrolled(2, 1, {0, 1}), Enrolled(2, NoReference, {}),
   Enrolled(3, 1, {0, 1}), Enrolled(3, NoReference, {})}

Touches == <<4, 5, 6>>

=============================================================================
