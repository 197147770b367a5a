------------------------------ MODULE MCMatch ------------------------------
EXTENDS Match

Enrolled(order, active, routed, class, queueing) ==
  [n |-> Len(order), order |-> order, active |-> active, routed |-> routed,
   class |-> class, queueing |-> queueing]

Plain == [f \in 0 .. 2 |-> 0]

\* A full template, one with an unrelated feature, one with a worn feature.
Enrollments ==
  {Enrolled(<<2, 0, 1>>, {0, 2}, {0, 2}, Plain, FALSE),
   Enrolled(<<0, 1, 2>>, {0, 1}, {0}, [Plain EXCEPT ![1] = 4], FALSE),
   Enrolled(<<1, 0>>, {0, 1}, {0, 1}, Plain, TRUE),
   Enrolled(<<0, 1>>, {}, {}, Plain, TRUE)}

Extracted(high, low, histogram, severe, antifake) ==
  [high |-> high, low |-> low, histogram |-> histogram, severe |-> severe,
   antifake |-> antifake]

Extractions ==
  {Extracted(0, 0, 0, FALSE, TRUE), Extracted(1, 2, 0, FALSE, FALSE),
   Extracted(4, 0, 0, FALSE, TRUE), Extracted(5, 0, 2, TRUE, TRUE)}
=============================================================================
