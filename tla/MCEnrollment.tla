---------------------------- MODULE MCEnrollment ----------------------------
EXTENDS Enrollment, TLC

\* Seven samples; the first six are placed differently, and not all placements
\* commute.
SevenPlaces == 1 :> <<1, 2, 3>> @@ 2 :> <<2, 1, 3>> @@ 3 :> <<2, 3, 1>>
               @@ 4 :> <<1, 3, 2>> @@ 5 :> <<3, 1, 2>> @@ 6 :> <<3, 2, 1>>
               @@ 7 :> <<2, 3, 1>>

OneOfEach == <<1, 2, 3, 4, 5, 6, 7>>

Registrations == {[inliers |-> 6, overlap |-> 210]}

\* Which samples lie side by side on the finger.
Neighbours ==
  {{1, 2}, {2, 3}, {3, 4}, {4, 5}, {5, 6}, {6, 7}, {1, 4}, {1, 6}, {1, 7}, {2, 6}, {2, 7},
   {4, 6}}

\* Not an invariant: no view is excepted, also none that propagation reached by
\* two steps or more.  Checked with the constants of enrollment_safety.cfg it
\* fails for an enrollment of six views.
PropagatedTrue ==
  transaction.m.n > 0 => PlacedTrue(TemplateOf([transaction EXCEPT !.doubt = {}]))

=============================================================================
