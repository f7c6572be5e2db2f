------------------------- MODULE MCControlBinding --------------------------
(* An instance of ControlBinding: two machines, the original one m1.        *)
EXTENDS ControlBinding, TLC

CONSTANTS m1, m2, d1, d2, n1, n2

Place(m, d) == [machine |-> m, directory |-> d]
FirstPlace == Place(m1, d1)
AllPlaces == {Place(m1, d1), Place(m1, d2), Place(m2, d1)}

Scenario(legacy, places, f, c, l) ==
    [legacy |-> legacy, names |-> (m1 :> n1 @@ m2 :> n2), places |-> places,
     faults |-> f, copies |-> c, losses |-> l]

\* A database without an owner, contended for by two directories, of one
\* machine or of two; the same with more failures; and a renamed machine with a
\* copy of its directory on another one.
FourScenarios ==
    {Scenario(FALSE, {FirstPlace, Place(m1, d2)}, 1, 1, 1),
     Scenario(FALSE, {FirstPlace, Place(m2, d1)}, 1, 1, 1),
     Scenario(FALSE, {FirstPlace, Place(m1, d2)}, 2, 0, 0),
     Scenario(TRUE, {FirstPlace, Place(m2, d1)}, 2, 1, 0)}
============================================================================
