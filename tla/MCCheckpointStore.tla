------------------------- MODULE MCCheckpointStore -------------------------
(* Small instances of CheckpointStore for TLC. *)
EXTENDS CheckpointStore, TLC

CONSTANTS p1, p2, p3, i1, i2, i3, k1, k2, a1, a2

SymmetryL == Permutations({p1, p2}) \cup Permutations({i1, i2})
Symmetry  == Permutations({p1, p2}) \cup Permutations({i1, i2, i3})
             \cup Permutations({a1, a2})
Foreign1 == {[number |-> 1, accounts |-> {a1}]}
============================================================================
