---------------------------- MODULE MCNativeRun ----------------------------
(* Small instances of NativeRun for TLC. *)
EXTENDS NativeRun, TLC

CONSTANTS p1, p2

Symmetry == Permutations({p1, p2})
============================================================================
