--------------------------- MODULE MCCapacityRun ----------------------------
(* Instances of CapacityRun: a filesystem of a few bytes.                   *)
EXTENDS CapacityRun
============================================================================
