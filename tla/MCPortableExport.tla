-------------------------- MODULE MCPortableExport ---------------------------
(* Instances of PortableExport: all storages over a few slots.              *)
EXTENDS PortableExport

\* Metadata that fits, and accounts.json alone beyond MaxJson = 4.
MCBytes == {[accounts |-> 1, checkpoint |-> 0], [accounts |-> 5, checkpoint |-> 0]}
============================================================================
