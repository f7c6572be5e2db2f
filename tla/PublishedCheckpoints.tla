----------------------- MODULE PublishedCheckpoints ------------------------
(***************************************************************************)
(* What the checkpoint store promises its consumers, without processes,    *)
(* tables or locks: a snapshot id is drawn once, published once with a     *)
(* manifest that never changes, and removed once.  Nothing pinned and      *)
(* nothing newest for an account is ever removed.                          *)
(***************************************************************************)
EXTENDS Naturals

CONSTANTS Ids, PinIds, Manifests, None

VARIABLES
    life,       \* of each id: "fresh", "candidate", "ready" or "gone"
    manifest,   \* of each ready id, None for the others
    pins        \* an id, None, or "released"

avars == <<life, manifest, pins>>

AInit == /\ life = [i \in Ids |-> "fresh"]
         /\ manifest = [i \in Ids |-> None]
         /\ pins = [k \in PinIds |-> None]

Draw(i) == /\ life[i] = "fresh"
           /\ life' = [life EXCEPT ![i] = "candidate"]
           /\ UNCHANGED <<manifest, pins>>

\* A command that stops early leaves rows no reader will ever see.
Discard(i) == /\ life[i] = "candidate"
              /\ life' = [life EXCEPT ![i] = "gone"]
              /\ UNCHANGED <<manifest, pins>>

PublishReady(i) == /\ life[i] = "candidate"
                   /\ life' = [life EXCEPT ![i] = "ready"]
                   /\ \E m \in Manifests : manifest' = [manifest EXCEPT ![i] = m]
                   /\ UNCHANGED pins

\* A ready checkpoint may go when no pin names it and every account it covers
\* is covered at least as recently by another.
Retire(i) ==
    /\ life[i] = "ready"
    /\ \A k \in PinIds : pins[k] # i
    /\ \A a \in manifest[i].accounts :
          \E j \in Ids \ {i} : /\ life[j] = "ready"
                               /\ a \in manifest[j].accounts
                               /\ manifest[j].number >= manifest[i].number
    /\ life' = [life EXCEPT ![i] = "gone"]
    /\ manifest' = [manifest EXCEPT ![i] = None]
    /\ UNCHANGED pins

AddPin(k, i) == /\ life[i] = "ready"
                /\ pins[k] = None
                /\ pins' = [pins EXCEPT ![k] = i]
                /\ UNCHANGED <<life, manifest>>

RemovePin(k) == /\ pins[k] \in Ids
                /\ pins' = [pins EXCEPT ![k] = "released"]
                /\ UNCHANGED <<life, manifest>>

ANext == \/ \E i \in Ids : Draw(i) \/ Discard(i) \/ PublishReady(i) \/ Retire(i)
         \/ \E k \in PinIds : RemovePin(k) \/ \E i \in Ids : AddPin(k, i)

ASpec == AInit /\ [][ANext]_avars
============================================================================
