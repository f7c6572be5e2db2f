------------------------------- MODULE DbOut --------------------------------
(***************************************************************************)
(* The PostgreSQL output, db_out: the same collected changes as the native *)
(* mapper (BlockState), upserted into the current-state tables.  A table   *)
(* row is [kind, address, slot, value]; rows are only ever replaced, and   *)
(* account deletion is not part of this output (docs/LIFECYCLE.md).        *)
(*                                                                         *)
(* A trace may spell a storage key with or without its leading zeros.  The *)
(* native mapper pads a key before it compares it; db_out compares the     *)
(* bytes of the trace and pads only the key of the row.                    *)
(***************************************************************************)
EXTENDS BlockState

CONSTANT Trimmed    \* ordinals at which a storage key comes without leading zeros

Key(r) == <<r.kind, r.address, r.slot>>

\* The key of last_storage: the bytes of the trace.
RawKey(c) == <<Key(c), c.kind = "storage" /\ c.ordinal \in Trimmed>>

\* The slots that a block's changes spell in both ways.
Respelled(changes) ==
    {Key(c) : c \in {d \in changes : \E e \in changes : Key(d) = Key(e) /\ RawKey(d) # RawKey(e)}}

\* Mutant of CurrentState: the first change of a key wins.
CurrentStateFirst(changes, trimmed) ==
    {[kind |-> c.kind, address |-> c.address, slot |-> c.slot, value |-> c.new] :
        c \in {d \in changes :
                  /\ \A e \in changes : RawKey(d) = RawKey(e) => d.ordinal <= e.ordinal
                  /\ Key(d) \in Respelled(changes) =>
                        (d.ordinal \in Trimmed <=> Key(d) \in trimmed)}}

\* Last change by ordinal, for each spelling of a slot and each field of an
\* account.  The two spellings of a slot upsert one row, in the order of a
\* HashMap: `trimmed` has the slots whose trimmed spelling comes last.
CurrentState(changes, trimmed) ==
    {[kind |-> c.kind, address |-> c.address, slot |-> c.slot, value |-> c.new] :
        c \in {d \in changes :
                  /\ \A e \in changes : RawKey(d) = RawKey(e) => e.ordinal <= d.ordinal
                  /\ Key(d) \in Respelled(changes) =>
                        (d.ordinal \in Trimmed <=> Key(d) \in trimmed)}}

\* The sink applies the upserts of a block to the tables.
Upsert(tables, block, trimmed) ==
    LET new == CurrentState(Collected(block), trimmed)
    IN  new \cup {r \in tables : \A n \in new : Key(n) # Key(r)}
============================================================================
