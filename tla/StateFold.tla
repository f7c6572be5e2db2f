----------------------------- MODULE StateFold ------------------------------
(***************************************************************************)
(* The SQL that folds block rows into account state: union_storage and     *)
(* observed_fields of checkpoint.rs, used by checkpoint builds and by      *)
(* bootstrap compaction.                                                   *)
(*                                                                         *)
(* A state maps each account to [nonce, balance, code, storage], storage   *)
(* to slots.  It starts the fold as a base checkpoint or as a compacted    *)
(* prefix; both stand at position (its block number, 0).  rows is the      *)
(* sequence of rows of blocks 1, 2, ... that BlockState!Project returns.   *)
(***************************************************************************)
EXTENDS BlockState

CONSTANT Slots      \* storage slots

Later(p, q) == p[1] > q[1] \/ (p[1] = q[1] /\ p[2] > q[2])

\* The changes of a kind in blocks from..to, each with its position.
Delta(rows, kind, from, to) ==
    UNION {{[address |-> v.address, slot |-> v.slot, value |-> v.value,
             position |-> <<n, v.ordinal>>] :
                v \in {w \in rows[n].values : w.kind = kind}} : n \in from..to}

Resets(rows, from, to) ==
    UNION {{[address |-> d.address, position |-> <<n, d.ordinal>>] : d \in rows[n].resets} :
           n \in from..to}

Inherited(base, number) ==
    {[address |-> a, slot |-> s, value |-> base[a].storage[s], position |-> <<number, 0>>] :
        a \in Selected, s \in Slots}

\* union_storage: what a deletion of the account has not wiped out.
UnionStorage(base, number, rows, to) ==
    {v \in Inherited(base, number) \cup Delta(rows, "storage", number + 1, to) :
        \A r \in Resets(rows, number + 1, to) :
            r.address = v.address => Later(v.position, r.position)}

\* argMax(value, position), or `missing` where no row is left.
ArgMax(rows, missing) ==
    IF rows = {} THEN missing
    ELSE (CHOOSE v \in rows : \A w \in rows : ~Later(w.position, v.position)).value

\* observed_fields: a field the rows do not mention keeps the base's value.
ObservedFields(base, number, rows, to, kind, a) ==
    ArgMax({v \in Delta(rows, kind, number + 1, to) : v.address = a}, base[a][kind])

\* The state at block `to` built on the state `base` of block `number`.
Folded(base, number, rows, to) ==
    LET union == UnionStorage(base, number, rows, to)
        field(kind, a) == ObservedFields(base, number, rows, to, kind, a)
    IN  [a \in Selected |->
            [nonce |-> field("nonce", a), balance |-> field("balance", a),
             code |-> field("code", a),
             storage |-> [s \in Slots |->
                 ArgMax({v \in union : v.address = a /\ v.slot = s}, 0)]]]
============================================================================
