----------------------------- MODULE BlockState -----------------------------
(***************************************************************************)
(* The native mapper, map_block_state: which records of an Extended block  *)
(* trace survived execution (persist.rs), which accounts the block deleted *)
(* (lifecycle.rs), and the block-end row of the selected accounts          *)
(* (block_state.rs).                                                       *)
(*                                                                         *)
(* A change is [kind, address, slot, old, new, ordinal, reason].  A call   *)
(* is [type, address, parent, reverted, suicide, end, changes], where      *)
(* parent is its index in the transaction's calls.  A transaction is       *)
(* [status, from, nonce, authorities, begin, end, calls], where begin is   *)
(* its root call's begin ordinal, and a block is                           *)
(* [cancun, system, changes, txs].                                         *)
(***************************************************************************)
EXTENDS Integers, Sequences, FiniteSets

CONSTANTS
    Selected,       \* the accounts of the module's parameters
    None            \* no slot, no reason, no code

Kinds == {"storage", "balance", "nonce", "code"}
Zero(kind) == IF kind = "code" THEN None ELSE 0

----------------------------------------------------------------------------
(* persist.rs                                                               *)

Failed(tx) == tx.status # "succeeded"

\* emit_call_all: no-op records are dropped everywhere.
Effective(changes) == {c \in changes : c.old # c.new}

Committed(calls) == {i \in DOMAIN calls : ~calls[i].reverted}

GasChanges(root) == {c \in Effective(root.changes) : c.kind = "balance" /\ c.reason = "gas"}

\* The transaction's own nonce increment, by sender and value.
SenderNonce(tx) ==
    LET own == {c \in tx.calls[1].changes :
                    /\ c.kind = "nonce" /\ c.ordinal > 0
                    /\ c.address = tx.from
                    /\ c.old = tx.nonce /\ c.new = tx.nonce + 1}
    IN  {c \in own : \A d \in own : c.ordinal <= d.ordinal}

\* EIP-7702 authorizations are applied before the root call begins.
Authorizations(tx) ==
    {c \in Effective(tx.calls[1].changes) :
        /\ c.kind \in {"nonce", "code"}
        /\ c.ordinal > 0 /\ c.ordinal < tx.begin
        /\ c.address \in tx.authorities}

\* collect_transaction
Persisted(tx) ==
    IF Failed(tx) THEN GasChanges(tx.calls[1]) \cup SenderNonce(tx) \cup Authorizations(tx)
    ELSE UNION {Effective(tx.calls[i].changes) : i \in Committed(tx.calls)}

\* Without the ordinal boundary the authorizations cannot be told from the
\* execution that failed.
NoBoundary(tx) == Failed(tx) /\ tx.authorities # {} /\ tx.begin = 0

\* collect_block, filtered by the changed account.
Collected(block) ==
    LET system == UNION {Effective(block.system[i].changes) : i \in Committed(block.system)}
        txs == UNION {Persisted(block.txs[i]) : i \in DOMAIN block.txs}
    IN  {c \in system \cup Effective(block.changes) \cup txs : c.address \in Selected}

----------------------------------------------------------------------------
(* lifecycle.rs                                                             *)

\* execution_address: delegated code runs in the account of its caller.
ExecutionAddress(calls, i) ==
    LET exec[j \in DOMAIN calls] ==
            IF calls[j].type = "delegate" THEN exec[calls[j].parent] ELSE calls[j].address
    IN  exec[i]

Suicides(calls) == {i \in Committed(calls) : calls[i].suicide}
Created(tx) == {tx.calls[i].address : i \in {j \in Committed(tx.calls) : tx.calls[j].type = "create"}}

\* The calls whose SELFDESTRUCT deletes its account at the transaction's end:
\* any before Cancun, afterwards only of an account the transaction created.
Deleting(block, tx) ==
    IF Failed(tx) THEN {}
    ELSE {i \in Suicides(tx.calls) :
             ~block.cancun \/ ExecutionAddress(tx.calls, i) \in Created(tx)}

Unordered(block, tx) ==
    \E i \in Deleting(block, tx) : tx.end = 0 \/ tx.end <= tx.calls[i].end

\* Mutant of Deletions: storage goes when the call ends.
DeletionsAtCall(block) ==
    UNION {{[address |-> ExecutionAddress(tx.calls, i), ordinal |-> tx.calls[i].end] :
               i \in Deleting(block, tx)} :
           tx \in {block.txs[j] : j \in DOMAIN block.txs}}

\* deletions: the last deletion of each account in the block.
Deletions(block) ==
    LET all == UNION {{[address |-> ExecutionAddress(tx.calls, i), ordinal |-> tx.end] :
                          i \in Deleting(block, tx)} :
                      tx \in {block.txs[j] : j \in DOMAIN block.txs}}
    IN  {d \in all : \A e \in all : e.address = d.address => e.ordinal <= d.ordinal}

----------------------------------------------------------------------------
(* block_state.rs                                                           *)

\* The mapper returns an error and no row.
Rejected(block) ==
    \/ Suicides(block.system) # {}
    \/ \E i \in DOMAIN block.txs : \/ NoBoundary(block.txs[i])
                                   \/ Unordered(block, block.txs[i])

\* The changes sorted by ordinal and collected by key: the last one stays.
LastChanges(changes) ==
    {c \in changes : \A d \in changes :
        <<c.kind, c.address, c.slot>> = <<d.kind, d.address, d.slot>> => d.ordinal <= c.ordinal}

Value(c) == [kind |-> c.kind, address |-> c.address, slot |-> c.slot,
             value |-> c.new, ordinal |-> c.ordinal]

\* A deletion removes the storage rows before it, and sets balance, nonce and
\* code to zero unless they changed after it.
Values(block) ==
    LET last == {Value(c) : c \in LastChanges(Collected(block))}
        gone == {d \in Deletions(block) : d.address \in Selected}
        kept == {v \in last : \A d \in gone : d.address = v.address =>
                    v.ordinal > d.ordinal \/ (v.ordinal = d.ordinal /\ v.kind # "storage")}
        zero == {[kind |-> k, address |-> d.address, slot |-> None,
                  value |-> Zero(k), ordinal |-> d.ordinal] :
                     k \in Kinds \ {"storage"}, d \in gone}
    IN  kept \cup {z \in zero : \A v \in kept : <<v.kind, v.address>> # <<z.kind, z.address>>}

\* The row of a block: its values and the lifecycle effects of kind
\* "storage_reset"; the other kinds are informational.
Project(block) ==
    [values |-> Values(block),
     resets |-> {d \in Deletions(block) : d.address \in Selected}]
============================================================================
