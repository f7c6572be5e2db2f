----------------------------- MODULE ChainTrace -----------------------------
(***************************************************************************)
(* The end-to-end claim about the state this repository derives: for any   *)
(* execution of the chain, the rows map_block_state returns for its traces *)
(* fold into the state the chain is in.                                    *)
(*                                                                         *)
(* The chain and its tracer are external.  They are modelled by the EVM    *)
(* rules the mapper relies on (docs/LIFECYCLE.md): frames with snapshots,  *)
(* CREATE, delegated calls, SELFDESTRUCT with and without EIP-6780,        *)
(* EIP-7702 authorizations, failed transactions, system calls and block    *)
(* rewards.  The true state is changed in place; the trace only records.   *)
(***************************************************************************)
EXTENDS StateFold, DbOut

CONSTANTS
    Accounts,       \* accounts of the chain
    MaxValue,       \* bound: largest balance and slot value
    MaxDepth,       \* bound: open call frames
    MaxDirect,      \* bound: system calls of a block, and rewards
    Workloads       \* bounds: what a behaviour's executions do, and on what

AllOps == {"write", "transfer", "create", "call", "delegate", "suicide", "revert",
           "authorize", "gas", "system", "reward", "unreliable"}

\* A workload: its operations, the accounts they touch, the senders (None is
\* an account of no interest), the account states it starts from, and bounds on
\* the ordinals of a block and on the blocks.
Fields == {"ops", "accounts", "senders", "states", "ordinals", "blocks"}

\* States of an account, and the records of a trace.
Codes == {None, "code", "delegation"}
AccountStates == [nonce : Nat, balance : Nat, code : Codes, storage : [Slots -> Nat]]
Changes ==
    {c \in [kind : Kinds, address : Accounts, slot : Slots \cup {None}, old : Nat \cup Codes,
            new : Nat \cup Codes, ordinal : Nat,
            reason : {None, "gas", "transfer", "suicide", "block"}] :
        IF c.kind = "storage" THEN c.slot \in Slots ELSE c.slot = None}
Calls == [type : {"call", "delegate", "create"}, address : Accounts \cup {None}, parent : Nat,
          reverted : BOOLEAN, suicide : BOOLEAN, end : Nat, changes : SUBSET Changes]
Transactions == [status : {None, "succeeded", "reverted"}, from : Accounts \cup {None},
                 nonce : Nat, authorities : SUBSET Accounts, begin : Nat, end : Nat,
                 calls : Seq(Calls)]

ASSUME TraceAssumption ==
    /\ Selected \in (SUBSET Accounts) \ {{}} /\ None \notin Accounts
    /\ None \notin Slots /\ None \notin {"code", "delegation", "gas"} /\ None \notin Transactions
    /\ {MaxValue, MaxDepth, MaxDirect} \subseteq Nat /\ Trimmed \subseteq Nat
    /\ \A w \in Workloads :
        /\ DOMAIN w = Fields /\ w.ops \subseteq AllOps /\ w.accounts \subseteq Accounts
        /\ w.senders \subseteq w.accounts \cup {None} /\ w.states \subseteq AccountStates
        /\ w.ordinals \in Nat /\ w.blocks \in Nat

VARIABLES
    world,      \* the state of the chain
    block,      \* trace of the block in progress
    tx,         \* trace of the transaction in progress, or None
    frames,     \* its open calls: index, executing account, state to return to
    created,    \* accounts it has created
    doomed,     \* accounts it deletes when it ends
    ordinal,    \* last ordinal of the block
    halted,     \* the mapper has returned an error
    rows,       \* rows of the blocks so far
    states,     \* state at the start and after each block
    tables,     \* the PostgreSQL current-state tables
    respelled,  \* history: table keys that the last block to change them spelled in both ways
    work        \* the workload

vars == <<world, block, tx, frames, created, doomed, ordinal, halted, rows, states,
          tables, respelled, work>>
output == <<rows, states, tables, respelled>>

NoBlock(cancun) == [cancun |-> cancun, system |-> <<>>, changes |-> {}, txs |-> <<>>]
NoAccount == [nonce |-> 0, balance |-> 0, code |-> None, storage |-> [s \in Slots |-> 0]]

Init ==
    /\ work \in Workloads
    /\ world \in {w \in [Accounts -> work.states \cup {NoAccount}] :
                    \A a \in Accounts : IF a \in work.accounts THEN w[a] \in work.states
                                        ELSE w[a] = NoAccount}
    /\ block \in {NoBlock(cancun) : cancun \in BOOLEAN}
    /\ tx = None /\ frames = <<>> /\ created = {} /\ doomed = {}
    /\ ordinal = 0 /\ halted = FALSE
    /\ rows = <<>> /\ states = <<world>> /\ tables = {} /\ respelled = {}

Tick(n) == ordinal + n <= work.ordinals /\ ordinal' = ordinal + n

\* The chain is between two transactions of a block.
Open == tx = None /\ ~halted /\ Len(rows) < work.blocks

Change(kind, a, slot, old, new, ord, reason) ==
    [kind |-> kind, address |-> a, slot |-> slot, old |-> old, new |-> new,
     ordinal |-> ord, reason |-> reason]
Field(kind, a, new, ord, reason) == Change(kind, a, None, world[a][kind], new, ord, reason)

Call(type, a, parent, changes) ==
    [type |-> type, address |-> a, parent |-> parent, reverted |-> FALSE,
     suicide |-> FALSE, end |-> 0, changes |-> changes]

----------------------------------------------------------------------------
(* A transaction before its root call                                       *)

\* The sender pays for gas and its nonce is incremented.
BeginTx(from) ==
    /\ Open
    /\ Tick(IF from = None THEN 0 ELSE IF "gas" \in work.ops THEN 2 ELSE 1)
    /\ \E b \in IF from # None /\ "gas" \in work.ops THEN 0..MaxValue ELSE {0} :
          LET pays == from # None /\ "gas" \in work.ops
              changes == IF from = None THEN {}
                         ELSE {Field("nonce", from, world[from].nonce + 1, ordinal + 1, None)}
                              \cup (IF pays THEN {Field("balance", from, b, ordinal + 2, "gas")}
                                    ELSE {})
          IN  /\ tx' = [status |-> None, from |-> from, authorities |-> {}, begin |-> 0, end |-> 0,
                        nonce |-> IF from = None THEN 0 ELSE world[from].nonce,
                        calls |-> <<Call("call", None, 0, changes)>>]
              /\ world' = IF from = None THEN world
                          ELSE [world EXCEPT ![from].nonce = @ + 1,
                                             ![from].balance = IF pays THEN b ELSE @]
    /\ UNCHANGED <<block, frames, created, doomed, halted, output, work>>

\* An accepted authorization sets or clears the authority's delegation.
Authorize(a) ==
    /\ tx # None /\ frames = <<>> /\ tx.begin = 0 /\ "authorize" \in work.ops
    /\ Tick(2)
    /\ \E code \in {None, "delegation"} :
          /\ tx' = [tx EXCEPT !.authorities = @ \cup {a},
                       !.calls[1].changes = @ \cup
                          {Field("nonce", a, world[a].nonce + 1, ordinal + 1, None),
                           Field("code", a, code, ordinal + 2, None)}]
          /\ world' = [world EXCEPT ![a].nonce = @ + 1, ![a].code = code]
    /\ UNCHANGED <<block, frames, created, doomed, halted, output, work>>

Frame(call, self, before) ==
    [call |-> call, self |-> self, world |-> before, created |-> created, doomed |-> doomed]

\* An account CREATE can use.
Free(a) == world[a].nonce = 0 /\ world[a].code = None

BeginRoot(type, a) ==
    /\ tx # None /\ tx.begin = 0 /\ frames = <<>>
    /\ type = "create" => "create" \in work.ops /\ Free(a)
    /\ Tick(IF type = "create" THEN 2 ELSE 1)
    /\ LET changes == IF type = "create" THEN {Field("nonce", a, 1, ordinal + 2, None)} ELSE {}
       IN  tx' = [tx EXCEPT !.begin = ordinal + 1, !.calls[1].type = type,
                            !.calls[1].address = a, !.calls[1].changes = @ \cup changes]
    /\ world' = IF type = "create" THEN [world EXCEPT ![a].nonce = 1] ELSE world
    /\ created' = IF type = "create" THEN {a} ELSE {}
    /\ frames' = <<Frame(1, a, world)>>
    /\ UNCHANGED <<block, doomed, halted, output, work>>

----------------------------------------------------------------------------
(* Execution in the innermost frame                                         *)

Running == frames # <<>>
Current == frames[Len(frames)].call
Self == frames[Len(frames)].self

\* Code runs only in an account that has it or is being created: a call to one
\* CREATE could still use runs nothing.
Executing == Running /\ ~Free(Self)

Write(s, value) ==
    /\ Executing /\ "write" \in work.ops
    /\ value # world[Self].storage[s]
    /\ Tick(1)
    /\ tx' = [tx EXCEPT !.calls[Current].changes = @ \cup
                {Change("storage", Self, s, world[Self].storage[s], value, ordinal + 1, None)}]
    /\ world' = [world EXCEPT ![Self].storage[s] = value]
    /\ UNCHANGED <<block, frames, created, doomed, halted, output, work>>

Transfer(a, value) ==
    /\ Running /\ "transfer" \in work.ops
    /\ value # world[a].balance
    /\ Tick(1)
    /\ tx' = [tx EXCEPT !.calls[Current].changes = @ \cup
                {Field("balance", a, value, ordinal + 1, "transfer")}]
    /\ world' = [world EXCEPT ![a].balance = value]
    /\ UNCHANGED <<block, frames, created, doomed, halted, output, work>>

\* CREATE increments the creator's nonce in the caller's frame.
Enter(type, a) ==
    /\ Executing /\ type \in work.ops /\ Len(frames) < MaxDepth
    /\ type = "create" => Free(a) /\ a # Self
    /\ Tick(IF type = "create" THEN 2 ELSE 1)
    /\ LET nonce == {Field("nonce", Self, world[Self].nonce + 1, ordinal + 1, None)}
           born == {Field("nonce", a, 1, ordinal + 2, None)}
           calls == IF type = "create" THEN [tx.calls EXCEPT ![Current].changes = @ \cup nonce]
                    ELSE tx.calls
           caller == IF type = "create" THEN [world EXCEPT ![Self].nonce = @ + 1] ELSE world
       IN  /\ tx' = [tx EXCEPT !.calls = Append(calls, Call(type, a, Current,
                                            IF type = "create" THEN born ELSE {}))]
           /\ world' = IF type = "create" THEN [caller EXCEPT ![a].nonce = 1] ELSE caller
           /\ created' = IF type = "create" THEN created \cup {a} ELSE created
           /\ frames' = Append(frames, Frame(Len(tx.calls) + 1,
                                  IF type = "delegate" THEN Self ELSE a, caller))
    /\ UNCHANGED <<block, doomed, halted, output, work>>

Pop == frames' = SubSeq(frames, 1, Len(frames) - 1)

\* A frame returns; a created account gets its code.
Exit ==
    /\ Running
    /\ LET call == tx.calls[Current]
           code == IF call.type = "create"
                   THEN {Field("code", call.address, "code", ordinal + 1, None)} ELSE {}
       IN  /\ Tick(Cardinality(code) + 1)
           /\ tx' = [tx EXCEPT !.calls[Current].end = ordinal',
                               !.calls[Current].changes = @ \cup code]
           /\ world' = IF call.type = "create" THEN [world EXCEPT ![call.address].code = "code"]
                       ELSE world
    /\ Pop
    /\ UNCHANGED <<block, created, doomed, halted, output, work>>

\* SELFDESTRUCT moves the balance away and ends the frame.  It deletes the
\* account when the transaction ends; since Cancun, only one created in it.
SelfDestruct ==
    /\ Executing /\ "suicide" \in work.ops
    /\ Tick(2)
    /\ tx' = [tx EXCEPT !.calls[Current].suicide = TRUE, !.calls[Current].end = ordinal + 2,
                        !.calls[Current].changes = @ \cup
                            {Field("balance", Self, 0, ordinal + 1, "suicide")}]
    /\ world' = [world EXCEPT ![Self].balance = 0]
    /\ doomed' = IF block.cancun /\ Self \notin created THEN doomed ELSE doomed \cup {Self}
    /\ Pop
    /\ UNCHANGED <<block, created, halted, output, work>>

\* A frame fails: its changes and those of the calls it made are undone.
Revert ==
    /\ Running /\ "revert" \in work.ops
    /\ Tick(1)
    /\ tx' = [tx EXCEPT !.calls =
                [i \in DOMAIN tx.calls |->
                    IF i >= Current
                    THEN [tx.calls[i] EXCEPT !.reverted = TRUE,
                                             !.end = IF i = Current THEN ordinal + 1 ELSE @]
                    ELSE tx.calls[i]]]
    /\ LET before == frames[Len(frames)]
       IN  world' = before.world /\ created' = before.created /\ doomed' = before.doomed
    /\ Pop
    /\ UNCHANGED <<block, halted, output, work>>

----------------------------------------------------------------------------
(* The end of a transaction and of a block                                  *)

\* Records of a reverted execution may have lost their ordinals.
Unnumbered(t) ==
    [t EXCEPT !.calls = [i \in DOMAIN t.calls |-> [t.calls[i] EXCEPT !.changes =
        {IF c.ordinal > t.begin THEN [c EXCEPT !.ordinal = 0] ELSE c : c \in @}]]]

\* The sender gets its refund; deletions happen last.  A producer without
\* reliable boundaries leaves them zero.
EndTx ==
    /\ tx # None /\ frames = <<>> /\ tx.begin # 0
    /\ Tick(IF tx.from # None /\ "gas" \in work.ops THEN 2 ELSE 1)
    /\ \E b \in IF tx.from # None /\ "gas" \in work.ops THEN 0..MaxValue ELSE {0},
          unnumbered \in IF tx.calls[1].reverted THEN BOOLEAN ELSE {FALSE},
          lost \in IF "unreliable" \in work.ops THEN BOOLEAN ELSE {FALSE} :
          LET ok == ~tx.calls[1].reverted
              pays == tx.from # None /\ "gas" \in work.ops
              refund == IF pays THEN {Field("balance", tx.from, b, ordinal + 1, "gas")} ELSE {}
              traced == IF unnumbered THEN Unnumbered(tx) ELSE tx
              ended == [traced EXCEPT !.status = IF ok THEN "succeeded" ELSE "reverted",
                            !.begin = IF lost THEN 0 ELSE @,
                            !.end = IF lost THEN 0 ELSE ordinal',
                            !.calls[1].changes = @ \cup refund]
              paid == IF pays THEN [world EXCEPT ![tx.from].balance = b] ELSE world
          IN  /\ block' = [block EXCEPT !.txs = Append(@, ended)]
              /\ world' = IF ok THEN [a \in Accounts |->
                                        IF a \in doomed THEN NoAccount ELSE paid[a]]
                          ELSE paid
    /\ tx' = None /\ created' = {} /\ doomed' = {}
    /\ UNCHANGED <<frames, halted, output, work>>

\* A system call writes to a contract between transactions.
SystemCall(a, s, value, reverted) ==
    /\ Open /\ "system" \in work.ops /\ Len(block.system) < MaxDirect
    /\ Tick(1)
    /\ LET change == Change("storage", a, s, world[a].storage[s], value, ordinal + 1, None)
       IN  block' = [block EXCEPT !.system =
                        Append(@, [Call("call", a, 0, {change}) EXCEPT !.reverted = reverted])]
    /\ world' = IF reverted THEN world ELSE [world EXCEPT ![a].storage[s] = value]
    /\ UNCHANGED <<tx, frames, created, doomed, halted, output, work>>

\* A balance change of the block itself.
Reward(a, value) ==
    /\ Open /\ "reward" \in work.ops /\ Cardinality(block.changes) < MaxDirect
    /\ Tick(1)
    /\ block' = [block EXCEPT !.changes = @ \cup {Field("balance", a, value, ordinal + 1, "block")}]
    /\ world' = [world EXCEPT ![a].balance = value]
    /\ UNCHANGED <<tx, frames, created, doomed, halted, output, work>>

\* Both modules are called with the finished block: map_block_state returns a
\* row and db_out its upserts, or an error ends the stream.  Cancun stays activated.
EndBlock ==
    /\ Open /\ ordinal > 0
    /\ IF Rejected(block)
       THEN halted' = TRUE /\ UNCHANGED output
       ELSE /\ rows' = Append(rows, Project(block)) /\ states' = Append(states, world)
            /\ \E trimmed \in SUBSET Respelled(Collected(block)) :
                  tables' = Upsert(tables, block, trimmed)
            /\ respelled' = (respelled \ {Key(c) : c \in Collected(block)})
                            \cup Respelled(Collected(block))
            /\ UNCHANGED halted
    /\ \E cancun \in BOOLEAN : /\ block.cancun => cancun
                               /\ block' = NoBlock(cancun)
    /\ ordinal' = 0
    /\ UNCHANGED <<world, tx, frames, created, doomed, work>>

Execute == \/ \E s \in Slots, v \in 0..MaxValue : Write(s, v)
           \/ \E a \in work.accounts, v \in 0..MaxValue : Transfer(a, v)
           \/ \E type \in {"call", "delegate", "create"}, a \in work.accounts : Enter(type, a)
           \/ Exit \/ SelfDestruct \/ Revert

Next == \/ \E from \in work.senders : BeginTx(from)
        \/ \E a \in work.accounts : Authorize(a)
        \/ \E type \in {"call", "create"}, a \in work.accounts : BeginRoot(type, a)
        \/ Execute \/ EndTx
        \/ \E a \in work.accounts, s \in Slots, v \in 0..MaxValue, r \in BOOLEAN :
              SystemCall(a, s, v, r)
        \/ \E a \in work.accounts, v \in 0..MaxValue : Reward(a, v)
        \/ EndBlock

Spec == Init /\ [][Next]_vars

----------------------------------------------------------------------------
(* Properties                                                               *)

\* The selected accounts as a fold returns them.
Observed(state) == [a \in Selected |-> state[a]]

\* A checkpoint built from the checkpoint of any earlier block and the rows
\* since is the state of the chain, whatever was reverted, delegated,
\* destroyed, recreated or left of a failed transaction in between.
FoldIsState ==
    \A n \in DOMAIN states : \A k \in 1..n :
        Folded(Observed(states[k]), k - 1, rows, n - 1) = Observed(states[n])

\* The value of a table row in the chain's state.
InState(r, state) ==
    IF r.kind = "storage" THEN state[r.address].storage[r.slot] ELSE state[r.address][r.kind]

\* The current-state tables of db_out hold the chain's values of every account
\* that was never deleted, as of the last block, unless the trace spelled a
\* slot both trimmed and padded in the last block that changed it.
TablesAreCurrent ==
    LET deleted == {d.address : d \in UNION {rows[n].resets : n \in DOMAIN rows}}
        state == states[Len(states)]
    IN  \A r \in tables :
            r.address \notin deleted /\ Key(r) \notin respelled => r.value = InState(r, state)
============================================================================
