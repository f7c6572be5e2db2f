-------------------------- MODULE CheckpointStore --------------------------
(***************************************************************************)
(* The published checkpoints of one controller: the processes that build,  *)
(* import, pin, read, export and prune them over three ClickHouse tables   *)
(* (checkpoints, checkpoint_accounts, checkpoint_storage), the pin files   *)
(* and the two advisory locks writer.lock and readers.lock.                *)
(*                                                                         *)
(* A process is one evm-state command.  Each step is one lock operation or *)
(* one statement sent to the database.  A step that returns an error, and  *)
(* a killed process, both end in Fail: the locks are dropped and what the  *)
(* statement in flight did is left behind.  The database may still apply   *)
(* a statement of a kind in Late after its client has gone.                *)
(***************************************************************************)
EXTENDS Naturals, FiniteSets

CONSTANTS
    Procs,          \* evm-state commands running against the controller
    Ids,            \* snapshot ids: the uuids new_id can return
    PinIds,         \* pin ids, drawn the same way
    Accounts,       \* account addresses
    MaxBlock,       \* bound: highest block number of a proof bundle
    MaxTime,        \* bound: wall-clock values created_at is taken from
    KeepCounts,     \* the values of --keep-latest
    Foreign,        \* portable exports made by another database
    Ops,            \* bound: the operations this workload starts
    Late,           \* the writes ("insert", "drop") that may outlive their client
    None            \* the absent value

Blocks == 1..MaxBlock
Times == 1..MaxTime
AllOps == {"build", "import", "pin", "unpin", "read", "page", "export", "prune"}

Contents == [number : Blocks, accounts : (SUBSET Accounts) \ {{}}]
Manifests == [number : Blocks, created : Times, accounts : (SUBSET Accounts) \ {{}}]

Tables == {"checkpoints", "checkpoint_accounts", "checkpoint_storage"}
Statements == [drop : BOOLEAN, table : Tables, id : Ids, rows : SUBSET Accounts,
               manifest : Manifests \cup {None}]

ASSUME ConstantsAssumption ==
    /\ MaxBlock \in Nat /\ MaxTime \in Nat
    /\ KeepCounts \subseteq Nat \ {0}
    /\ Foreign \subseteq Contents
    /\ Ops \subseteq AllOps
    /\ Late \subseteq {"insert", "drop"}
    /\ None \notin Procs \cup Ids \cup Manifests
    /\ "released" \notin Ids

VARIABLES
    checkpoints,    \* ready manifest of each id, or None
    accountRows,    \* accounts with a row in checkpoint_accounts, by id
    storageRows,    \* accounts with all their rows in checkpoint_storage, by id
    pins,           \* pin file contents: a snapshot id, None, or "released"
    exports,        \* complete export directories (the ones with manifest.json)
    writer,         \* holder of writer.lock, or None
    shared,         \* shared holders of readers.lock
    exclusive,      \* exclusive holder of readers.lock, or None
    pc, job,        \* each process's position and local variables
    used,           \* snapshot ids already drawn
    stray           \* statements whose client has gone, not yet applied

store == <<checkpoints, accountRows, storageRows>>
files == <<pins, exports>>
locks == <<writer, shared, exclusive>>
vars == <<checkpoints, accountRows, storageRows, pins, exports, writer, shared,
          exclusive, pc, job, used, stray>>

ready == {i \in Ids : checkpoints[i] # None}
pinned == {pins[k] : k \in PinIds} \cap Ids

\* A checkpoint whose rows are all there and nothing else is.
Complete(i) == /\ accountRows[i] = checkpoints[i].accounts
               /\ storageRows[i] = checkpoints[i].accounts

\* The local variables of a command: what it was asked for, and what it has
\* learnt so far.
NoJob == [op |-> None, id |-> None, base |-> None, inherited |-> {},
          number |-> 0, accounts |-> {}, todo |-> {}, rows |-> {},
          pin |-> None, keep |-> 0, remove |-> {}]

Jobs == [op : AllOps \cup {None}, id : Ids \cup {None}, base : Ids \cup {None},
         inherited : SUBSET Accounts, number : Blocks \cup {0},
         accounts : SUBSET Accounts, todo : SUBSET Accounts,
         rows : SUBSET Accounts, pin : PinIds \cup {None},
         keep : KeepCounts \cup {0}, remove : SUBSET Ids]

PublisherSteps == {"admit", "storage", "verify", "accounts", "manifest"}
ReaderSteps == {"load", "readPin", "link", "unlink", "account", "rows", "save"}
RetentionSteps == {"plan", "drop", "dropAccounts", "dropStorage"}
Steps == {"idle", "publisher", "reader", "retention"}
         \cup PublisherSteps \cup ReaderSteps \cup RetentionSteps

Init ==
    /\ checkpoints = [i \in Ids |-> None]
    /\ accountRows = [i \in Ids |-> {}]
    /\ storageRows = [i \in Ids |-> {}]
    /\ pins = [k \in PinIds |-> None]
    /\ exports = Foreign
    /\ writer = None /\ shared = {} /\ exclusive = None
    /\ pc = [p \in Procs |-> "idle"]
    /\ job = [p \in Procs |-> NoJob]
    /\ used = {}
    /\ stray = {}

----------------------------------------------------------------------------
(* Control transfer and the database                                        *)

Goto(p, step) == pc' = [pc EXCEPT ![p] = step]

\* Mutant of Return: the exclusive readers.lock of a retention command leaks.
ReturnKeepingExclusive(p) ==
    /\ Goto(p, "idle")
    /\ job' = [job EXCEPT ![p] = NoJob]
    /\ writer' = IF writer = p THEN None ELSE writer
    /\ shared' = shared \ {p}
    /\ UNCHANGED exclusive

\* A command returns, or dies: every flock it holds goes with it.
Return(p) ==
    /\ Goto(p, "idle")
    /\ job' = [job EXCEPT ![p] = NoJob]
    /\ writer' = IF writer = p THEN None ELSE writer
    /\ shared' = shared \ {p}
    /\ exclusive' = IF exclusive = p THEN None ELSE exclusive

\* An INSERT adds rows to the partition of an id, a DROP PARTITION empties it.
InsertRows(table, i, rows) ==
    [drop |-> FALSE, table |-> table, id |-> i, rows |-> rows, manifest |-> None]
InsertManifest(i, m) ==
    [drop |-> FALSE, table |-> "checkpoints", id |-> i, rows |-> {}, manifest |-> m]
DropPartition(table, i) ==
    [drop |-> TRUE, table |-> table, id |-> i, rows |-> {}, manifest |-> None]

RowsAfter(table, held, s) ==
    IF s.table # table THEN held
    ELSE [held EXCEPT ![s.id] = IF s.drop THEN {} ELSE @ \cup s.rows]

Execute(s) ==
    /\ checkpoints' = IF s.table # "checkpoints" THEN checkpoints
                      ELSE [checkpoints EXCEPT ![s.id] = s.manifest]
    /\ accountRows' = RowsAfter("checkpoint_accounts", accountRows, s)
    /\ storageRows' = RowsAfter("checkpoint_storage", storageRows, s)

----------------------------------------------------------------------------
(* Locks                                                                    *)

\* The operation enters with writer.lock, taken without waiting.
TryWriter(p, step, j) ==
    /\ pc[p] = "idle" /\ j.op \in Ops
    /\ writer = None
    /\ writer' = p
    /\ Goto(p, step)
    /\ job' = [job EXCEPT ![p] = j]
    /\ UNCHANGED <<store, files, shared, exclusive, used, stray>>

\* A reader waits on readers.lock; nothing else is held meanwhile.
WaitReader(p, j) ==
    /\ pc[p] = "idle" /\ j.op \in Ops
    /\ Goto(p, "reader")
    /\ job' = [job EXCEPT ![p] = j]
    /\ UNCHANGED <<store, files, locks, used, stray>>

\* Mutant of TakeShared: a reader does not wait for a retention command.
TakeSharedAnyway(p) ==
    /\ pc[p] \in {"publisher", "reader"}
    /\ shared' = shared \cup {p}
    /\ Goto(p, IF pc[p] = "publisher" THEN "admit"
               ELSE IF job[p].op \in {"unpin", "page"} THEN "readPin" ELSE "load")
    /\ UNCHANGED <<store, files, writer, exclusive, job, used, stray>>

\* readers.lock, shared and blocking: the second half of Control::publisher
\* and the whole of Control::reader.
TakeShared(p) ==
    /\ pc[p] \in {"publisher", "reader"}
    /\ exclusive = None
    /\ shared' = shared \cup {p}
    /\ Goto(p, IF pc[p] = "publisher" THEN "admit"
               ELSE IF job[p].op \in {"unpin", "page"} THEN "readPin" ELSE "load")
    /\ UNCHANGED <<store, files, writer, exclusive, job, used, stray>>

\* readers.lock, exclusive without waiting: the second half of
\* Control::retention.  Any reader or publisher makes the command give up.
TakeExclusive(p) ==
    /\ pc[p] = "retention"
    /\ shared = {} /\ exclusive = None
    /\ exclusive' = p
    /\ Goto(p, "plan")
    /\ UNCHANGED <<store, files, writer, shared, job, used, stray>>

RetentionBusy(p) ==
    /\ pc[p] = "retention"
    /\ shared # {} \/ exclusive # None
    /\ Return(p)
    /\ UNCHANGED <<store, files, used, stray>>

----------------------------------------------------------------------------
(* Publishing: checkpoint::build and importer::import_checkpoint            *)

\* Start a build of `accounts` at block `number`, on a base or from nothing.
Build(p) ==
    \E base \in used \cup {None}, number \in Blocks, accounts \in (SUBSET Accounts) \ {{}} :
        TryWriter(p, "publisher", [NoJob EXCEPT !.op = "build", !.base = base,
                                   !.number = number, !.accounts = accounts])

\* Start an import of a complete export directory, verified before the lock.
Import(p) ==
    \E e \in exports :
        TryWriter(p, "publisher", [NoJob EXCEPT !.op = "import",
                                   !.number = e.number, !.accounts = e.accounts])

\* Mutant of Admit: the candidate's id need not be new.
AdmitAnyId(p) ==
    /\ pc[p] = "admit"
    /\ LET j == job[p] IN
        /\ j.base # None => checkpoints[j.base] # None
        /\ \E i \in Ids :
              /\ used' = used \cup {i}
              /\ job' = [job EXCEPT ![p].id = i]
    /\ Goto(p, "storage")
    /\ UNCHANGED <<store, files, locks, stray>>

\* The base manifest is read and checked, and a new id is drawn.
Admit(p) ==
    /\ pc[p] = "admit"
    /\ LET j == job[p] IN
        /\ j.base # None =>
              /\ checkpoints[j.base] # None
              /\ j.number > checkpoints[j.base].number
              /\ checkpoints[j.base].accounts \subseteq j.accounts
        /\ \E i \in Ids \ used :
              /\ used' = used \cup {i}
              /\ job' = [job EXCEPT ![p].id = i,
                           ![p].inherited = IF j.base = None THEN {}
                                            ELSE checkpoints[j.base].accounts]
    /\ Goto(p, "storage")
    /\ UNCHANGED <<store, files, locks, stray>>

\* The accounts whose storage the INSERT can produce: an account the base
\* covers comes with the base's rows, any other from its source or its pages.
Available(p) ==
    {a \in job[p].accounts : a \in job[p].inherited => a \in storageRows[job[p].base]}

\* The storage INSERT commits block by block (build) or page by page (import).
InsertStorage(p) ==
    /\ pc[p] = "storage"
    /\ \E a \in Available(p) \ storageRows[job[p].id] :
          Execute(InsertRows("checkpoint_storage", job[p].id, {a}))
    /\ UNCHANGED <<files, locks, pc, job, used, stray>>

StorageInserted(p) ==
    /\ pc[p] = "storage"
    /\ Available(p) \subseteq storageRows[job[p].id]
    /\ Goto(p, IF job[p].op = "build" THEN "verify" ELSE "accounts")
    /\ UNCHANGED <<store, files, locks, job, used, stray>>

\* Every account's storage against its proof, and no rows but theirs.  Import
\* verifies what it stored, account rows included.
Verify(p) ==
    /\ pc[p] = "verify"
    /\ storageRows[job[p].id] = job[p].accounts
    /\ job[p].op = "import" => accountRows[job[p].id] = job[p].accounts
    /\ Goto(p, IF job[p].op = "build" THEN "accounts" ELSE "manifest")
    /\ UNCHANGED <<store, files, locks, job, used, stray>>

InsertAccounts(p) ==
    /\ pc[p] = "accounts"
    /\ Execute(InsertRows("checkpoint_accounts", job[p].id, job[p].accounts))
    /\ Goto(p, IF job[p].op = "build" THEN "manifest" ELSE "verify")
    /\ UNCHANGED <<files, locks, job, used, stray>>

\* Mutant of NewManifest: it lists the accounts still to be read.
NewManifestOfTodo(p, created) ==
    InsertManifest(job[p].id, [number |-> job[p].number, created |-> created,
                               accounts |-> job[p].todo])

NewManifest(p, created) ==
    InsertManifest(job[p].id, [number |-> job[p].number, created |-> created,
                               accounts |-> job[p].accounts])

\* The manifest row is the publication; the command then returns.
Publish(p) ==
    /\ pc[p] = "manifest"
    /\ \E created \in Times : Execute(NewManifest(p, created))
    /\ Return(p)
    /\ UNCHANGED <<files, used, stray>>

----------------------------------------------------------------------------
(* Reading: reader::pin, unpin and page, read_account, export_checkpoint    *)

Pin(p) == \E i \in used : WaitReader(p, [NoJob EXCEPT !.op = "pin", !.id = i])

Unpin(p) ==
    \E k \in PinIds : pins[k] # None /\ WaitReader(p, [NoJob EXCEPT !.op = "unpin", !.pin = k])

Page(p) ==
    \E k \in PinIds, a \in Accounts :
        pins[k] # None /\ WaitReader(p, [NoJob EXCEPT !.op = "page", !.pin = k, !.accounts = {a}])

Read(p) ==
    \E i \in used, a \in Accounts :
        WaitReader(p, [NoJob EXCEPT !.op = "read", !.id = i, !.accounts = {a}])

Export(p) == \E i \in used : WaitReader(p, [NoJob EXCEPT !.op = "export", !.id = i])

\* read_pin: the pin file must still be there.
ReadPin(p) ==
    /\ pc[p] = "readPin"
    /\ pins[job[p].pin] \in Ids
    /\ job' = [job EXCEPT ![p].id = pins[job[p].pin]]
    /\ Goto(p, IF job[p].op = "unpin" THEN "unlink" ELSE "load")
    /\ UNCHANGED <<store, files, locks, used, stray>>

\* manifest_unlocked: only a checkpoint with a ready manifest can be used, and
\* only for the accounts it lists.
Load(p) ==
    /\ pc[p] = "load"
    /\ checkpoints[job[p].id] # None
    /\ LET m == checkpoints[job[p].id]
           accounts == IF job[p].op = "export" THEN m.accounts ELSE job[p].accounts
       IN  /\ accounts \subseteq m.accounts
           /\ job' = [job EXCEPT ![p].number = m.number, ![p].accounts = accounts,
                                 ![p].todo = accounts]
    /\ Goto(p, IF job[p].op = "pin" THEN "link" ELSE "account")
    /\ UNCHANGED <<store, files, locks, used, stray>>

\* The pin file is linked into place under a fresh id.
LinkPin(p) ==
    /\ pc[p] = "link"
    /\ \E k \in PinIds : pins[k] = None /\ pins' = [pins EXCEPT ![k] = job[p].id]
    /\ Return(p)
    /\ UNCHANGED <<store, exports, used, stray>>

\* The pin file is removed; another command may have removed it first.
UnlinkPin(p) ==
    /\ pc[p] = "unlink"
    /\ pins[job[p].pin] \in Ids
    /\ pins' = [pins EXCEPT ![job[p].pin] = "released"]
    /\ Return(p)
    /\ UNCHANGED <<store, exports, used, stray>>

\* Mutant of ReadAccount: a missing account row is taken for an empty account.
ReadAccountMissing(p) ==
    /\ pc[p] = "account"
    /\ IF job[p].op = "read" THEN Return(p)
       ELSE Goto(p, "rows") /\ UNCHANGED <<locks, job>>
    /\ UNCHANGED <<store, files, used, stray>>

\* The account rows of the selection.  read_account ends here.
ReadAccount(p) ==
    /\ pc[p] = "account"
    /\ job[p].accounts \subseteq accountRows[job[p].id]
    /\ IF job[p].op = "read" THEN Return(p)
       ELSE Goto(p, "rows") /\ UNCHANGED <<locks, job>>
    /\ UNCHANGED <<store, files, used, stray>>

\* One account's storage rows, whatever is there.  A page ends with its rows.
ReadRows(p) ==
    /\ pc[p] = "rows"
    /\ \E a \in job[p].todo :
          IF job[p].op = "page" THEN Return(p)
          ELSE /\ job' = [job EXCEPT ![p].todo = @ \ {a},
                                     ![p].rows = @ \cup ({a} \cap storageRows[job[p].id])]
               /\ Goto(p, IF job[p].todo = {a} THEN "save" ELSE "rows")
               /\ UNCHANGED locks
    /\ UNCHANGED <<store, files, used, stray>>

\* The exported files are verified whole, then manifest.json completes them.
SaveExport(p) ==
    /\ pc[p] = "save"
    /\ job[p].rows = job[p].accounts
    /\ exports' = exports \cup {[number |-> job[p].number, accounts |-> job[p].accounts]}
    /\ Return(p)
    /\ UNCHANGED <<store, pins, used, stray>>

----------------------------------------------------------------------------
(* Retention: retention::prune (plan stops after the Plan step)             *)

Prune(p) ==
    \E keep \in KeepCounts :
        TryWriter(p, "retention", [NoJob EXCEPT !.op = "prune", !.keep = keep])

Newer(m, n) == m.number > n.number \/ (m.number = n.number /\ m.created > n.created)

\* The orders in which the database may list the ready manifests: newest
\* first, and any order among equal (block_number, created_at).
Orders ==
    {rank \in [ready -> 1..Cardinality(ready)] :
        \A i, k \in ready :
            i # k => /\ rank[i] # rank[k]
                     /\ Newer(checkpoints[i], checkpoints[k]) => rank[i] < rank[k]}

\* Mutants of Kept: pins ignored, one checkpoint too few, and accounts that
\* only an old checkpoint covers forgotten.
KeptUnpinned(rank, keep) ==
    {i \in ready : rank[i] <= keep}
    \cup {i \in ready : \E a \in checkpoints[i].accounts :
                            \A k \in ready : a \in checkpoints[k].accounts => rank[i] <= rank[k]}
KeptOneLess(rank, keep) ==
    {i \in ready : rank[i] < keep}
    \cup {i \in ready : \E a \in checkpoints[i].accounts :
                            \A k \in ready : a \in checkpoints[k].accounts => rank[i] <= rank[k]}
    \cup pinned
KeptRecent(rank, keep) == {i \in ready : rank[i] <= keep} \cup pinned

\* What plan_unlocked keeps: the first `keep` manifests, the first one to list
\* each account, and every pinned checkpoint.
Kept(rank, keep) ==
    {i \in ready : rank[i] <= keep}
    \cup {i \in ready : \E a \in checkpoints[i].accounts :
                            \A k \in ready : a \in checkpoints[k].accounts => rank[i] <= rank[k]}
    \cup pinned

Partitions ==
    ready \cup {i \in Ids : accountRows[i] # {} \/ storageRows[i] # {}}

\* A pin whose checkpoint is not ready stops retention.
Plan(p) ==
    /\ pc[p] = "plan"
    /\ pinned \subseteq ready
    /\ \E rank \in Orders :
          job' = [job EXCEPT ![p].remove = Partitions \ Kept(rank, job[p].keep)]
    /\ Goto(p, "drop")
    /\ UNCHANGED <<store, files, locks, used, stray>>

\* Mutant of DropManifest: the storage rows go before the manifest.
DropRowsFirst(p) ==
    /\ pc[p] = "drop"
    /\ \E i \in job[p].remove :
          /\ Execute(DropPartition("checkpoint_storage", i))
          /\ job' = [job EXCEPT ![p].id = i, ![p].remove = @ \ {i}]
    /\ Goto(p, "dropAccounts")
    /\ UNCHANGED <<files, locks, used, stray>>

\* One generation: its manifest first, then its account and storage rows.
DropManifest(p) ==
    /\ pc[p] = "drop"
    /\ \E i \in job[p].remove :
          /\ Execute(DropPartition("checkpoints", i))
          /\ job' = [job EXCEPT ![p].id = i, ![p].remove = @ \ {i}]
    /\ Goto(p, "dropAccounts")
    /\ UNCHANGED <<files, locks, used, stray>>

DropAccounts(p) ==
    /\ pc[p] = "dropAccounts"
    /\ Execute(DropPartition("checkpoint_accounts", job[p].id))
    /\ Goto(p, "dropStorage")
    /\ UNCHANGED <<files, locks, job, used, stray>>

DropStorage(p) ==
    /\ pc[p] = "dropStorage"
    /\ Execute(DropPartition("checkpoint_storage", job[p].id))
    /\ Goto(p, "drop")
    /\ UNCHANGED <<files, locks, job, used, stray>>

PruneDone(p) ==
    /\ pc[p] = "drop" /\ job[p].remove = {}
    /\ Return(p)
    /\ UNCHANGED <<store, files, used, stray>>

----------------------------------------------------------------------------
(* Failure                                                                  *)

\* Any command may return an error or be killed at any step.
Fail(p) ==
    /\ pc[p] # "idle"
    /\ Return(p)
    /\ UNCHANGED <<store, files, used, stray>>

\* The write the process has sent, or is about to send, at its step.
InFlight(p) ==
    LET j == job[p] IN
    CASE pc[p] = "storage"      -> {InsertRows("checkpoint_storage", j.id, Available(p))}
      [] pc[p] = "accounts"     -> {InsertRows("checkpoint_accounts", j.id, j.accounts)}
      [] pc[p] = "manifest"     -> {NewManifest(p, created) : created \in Times}
      [] pc[p] = "drop"         -> {DropPartition("checkpoints", i) : i \in j.remove}
      [] pc[p] = "dropAccounts" -> {DropPartition("checkpoint_accounts", j.id)}
      [] pc[p] = "dropStorage"  -> {DropPartition("checkpoint_storage", j.id)}
      [] OTHER                  -> {}

\* The client times out or dies while the database still works on its write.
Abandon(p) ==
    /\ \E s \in InFlight(p) : /\ (IF s.drop THEN "drop" ELSE "insert") \in Late
                              /\ stray' = stray \cup {s}
    /\ Return(p)
    /\ UNCHANGED <<store, files, used>>

\* The database completes a write nobody waits for.
ExecuteStray ==
    \E s \in stray :
        /\ Execute(s)
        /\ stray' = stray \ {s}
        /\ UNCHANGED <<files, locks, pc, job, used>>

----------------------------------------------------------------------------

Start(p) == \/ Build(p) \/ Import(p) \/ Pin(p) \/ Unpin(p)
            \/ Page(p) \/ Read(p) \/ Export(p) \/ Prune(p)

Publishing(p) == \/ Admit(p) \/ InsertStorage(p) \/ StorageInserted(p) \/ Verify(p)
                 \/ InsertAccounts(p) \/ Publish(p)

Reading(p) == \/ ReadPin(p) \/ Load(p) \/ LinkPin(p) \/ UnlinkPin(p)
              \/ ReadAccount(p) \/ ReadRows(p) \/ SaveExport(p)

Pruning(p) == \/ Plan(p) \/ DropManifest(p) \/ DropAccounts(p) \/ DropStorage(p)
              \/ PruneDone(p)

Advance(p) == \/ TakeShared(p) \/ TakeExclusive(p) \/ RetentionBusy(p)
              \/ Publishing(p) \/ Reading(p) \/ Pruning(p)

Next == \/ \E p \in Procs : Start(p) \/ Advance(p) \/ Fail(p) \/ Abandon(p)
        \/ ExecuteStray

Spec == Init /\ [][Next]_vars

\* A step of a command whose precondition fails returns an error.  Only the
\* blocking readers.lock request waits instead.
Rejected(p) ==
    /\ pc[p] \notin {"idle", "publisher", "reader"}
    /\ ~ENABLED Advance(p)

\* A running command keeps running: the operating system schedules it and the
\* client's 300 s request timeout bounds every statement.  A command blocked on
\* readers.lock is woken whenever the lock is released, so it gets the lock if
\* the lock is free again and again.  Nothing makes a command start, fail or be
\* killed.
Fairness == \A p \in Procs : /\ WF_vars(Advance(p))
                             /\ SF_vars(TakeShared(p))
                             /\ WF_vars(Rejected(p) /\ Fail(p))

LiveSpec == Spec /\ Fairness

----------------------------------------------------------------------------
(* Properties                                                               *)

\* Every variable stays in its type; in particular each lock has at most one
\* kind of holder per field and a pin names a snapshot id.
TypeOK ==
    /\ checkpoints \in [Ids -> Manifests \cup {None}]
    /\ accountRows \in [Ids -> SUBSET Accounts]
    /\ storageRows \in [Ids -> SUBSET Accounts]
    /\ pins \in [PinIds -> Ids \cup {None, "released"}]
    /\ exports \subseteq Contents
    /\ writer \in Procs \cup {None}
    /\ shared \subseteq Procs
    /\ exclusive \in Procs \cup {None}
    /\ pc \in [Procs -> Steps]
    /\ job \in [Procs -> Jobs]
    /\ used \subseteq Ids
    /\ stray \subseteq Statements

\* A ready manifest always has every account and storage row it lists and no
\* other: candidates stay invisible until the last insert, and cleanup removes
\* the manifest before the rows, wherever a build, an import or a prune stops.
ReadyComplete == \A i \in ready : Complete(i)

\* A pin names a ready checkpoint for as long as it exists: no prune that runs
\* beside pin, or after a pin whose command died, takes the checkpoint away.
PinnedReady == pinned \subseteq ready

\* Between loading a manifest and returning, a reader's checkpoint stays ready
\* and complete, and so does the base a build copies rows from, although other
\* commands publish, unpin and try to prune meanwhile.
InUse(p) ==
    IF pc[p] \in {"link", "account", "rows", "save"} THEN {job[p].id}
    ELSE IF pc[p] = "storage" THEN {job[p].base} \ {None} ELSE {}

StableInUse == \A p \in Procs : \A i \in InUse(p) : i \in ready /\ Complete(i)

\* A reader that found its account row finds all of the account's storage, even
\* when the database applies abandoned writes late: page has no later check
\* that would notice missing rows.
NoTornRead ==
    \A p \in Procs : pc[p] = "rows" => job[p].accounts \subseteq storageRows[job[p].id]

\* No step loses an account's height: whatever a ready checkpoint offered for
\* an account, a ready checkpoint at least as recent offers afterwards.
HeightKept ==
    [][\A i \in ready : \A a \in checkpoints[i].accounts :
          \E k \in Ids : /\ checkpoints'[k] # None
                         /\ a \in checkpoints'[k].accounts
                         /\ checkpoints'[k].number >= checkpoints[i].number]_vars

\* Cleanup leaves the requested number of recent checkpoints: whenever one is
\* removed, `keep` others that are not older are still ready, although the plan
\* was made many statements earlier.
RecentKept ==
    [][\A i \in ready : checkpoints'[i] = None =>
          \E p \in Procs :
              Cardinality({k \in ready \ {i} : ~Newer(checkpoints[i], checkpoints[k])})
                  >= job[p].keep /\ pc[p] = "drop"]_vars

\* The promise to consumers.  An id some running publisher owns is a candidate;
\* one that was drawn, is not ready and has no owner can never be published.
building == {job[p].id : p \in {q \in Procs : pc[q] \in PublisherSteps \ {"admit"}}}

lifeOf == [i \in Ids |-> IF i \in ready THEN "ready"
                         ELSE IF i \in building THEN "candidate"
                         ELSE IF i \in used THEN "gone" ELSE "fresh"]

Published == INSTANCE PublishedCheckpoints WITH life <- lifeOf, manifest <- checkpoints

\* Every step of every command, failures included, is a step of that promise
\* or invisible to consumers.
ImplementsPublished == Published!ASpec

\* Every command returns: nothing waits for ever on readers.lock, and a
\* publisher holding writer.lock gets its shared lock.
Returns == \A p \in Procs : pc[p] # "idle" ~> pc[p] = "idle"
============================================================================
