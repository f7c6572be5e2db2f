# Verification of substreams-evm-state

TLA+ models of the repository's core, TLC runs over small instances, and TLAPS proofs of their safety
properties for every size. `PROJECT.json` maps every definition to the source lines it stands for.

## 1. The system

A Substreams module (`src/src`) turns extended EVM block traces into rows of the accounts it
follows. The official sink writes them to ClickHouse. The `evm-state` command
(`src/crates/evm-state`) guards that ingestion, folds the rows into *checkpoints* that it verifies
against account proofs, and publishes, reads, exports, imports and prunes them. All coordination is
by files and `flock` in a controller directory and by single statements to the database; there is
no transaction across two statements and no server of its own.

| component | state | operations | interacts through | hard behaviour |
|---|---|---|---|---|
| checkpoint publication, import | `checkpoints`, `checkpoint_accounts`, `checkpoint_storage` | build, import | writer.lock, readers.lock (shared) | a crash between inserts; statements that outlive the client |
| readers and pins, export | pin files, export directories | pin, unpin, page, read, export | readers.lock (shared) | a prune between a check and its use |
| retention | the same tables | plan, prune | writer.lock, readers.lock (exclusive) | a stale plan; partial drops; keep rules |
| controller binding, host recovery | binding.json, marker, ownership table, sidecars | Control::open, rebind | initialize.lock, six locks of a pair | first-use race, copied or lost metadata, renamed hosts |
| guarded native run, cursor | run.json, package, ownership row, cursor.txt, durable_progress.json | prepare, ingest, recover | run.lock, inherited by the sink | kill of the wrapper alone, torn cursor, restored database |
| history, bootstrap | `state_blocks`, `_blocks_`, private generations, the prefix pointer | compact, replay, cleanup | run.lock, writer.lock | removal of the only copy of old blocks; drops that outlive their command |
| native mapper, db_out | none (a function of the block); PostgreSQL rows | map_block_state, db_out | block ordinals | destroyed and recreated accounts, failed transactions, keys spelled in two ways |
| state fold | none | union_storage, observed_fields | rows, base, prefix | deletions across blocks and bases |
| portable files | a directory of pages and manifest.json | export, verify, import | the file system | damage between a checksum and the next opening; limits of writing and reading that differ |
| capacity monitor, process group | samples, events, report | guard, supervise, terminate | a child process group | sampling while others write; a directory replaced and put back; processes that outlive a signal |
| proof capture, PostgreSQL verifier, lifecycle and output diagnostics | a bundle file, a report file | capture-proofs, postgres-verify, lifecycle-updates, native-output | an RPC provider asked by block number, PostgreSQL, run.lock | forks that change between two answers; a sink that commits meanwhile; two commands with one output |
| growth recorder, throughput measurement | qualification rows, a result directory, a sampler thread | growth, measure | no lock (growth); run.lock, a deadline and a cancellation flag (measure) | a generation replaced while it is measured; sink and sampler failing in any order |
| proofs and headers | none | verify_account, verify_code | hashes | cryptography, taken as commitment |
| installer, fixtures, other qualification harnesses, CLI | none that is shared | | | not modelled, see section 8 |

## 2. Plan

Modules, in order of importance; all are done.

1. `PublishedCheckpoints` (abstract) and `CheckpointStore` (detailed), with the refinement.
2. `CheckpointStoreProofs`: its invariants and the refinement.
3. `NativeRun`: the run that feeds a source.
4. `SourceHistory`: what reads and removes a source's blocks. Takes `PublishedCheckpoints`' promise
   as a single step per checkpoint.
5. `BlockState`, `DbOut`: the mapper; `StateFold` (extends `BlockState`): the SQL fold.
6. `ChainTrace` (extends `StateFold`, `DbOut`): composes chain, mapper and fold.
7. `ControlBinding`: why all processes use the same locks, which `CheckpointStore` assumes.
8. `PortableExport`: the files behind the one-step export and import of `CheckpointStore`.
9. `CapacityRun`: the supervised command, its guards and samplers, and the host-bind scan.
10. `StateVerification`: the commands that compare local state with a provider. The throughput
    measurement is part of `NativeRun`, whose run it owns, and the growth recorder of
    `SourceHistory`, whose compaction it races.
11. `NativeRunProofs`, `SourceHistoryProofs`, `ControlBindingProofs`, `CapacityRunProofs`,
    `StateVerificationProofs`, `PortableExportProofs`, `ChainTraceProofs`: the inductive invariant of
    each component and what follows from it.

The type invariants of CheckpointStore and NativeRun (a torn cursor must never be taken for a block)
are properties of a run. The other components' types are the first conjunct of their inductive
invariants, in the module with the proofs.

Each `MC*` module only adds symmetry sets and structured constants to the module it extends.

## 3. Modules and code

**CheckpointStore.** A process is one command. `pc` is its next lock operation or statement and
`job` its local variables. `checkpoints`, `accountRows` and `storageRows` are the three tables;
`pins` and `exports` are files. One action per step: `Build`/`Import` ... `InsertStorage`,
`Verify`, `InsertAccounts`, `Publish`; `Pin`, `LinkPin`, `UnlinkPin`, `Page`, `ReadRows`; `Prune`,
`Plan`, `DropManifest`, `DropAccounts`, `DropStorage`. `Fail` is both an error return and a kill:
locks go, rows stay. A statement in flight may be applied or not; with `Late`, it may be applied
after the client has gone (`Abandon`, `ExecuteStray`).

**PublishedCheckpoints.** A snapshot id is drawn, published once, retired once. Never retired: a
pinned one, or one whose accounts no other checkpoint covers as recently. `ImplementsPublished`
maps `life` from the tables.

**NativeRun.** Files and tables of one state directory; commands `prepare`, `ingest`,
`recover-cursor`; the external sink inserts rows, then the marker, then rewrites `cursor.txt` in
place. A killed wrapper leaves its sink running with the inherited `run.lock`. A process may also be
a throughput measurement: it ingests in a fresh directory with a sampler thread beside it. `harness`
holds the two flags the threads share (`done`, `cancelled`) and what each reported. `StopBounded` is
the supervisor's reaction to the deadline or the flag, `Signal` and `Join` what follows the end of
ingestion, `Report` the result file, which needs both threads' success. The check for a fresh root
and the link of workload.json are one step. A run that is already at its stop returns without an
error, to a measurement as well (`Ingested`).

**SourceHistory.** A folded state is the set of blocks that went into it. `rows` and `markers` are
removed by whole day and month partitions. Locks are taken in the order of the code. The growth
recorder (`StartGrowth`, `MeasureGrowth`, `RereadPointer`, `RecordGrowth`) takes no lock: it reads the
prefix pointer, the parts of the generation it names, and the pointer again, and records only if
nothing moved. A command that times out or dies (`Abandon`, ch.rs:86) gives its locks back and leaves
the write it had sent in `stray`: a DROP PARTITION of a plan, or an INSERT or DROP of a compaction.
`ExecuteStray` applies it at any later time. `spares` is history: the checkpoints that a dead
cleanup's plan took into account, all that were ready, as it held writer.lock. A checkpoint that has
become ready since is not among them, and a late DROP may take its continuation, or blocks that a
build from it has checked and not read yet (`struck`). `ContinuationKept` and `FoldComplete` except
just these; `InitialStateKept`, `CursorBlockKept` and `RecentBlocksKept` hold without exception.

**BlockState, StateFold, DbOut, ChainTrace.** `BlockState` and `StateFold` are pure operators.
`ChainTrace` runs an EVM in miniature (frames, snapshots, CREATE, delegated calls, SELFDESTRUCT
before and after Cancun, EIP-7702 authorizations, failed transactions, system calls, rewards),
records a trace, maps every finished block and compares the fold with the chain's own state.
Ordinals are unique in a block, so "sort by ordinal and take the last" is the maximum. Informational
lifecycle rows and writes of an unchanged value are left out. A trace may give a storage key with or
without its leading zeros (`Trimmed` has the ordinals that give it without). The native mapper pads
a key before it compares it (block_state.rs), so both spellings are one slot there. `db_out`
collapses the changes of a block by the bytes of the trace and pads only the key of the row
(db_out.rs:143-157): a slot spelled in both ways in one block gets two upserts of one row, in the
order of a HashMap, and the earlier ordinal may win. `CurrentState` takes either order, and
`TablesAreCurrent` says nothing of such a slot (`respelled`) until a later block changes it. The
comment at db_out.rs:141 promises the last change by ordinal without this exception; the history
variable marks where the code does not keep that promise. Code runs only in an account that has some
or that is being created (`Executing`): a call to any other account can receive value but writes
nothing and cannot destroy it.

**ControlBinding.** A place is a directory on a machine. Each place has a binding record, an
initialization marker and a recovery sidecar; the database has the ownership table. `Control::open`
is a step per file or statement. `rebind` takes its six nonblocking locks in one step. Legacy
records carry a host name; copies of them are assumed to sit on hosts with another name.

**PortableExport.** One directory, one operation at a time, and a medium that damages files between
any two steps. `CheckFile` and `ReadFile`/`InsertFile` are separate because the code hashes a file
and then opens it again. A checksum stands for the content, a storage root for the slots. Damage
alters a value, cuts off rows, changes a count or loses a file; it never turns a file into other
valid data. Two limits of the code refuse a directory that nobody damaged: `WritePage` stops at
`MaxPages` pages (1,000,000 in export.rs:215), and a file of metadata is not read beyond `MaxJson`
(64 MiB in export.rs:35; `Readable`, `RejectManifest`). The manifest is written without a look at
its size, so an export can succeed and no verification or import accept it. Sizes are counted in
entries of a page; `Bytes` gives the size of the metadata apart from the pages.

**CapacityRun.** The monitor, the command (a leader and its children), the database and two samplers
on one file system. A sample reads the server's directories, then the local ones and the free
space; a changing directory restarts a traversal, and exhausted retries make the sample incomplete.
Guards run in the leader. Children that a successful command leaves behind keep running, as
`complete()` lets them. In mode `host_bind` the server's bytes are read through the host's
directory: the container's mount is probed, the host directory walked and the mount probed again,
while any directory, an earlier one too, may be put at either end (`Move`). A probe compares a
device, an inode and a nonce, so a directory that is put back before the second probe is not told
from one that never left; `returned` is the history of that. A leader that cannot be signalled, or
is still there 10 seconds after SIGKILL, makes `terminate` fail with the group still armed:
`Drop` then waits for it without a limit before anything is reported (process.rs:120-123, 133-139).
A SIGKILL that is delivered ends every member of the group at once, which the code does not wait for.

**StateVerification.** A client is one command; every RPC call is a step, answered by the fork the
provider shows at that moment, and any call may fail. `tables` are PostgreSQL's current rows, which
the sink replaces block by block and a replay of an old range overwrites. A state root is the state
and a storage root the nonzero slots, so `VerifyAccount` and `StorageRootMatches` compare what the
roots commit to. Sampled slots and the diagnostics' touched slots are answers nothing proves; the
header is read again after the last of them. `bundle` and `report` are one path each for all clients,
written by a link that never replaces. `Defects` are wrong values in the source, which a diagnostic
has to notice. Every node agrees on the finalized height, and `native-output` asks for the last block.

## 4. Runs

| run | shows | bounds |
|---|---|---|
| store_safety | builds, pins, unpins, pages and prunes of two commands, failing anywhere, no statement outliving its client (`Late = {}`): ready checkpoints are complete, pins and readers keep their checkpoint, each account keeps its newest height, the newest manifests stay, and consumers see only steps of PublishedCheckpoints | 3 ids, 2 accounts, 2 heights, keep 1 or 2 |
| store_late | with imports, exports and reads too: a page never returns part of an account even when the database applies an abandoned INSERT late, and every command returns although locks are contended | 2 commands, 2 ids, 1 account, one foreign export |
| run_commands | one sink, no gap behind the cursor, no regressed cursor, and the documented retries complete an interrupted run; a measurement ends and its result needs both threads | 2 commands, 3 blocks, stops 3, 4 or none, 2 faults, 1 restore, a measurement to 4 |
| history_keep | compaction, replay, builds, imports and cleanup keep the initial state, the cursor's block, the recent blocks and every ready checkpoint's continuation; folds are complete; a growth record is of one whole generation; all with statements of dead commands applied late | 2 commands, 4 blocks in days of 2 and months of 3, 2 generations, 1 late statement at a time |
| trace_state | the folded rows are the chain's state, and so are the PostgreSQL tables but for slots spelled in two ways | 1 or 2 accounts, 1 slot, depth 2, up to 11 ordinals |
| binding | at most one controller; recovery only when nobody works; interrupted first bindings and recoveries are finished | 2 processes, 2 places in each of four scenarios, a copy, a loss, 1 or 2 faults |
| export_pages | manifests list the whole checkpoint, imports are exact, undamaged directories within the limits are accepted | every storage of 2 accounts over 3 slots, pages of 1 to 3 rows, 5 pages, metadata of 4 entries, 2 damages |
| capacity | "completed" means zero exit and clean samples, the peak covers guards, a stopped command is down, a sample is of the data the container uses unless another directory was put back meanwhile, and the monitor ends what it decided to stop unless the leader survives SIGKILL for ever | 1 byte of disk, 1 child, 1 guard, both modes, 2 directories that are moved at will |
| verification | bundles are of one block, verdicts and reports are true of the block they name, no success loses its output to another command | 2 clients, 2 forks that part after block 1, 2 changes of fork, 1 replay, 2 accounts with 2 slots |

`history_keep`, `trace_state` and `binding` start from a set of workloads (`Workloads`, `Scenarios`):
each behaviour draws one and keeps to the operations, accounts and bounds it names. One run then
covers several mixes of operations without the cost of their product.

Why the bounds are enough: every property above relates at most two commands, one object they
contend for and one that must survive. Two commands give every pair of steps; three ids allow a
kept, a dropped and a new checkpoint; two heights and two accounts allow "newest overall" to differ
from "newest of an account"; days of two and months of three put partition borders of both kinds
between and inside blocks; page sizes from one to three meet full, short and absent last pages. In
NativeRun the stop a supervisor orders is no fault, so two faults still allow a failed sampler and a
killed wrapper in one behaviour; stops below the head and above it both occur. In StateVerification
two changes of fork let the provider leave and come back, the case that a last look at the header
cannot see: `VerdictTrue` and `ReportTrue` say of unproved answers only what holds without a return,
and of proved ones what holds with it. One late statement at a time is enough for SourceHistory, as
no property needs two to fail; the proofs allow any number. Five pages and four entries of metadata
lie between the smallest and the largest export (0 to 6 pages), so each limit is met and not met.
A directory of CapacityRun needs two values to leave and to return.

`store_safety` covers commands that end with their statements. That a later prune collects what a
dead publication or prune left, and what late statements do to the store, is not its subject:
`store_late` has late statements, and `late_drop_loses_pin` shows what they break.

`CHECK_DEADLOCK FALSE` everywhere: commands end and bounds run out, so a final state is normal.

Runs that show a disagreement (`expect: violation`):

* **late_drop_loses_pin**: a DROP PARTITION whose client timed out removes a checkpoint pinned since.
  An abandoned manifest INSERT, for the same reason, can land after a prune collected the
  candidate's rows; `store_late` reaches that state, where a page still refuses the account.
* **run_prepare**: a kill between CREATE TABLE `_evm_state_run` and its INSERT leaves an empty table
  that every retry refuses. `Control::open` has the same window between its CREATE and INSERT
  (control.rs:79); `Opens` excludes that state.
* **history_replay_stop**: a replay may report a prefix past its exclusive stop when another ingest
  moves the cursor between the replay's look at it and its compaction.

## 5. Fairness

* CheckpointStore: weak fairness of a running command's steps (it is scheduled, and each request
  ends within the client's timeout); strong fairness of the blocking `readers.lock`, which the
  kernel grants when it is free again and again; a step whose check fails returns.
* NativeRun: weak fairness of commands and of the sink; strong fairness of the operator's documented
  retry (ingest again, or recover the cursor first). Faults are finitely many.
* ControlBinding: weak fairness of processes, strong fairness of repeated opens, weak fairness of the
  documented procedure (stop the pair, then rebind).
* NativeRun, measurement: weak fairness of the supervisor's stop (it polls the deadline and the flag)
  and of the sampler's loop, which checks the flag on every turn. The deadline makes the stop
  possible at any time, so `MeasureEnds` does not depend on the sink's own progress.
* StateVerification has no fairness and no liveness property: a command is a straight line of calls,
  each answered or ended by the client's timeout of 60 seconds.
* CapacityRun: weak fairness of the monitor and its sampler only; nothing is assumed of the command.
  `Stops` therefore excepts a leader that outlives SIGKILL for ever (`Blocked`): `OwnedGroup::drop`
  waits for it without a limit, and no report is written.

## 6. Proofs

Every theorem is for all values of the constants that satisfy the `ASSUME` of the module it is
about; TLC evaluates that assumption on the instance of each run. The assumptions say that numbers
are numbers, that `None` is none of the values it stands beside, and what the command line accepts
(a stop after the start, a budget above its headroom, at least one slot per request). Each invariant
below was checked by TLC on the bounds of the component's run before it was proved.

**CheckpointStore** (any number of commands, ids, accounts, heights and times).

* `TypeCorrect`: `Spec => []TypeOK`, late statements included. `TypeInv` adds `JobOK`: what a
  process's local variables hold at each step, which the statements' types need.
* `StoreInvariant`: `Spec => []StoreInv`, where `StoreInv` is `TypeInv /\ LockInv /\ DataInv`.
  `LockInv` says which lock each step holds and that an exclusive reader lock excludes shared ones.
  `DataInv` says that undrawn ids have no rows, ready ids are complete, pinned ids are ready, and what
  each running command may rely on (`ProcInv`): a publisher owns its candidate, a reader's id stays
  ready, a prune's plan spares pins. ReadyComplete alone is not inductive: a publication is complete
  only because nobody else touches the candidate, and a drop is harmless only because the plan was
  made under locks that the dropping process still holds.
* `PublishedIsComplete`, `PinsProtect`, `InUseIsStable` follow from `StoreInv`.
* `HeightIsKept`: `FullInv` adds that a prune's plan leaves a checkpoint at least as recent for every
  account. `PlanSpares` derives it from the keep rules.
* `RecentOnesAreKept`: `RecentInv` adds to `FullInv` that only finitely many ids were drawn, and that a
  running prune left, for each victim that is still ready, `keep` others that are not older and that
  it will not drop (`KeepInv`). When the plan is made, these are the first ids of the listing, whatever
  order the database gives equal manifests (`FirstOnes`).
* `StoreImplementsPublished`: initial states map to initial states, and each step to an abstract step
  or a stutter.
* `LateInvariant`, `ReadsAreNeverTorn`: `NoTornRead` for every `Late`. With statements in flight a
  ready checkpoint may lose its rows, so `StoreInv` fails; what still holds is an order. `Offered`
  names the ids a reader can meet: ready, about to be ready through a late manifest, or loaded by a
  reader before. For them no INSERT of rows is in flight, and no statement removes storage rows
  before the account rows are gone (`OfferedInv`), because a publisher waits for each answer and gives
  its candidate up when one is missing (`OwnInv`), and a prune drops the account rows first.

`StoreInv`, `FullInv` and `RecentInv`, and what follows from them, assume `Late = {}`: no statement
outlives its client. The run late_drop_loses_pin shows that they need it.

**NativeRun** (any number of commands, blocks, faults and restores). `RunInvariant` with
`RunInv == TypeOK /\ LockInv /\ MeasureInv /\ DataInv`.

* `OneSinkAtATime` rests on `LockInv`: whoever has a sink, an orphaned one too, still holds run.lock.
* `NoGapBehindSink` and `BackupNeverAhead` need `SinkInv`, which relates a running sink's position and
  step to both tables, the cursor and the backup, and `SpawnInv`: what admission checked is still true
  when the sink starts, since nobody else can hold the lock in between. The tables are closed
  downwards whatever is killed or restored.
* `ThroughputResultWhole` needs `MeasureInv`: the root is fresh once, so no second measurement can
  write the flags the first one waits for.

**SourceHistory** (any number of commands, blocks, generations, any partition sizes).
`HistoryInvariant` with `HistoryInv == TypeInv /\ LockInv /\ RestInv` and, for each command, what it
was asked for (`JobInv`) and what its step established (`StepInv`).

* `InitialStateIsKept`, `CursorBlockIsKept`: `CompactInv` follows a fold from the plan to the pointer:
  the new generation is not the committed one, holds every block up to its end before its manifest
  is written, and only then replaces the pointer. `DropInv` says that every block of a planned
  partition is expendable; it stays true because the sink needs run.lock and adds later blocks only.
* `StrayInv` says what a statement of a dead command may still do, at any later time. A generation
  with an INSERT or a DROP in flight is not the committed one. A partition with a DROP in flight is behind the
  cursor's backup, and each block left in it is `Spent`: the committed prefix covers it, or it is older
  than the blocks to keep and every checkpoint of the cleanup's plan covers it. Cursor, backup and
  prefix only move forward and new blocks go to later partitions, so a spent block stays spent.
* `FoldsAreComplete`: `FoldInv` says that base, prefix and stored blocks meet after `Validate`. A
  compaction cannot move the prefix meanwhile, as both hold writer.lock. The exception `struck` is a
  late DROP of a cleanup whose plan did not know the base of the build.
* `GrowthIsWhole`: the recorder holds no lock. `GrowthInv` says that pointers only move forward, so a
  pointer that reads the same twice named one generation all the time.
* `ContinuationIsKept`, `RecentBlocksAreKept` are action properties from `DropInv` and, for late
  statements, `StrayInv`: a checkpoint that the dead cleanup knew of (`spares`) keeps its
  continuation, a younger one may lose it, and the last blocks stay in any case. That a block
  before the cut-off lies in a partition before it is a lemma on division.

**ControlBinding** (any number of processes, machines, directories, copies, losses, kills and late
statements). `BindingInvariant` with `BindingInv == TypeInv /\ HostInv /\ HomeInv /\ OwnerInv /\ RebindInv`.

* `OneControllerOnly`: every record has one home (`HomeOf`), the check of `Control::open` passes only
  there, and the first row of the ownership table stays first although several inserts may land
  (`OwnerInv`). So every opened place is the home of one and the same record.
* `RecoveryIsQuiet`, an action property, from `RebindInv`. `HostInv` is what the documented premises
  give: a legacy name belongs to the original machine, and a sidecar is written nowhere else.

**CapacityRun** (any disk, policy, directories, number of children, guard samples and moves).
`MonitorInvariant` with `MonitorInv == TypeInv /\ SampleInv /\ ProcessInv /\ RecordInv /\ SummaryInv`
gives `SamplesMeasureData`, `CompletedMeansClean`, `PeakCoversRecord` and `StoppedMeansDown`. A walk of
the wrong directory is only possible while path and mount differ. Then the second probe does not
see what the first one saw, unless a move has put it back since (`SampleInv`, `ProbeSeen`); that a
foreign directory which left before the second probe is counted unnoticed is in the statement of
`MeasuresData`, not outside it. A rejected sample leaves either the
monitor's reasons or an event for the summary to find (`RecordInv`).

**StateVerification** (any chain of forks, any number of commands, accounts, slots and failovers).
`VerifierInvariant` with `VerifierInv`, which holds of every command what its answers have established
(`ProofInv`, `VerdictInv`, `SourceInv`, `SampleInv`) and of the two files what the properties say. It
gives `BundlesAreSound`, `SuccessStaysOnDisk`, `VerdictsAreTrue`, `ReportsAreTrue`. The argument for
unproved answers is `SampleInv` with `ViewInv`: an answer is right, or the provider is on another fork
now, which the last look at the header sees, or it changed forks twice.

**PortableExport** (any accounts, storage, page sizes and any number of damaged files).
`DirectoryInvariant` with `ExportInv == TypeInv /\ StepInv /\ LimitInv /\ ChainInv /\ DecayInv /\
ReadInv /\ ManifestInv /\ CleanInv /\ ImportExact`.

* `ManifestsAreComplete`: `ChainInv` says that the pages of the layout cut the accounts' rows one after
  the other: a page begins where the pages before it ended (`Held`). So every row is in the first page
  that holds as many rows of its account (`PagesCover`). That the checksums are of the right content
  is not known until the directory was read back: a file may be damaged before `HashPage` takes its
  checksum. `DecayInv` orders a page, its checksum and its file now, as damage never gives a row
  back; a whole page that reads back without an altered row therefore had a right checksum
  (`WholePage`), and an altered row cannot pass the account's storage root (`VerifiedWhole`).
* `ImportsAreExact` needs nothing of the files: the rows read back from the database have the proven
  storage roots (`PublishedWhole`), and as many as declared (`RowCount`).
* `UndamagedIsAccepted`: `CleanInv` says that what was read or inserted so far is the first
  `Held` rows of each account, so no check can fail (`NeverFailing`, `NeverStoredWrong`) but for the
  two limits. `LimitInv` counts: a layout has as many pages as were begun, a complete one
  `PagesNeeded`, which the checkpoint and the page size alone decide. So a refusal of undamaged files
  means that the checkpoint exceeds a limit in this page size (`WithinLimits`), and nothing else.

**ChainTrace, StateFold, DbOut** (any accounts and slots, any selection of them, any initial state, any
depth of calls, any number of calls, transactions and blocks). `TraceInvariant` with
`TraceInv == TypeInv /\ BlockInv /\ IdleInv /\ TxInv /\ StateInv`.

* `StateInv` is the heart: until the mapper refuses a block, the chain's state is the last block's
  state with the effective changes and the deletions collected so far applied by ordinal
  (`Reflects`). It is not inductive alone, because a revert brings back an earlier state. `WorldInv`
  therefore says the same of the state every open frame would return to, with the changes of the
  calls before it (`LiveBelow`).
* `TxInv` holds what persist.rs and lifecycle.rs read off a finished trace while it is being made.
  `FramesInv`: open calls were made one by the other and are neither reverted nor destroyed. `RootInv`:
  in the root call, what survives a failed transaction (gas, the sender's nonce, authorizations) can be
  told from what its execution did. `FateInv`: the accounts the chain created and will delete are those
  the calls in force name, through delegations (`ExecutionAddress`). An account that destroyed itself
  is not one CREATE can use, or a deletion at the end of the transaction would hit its successor. This
  needs the guard `Executing`.
* `EndTx` and `EndBlock` turn these into what the mapper returns: a row is the difference between two
  states (`Describes`), whatever was rejected, deleted or recreated in between.
* `FoldsAreTheState`: `FieldStep` and `StorageStep` say that one more row takes the fold of the rows so
  far from one block's state to the next, on any base; then by steps of the specification, one per
  block. `TablesStayCurrent`: the same for one upsert and the tables (`UpsertStep`), for every choice
  of `Trimmed` ordinals and either order of the two upserts of a respelled slot. What it says of a
  slot holds again after the next block that spells the slot in one way.

The recursive `ExecutionAddress` is a function over the calls of a transaction; `IsExec` carries its
recursion equation as an invariant, so no induction over data is left to the provers.

Only model-checked: liveness (`Returns`, `Completes`, `MeasureEnds`, `Recovers`, `Opens`, `Stops`),
because fairness is outside the prover's reach. Every invariant and every action property of the
passing runs is proved.

## 7. Mutants

Every property of a passing run has a mutant: an operator defined just before the definition it
replaces and marked "Mutant of", with one plausible bug in it, which TLC must find.

## 8. Not modelled

* Cryptography, RLP and the Merkle trie: a hash stands for its data. JSON and row decoding.
* The installer: a download, a checksum and one rename, with no second actor.
* The synthetic harnesses (aggregation, trie, read, capacity stress, onboarding), the `captured`
  fixture command, throughput summaries, the native stream fixture and the argument parser. They
  drive operations modelled here one after the other, or time a query.
* In the mapper: the refusal of SELFDESTRUCT in system calls, and db_out going on where
  map_block_state alone refuses a block. Parameter parsing.
* In portable files: damage to manifest.json itself.
* In the history: an INSERT of the sink that is applied after the sink died. The sink is external and
  its retry policy is not in the repository.
* In the monitor: members of the group that are still dying after a SIGKILL that was delivered;
  guards run by children, and the attribution of bytes to components.
* In the verifier: nodes that disagree on the finalized height; the psql process.
