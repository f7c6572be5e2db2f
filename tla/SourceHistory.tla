--------------------------- MODULE SourceHistory ---------------------------
(***************************************************************************)
(* The block history of one guarded source and everything that reads or    *)
(* removes it: ingestion appends blocks, compaction folds a prefix of them *)
(* into a private generation (bootstrap.rs), checkpoint builds read them   *)
(* (checkpoint.rs), history cleanup drops partitions the checkpoints no    *)
(* longer need (history.rs), and replay alternates ingestion and           *)
(* compaction.  The growth recorder (qualification.rs) measures the        *)
(* committed generation without any lock.  A command may die or time out   *)
(* while the database still works on its statement, which then takes       *)
(* effect when the locks are long free.                                    *)
(*                                                                         *)
(* A folded state is the set of blocks whose changes went into it.  The    *)
(* checkpoint store keeps its own promises (PublishedCheckpoints): here a  *)
(* checkpoint of the source's accounts is published, imported or retired   *)
(* in one step.                                                            *)
(***************************************************************************)
EXTENDS Integers, FiniteSets, FiniteSetsExt

CONSTANTS
    Procs,          \* evm-state commands
    StartBlock,     \* first block of the run
    Head,           \* bound: highest finalized block
    DaySize,        \* blocks per state_blocks partition
    MonthSize,      \* blocks per _blocks_ partition
    KeepBlocks,     \* the values of --keep-blocks
    Stops,          \* the values of --stop-block (exclusive)
    ChunkSize,      \* --chunk-blocks of a replay
    Foreign,        \* the blocks of importable exports of these accounts
    Gens,           \* generation ids new_id can return
    MaxStray,       \* bound: statements that nobody waits for at a time
    Workloads,      \* bound: the sets of operations and faults that come together
    None            \* the absent value

Blocks == StartBlock..Head
AllOps == {"ingest", "compact", "cleanup", "build", "replay", "import", "retire",
           "growth", "abandon"}

ASSUME HistoryAssumption ==
    /\ StartBlock \in Nat \ {0} /\ Head \in Nat
    /\ DaySize \in Nat \ {0} /\ MonthSize \in Nat \ {0}
    /\ KeepBlocks \subseteq Nat \ {0}
    /\ Stops \subseteq (StartBlock + 1)..(Head + 1)
    /\ ChunkSize \in Nat \ {0} /\ Foreign \subseteq Blocks /\ MaxStray \in Nat
    /\ Workloads \subseteq SUBSET AllOps
    /\ None \notin Procs \cup Blocks \cup Gens \cup KeepBlocks
    /\ None \notin [gen : Gens, number : Blocks] \cup [number : Blocks, native : BOOLEAN]

VARIABLES
    rows, markers,  \* blocks in state_blocks and _blocks_
    cursor,         \* cursor.txt
    progress,       \* durable_progress.json
    storage,        \* bootstrap_storage: blocks folded into each generation
    manifests,      \* bootstrap_generations: last block of each generation
    pointer,        \* bootstrap.json: a generation and its last block, or None
    checkpoints,    \* ready checkpoints that cover the source's accounts
    writer,         \* holder of the controller's writer.lock
    run,            \* holder of run.lock
    shared,         \* shared holders of source_readers.lock
    exclusive,      \* exclusive holder of source_readers.lock
    replaying,      \* holder of bootstrap_replay.lock
    pc, job,        \* each command's position and local variables
    returned,       \* last block of the prefix the last replay returned, and its stop
    ops,            \* the workload: operations that users start, abandoned statements
    recorded,       \* last line of the growth log: the pointer it is about
    stray           \* statements in flight whose client is gone

history == <<rows, markers>>
position == <<cursor, progress>>
prefix == <<storage, manifests, pointer>>
locks == <<writer, run, shared, exclusive, replaying>>
local == <<pc, job>>
vars == <<rows, markers, cursor, progress, storage, manifests, pointer, checkpoints,
          writer, run, shared, exclusive, replaying, pc, job, returned, ops, recorded, stray>>

NoJob == [op |-> None, stop |-> None, next |-> None, end |-> None, base |-> None,
          from |-> None, keep |-> None, gen |-> None, days |-> {}, months |-> {},
          covers |-> {}, struck |-> FALSE]

Init ==
    /\ rows = {} /\ markers = {} /\ cursor = None /\ progress = None
    /\ storage = [g \in Gens |-> {}] /\ manifests = [g \in Gens |-> None]
    /\ pointer = None /\ checkpoints = {}
    /\ writer = None /\ run = None /\ shared = {} /\ exclusive = None /\ replaying = None
    /\ pc = [p \in Procs |-> "idle"] /\ job = [p \in Procs |-> NoJob]
    /\ returned = None /\ ops \in Workloads /\ recorded = None
    /\ stray = {}

Goto(p, step) == pc' = [pc EXCEPT ![p] = step]
Free(lock, p) == IF lock = p THEN None ELSE lock

\* The source and controller locks of a command, dropped when its operation ends.
Unlock(p) == /\ writer' = Free(writer, p) /\ run' = Free(run, p)
             /\ shared' = shared \ {p} /\ exclusive' = Free(exclusive, p)

\* The command ends, with or without an error, or is killed.
Return(p) == /\ Goto(p, "idle")
             /\ job' = [job EXCEPT ![p] = NoJob]
             /\ Unlock(p) /\ replaying' = Free(replaying, p)

\* An operation of its own ends its command; a replay goes on with `step`.
Finish(p, step) ==
    IF job[p].op # "replay" THEN Return(p)
    ELSE Goto(p, step) /\ Unlock(p) /\ UNCHANGED <<job, replaying>>

Day(n) == n \div DaySize
Month(n) == n \div MonthSize

\* partitions_before: the whole partitions whose last stored block is below.
PartitionsBefore(table, size, before) ==
    {d \in {n \div size : n \in table} : \A n \in table : n \div size = d => n < before}

Backed(n) == n \in rows \cap markers

\* load_prefix: the generation the pointer names is stored whole.
PrefixValid == pointer # None =>
    /\ manifests[pointer.gen] = pointer.number
    /\ storage[pointer.gen] = StartBlock..pointer.number

----------------------------------------------------------------------------
(* Ingestion (NativeRun has its detail)                                     *)

StartIngest(p) ==
    /\ pc[p] = "idle" /\ "ingest" \in ops
    /\ \E stop \in Stops :
          job' = [job EXCEPT ![p] = [NoJob EXCEPT !.op = "ingest", !.stop = stop, !.end = stop]]
    /\ Goto(p, "runLock")
    /\ UNCHANGED <<history, position, prefix, checkpoints, locks, returned, ops, recorded, stray>>

\* run.lock without waiting, then the cursor is checked and backed up; it may
\* not be past the requested stop.
AdmitIngest(p) ==
    /\ pc[p] = "runLock"
    /\ run = None
    /\ IF rows # {}
       THEN /\ cursor # None /\ Backed(cursor) /\ cursor <= job[p].end - 1
            /\ progress # None => Backed(progress) /\ progress <= cursor
       ELSE cursor = None /\ progress = None
    /\ run' = p
    /\ progress' = cursor
    /\ Goto(p, IF cursor = job[p].end - 1 THEN "ingested" ELSE "sink")
    /\ UNCHANGED <<history, cursor, prefix, checkpoints, writer, shared, exclusive,
                   replaying, job, returned, ops, recorded, stray>>

\* The sink stores the next block with its marker and moves the cursor.
Sink(p) ==
    /\ pc[p] = "sink"
    /\ LET n == IF cursor = None THEN StartBlock ELSE cursor + 1 IN
          /\ n < job[p].end
          /\ rows' = rows \cup {n} /\ markers' = markers \cup {n}
          /\ cursor' = n
    /\ UNCHANGED <<progress, prefix, checkpoints, locks, local, returned, ops, recorded, stray>>

\* The sink has reached its stop: the final cursor is backed up.
Ingested(p) ==
    /\ \/ pc[p] = "ingested"
       \/ pc[p] = "sink" /\ cursor = job[p].end - 1
    /\ progress' = cursor
    /\ Finish(p, "next")
    /\ UNCHANGED <<history, cursor, prefix, checkpoints, returned, ops, recorded, stray>>

----------------------------------------------------------------------------
(* SourceWriter::open: the writer of compaction and history cleanup         *)

StartCompact(p) ==
    /\ pc[p] = "idle" /\ "compact" \in ops
    /\ \E end \in Blocks \cup {None} :
          job' = [job EXCEPT ![p] = [NoJob EXCEPT !.op = "compact", !.end = end]]
    /\ Goto(p, "open")
    /\ UNCHANGED <<history, position, prefix, checkpoints, locks, returned, ops, recorded, stray>>

StartCleanup(p) ==
    /\ pc[p] = "idle" /\ "cleanup" \in ops
    /\ \E keep \in KeepBlocks, c \in checkpoints :
          /\ c.native
          /\ job' = [job EXCEPT ![p] = [NoJob EXCEPT !.op = "cleanup", !.keep = keep,
                                                    !.base = c]]
    /\ Goto(p, "open")
    /\ UNCHANGED <<history, position, prefix, checkpoints, locks, returned, ops, recorded, stray>>

\* Publisher lock, run.lock, then source_readers.lock, none of them waited for.
TakePublisher(p) ==
    /\ pc[p] \in {"open", "build"}
    /\ writer = None
    /\ writer' = p
    /\ Goto(p, IF pc[p] = "open" THEN "openRun" ELSE "buildShared")
    /\ UNCHANGED <<history, position, prefix, checkpoints, run, shared, exclusive,
                   replaying, job, returned, ops, recorded, stray>>

TakeRun(p) ==
    /\ pc[p] = "openRun"
    /\ run = None
    /\ run' = p
    /\ Goto(p, "openExclusive")
    /\ UNCHANGED <<history, position, prefix, checkpoints, writer, shared, exclusive,
                   replaying, job, returned, ops, recorded, stray>>

TakeExclusive(p) ==
    /\ pc[p] = "openExclusive"
    /\ shared = {} /\ exclusive = None
    /\ exclusive' = p
    /\ Goto(p, IF job[p].op = "cleanup" THEN "planCleanup" ELSE "planCompact")
    /\ UNCHANGED <<history, position, prefix, checkpoints, writer, run, shared,
                   replaying, job, returned, ops, recorded, stray>>

\* SourceWriter::progress: the backup has its data and equals the cursor.
Settled == progress # None /\ Backed(progress) /\ cursor = progress

----------------------------------------------------------------------------
(* Compaction: bootstrap::compact_locked                                    *)

\* require_initial, the range within durable progress, an intact prefix that
\* ends before it, and every block after that prefix.  A prefix that already
\* ends there only has its cleanup finished.
PlanCompact(p) ==
    /\ pc[p] = "planCompact"
    /\ checkpoints = {}
    /\ Settled
    /\ LET end == IF job[p].op = "replay" \/ job[p].end = None THEN progress ELSE job[p].end
           from == IF pointer = None THEN StartBlock ELSE pointer.number + 1
           again == pointer # None /\ pointer.number = end
       IN  /\ end <= progress /\ end \in rows
           /\ PrefixValid /\ from <= end + 1
           /\ from..end \subseteq rows
           /\ job' = [job EXCEPT ![p].end = end, ![p].from = from,
                                 ![p].gen = IF again THEN pointer.gen ELSE None]
           /\ Goto(p, IF again THEN "planDrop" ELSE "dropOld")
    /\ UNCHANGED <<history, position, prefix, checkpoints, locks, returned, ops, recorded, stray>>

\* Mutant of Kept: the previous generation goes before the new one is committed.
KeptNone(p) == IF pc[p] = "dropOld" THEN {} ELSE {job[p].gen}

\* Generations other than the one to keep go, manifests first.
Kept(p) == IF pc[p] = "dropOld" THEN (IF pointer = None THEN {} ELSE {pointer.gen})
           ELSE {job[p].gen}
Old(p) == {g \in Gens \ Kept(p) : manifests[g] # None \/ storage[g] # {}}

DropOldGeneration(p) ==
    /\ pc[p] \in {"dropOld", "dropRest"}
    /\ \E g \in Old(p) :
          IF manifests[g] # None
          THEN manifests' = [manifests EXCEPT ![g] = None] /\ UNCHANGED storage
          ELSE /\ \A h \in Old(p) : manifests[h] = None
               /\ storage' = [storage EXCEPT ![g] = {}] /\ UNCHANGED manifests
    /\ UNCHANGED <<history, position, pointer, checkpoints, locks, local, returned, ops, recorded, stray>>

\* An id new_id can return: nothing bears it, stored or about to be.
Dropping == {"dropDay", "dropMonth"}
Fresh(g) == /\ manifests[g] = None /\ storage[g] = {}
            /\ \A s \in stray : s.do \notin Dropping => s.of # g

\* Mutant of FoldPrefix: the previous prefix is left out of the fold.
FoldNoPrefix(p) ==
    /\ pc[p] = "dropOld" /\ Old(p) = {}
    /\ \E g \in Gens :
          /\ Fresh(g)
          /\ job' = [job EXCEPT ![p].gen = g]
    /\ Goto(p, "foldBlocks")
    /\ UNCHANGED <<history, position, prefix, checkpoints, locks, returned, ops, recorded, stray>>

\* The fold of the previous prefix and the blocks after it is inserted under a
\* new generation, and may be interrupted between the two.
FoldPrefix(p) ==
    /\ pc[p] = "dropOld" /\ Old(p) = {}
    /\ \E g \in Gens :
          /\ Fresh(g)
          /\ storage' = [storage EXCEPT ![g] =
                            IF pointer = None THEN {} ELSE storage[pointer.gen]]
          /\ job' = [job EXCEPT ![p].gen = g]
    /\ Goto(p, "foldBlocks")
    /\ UNCHANGED <<history, position, manifests, pointer, checkpoints, locks, returned, ops, recorded, stray>>

FoldBlocks(p) ==
    /\ pc[p] = "foldBlocks"
    /\ storage' = [storage EXCEPT ![job[p].gen] =
                      @ \cup ((job[p].from..job[p].end) \cap rows)]
    /\ Goto(p, "genManifest")
    /\ UNCHANGED <<history, position, manifests, pointer, checkpoints, locks, job, returned, ops, recorded, stray>>

\* The generation's manifest row, then the pointer file, replaced atomically.
InsertGeneration(p) ==
    /\ pc[p] = "genManifest"
    /\ manifests' = [manifests EXCEPT ![job[p].gen] = job[p].end]
    /\ Goto(p, "commit")
    /\ UNCHANGED <<history, position, storage, pointer, checkpoints, locks, job, returned, ops, recorded, stray>>

CommitPointer(p) ==
    /\ pc[p] = "commit"
    /\ pointer' = [gen |-> job[p].gen, number |-> job[p].end]
    /\ Goto(p, "planDrop")
    /\ UNCHANGED <<history, position, storage, manifests, checkpoints, locks, job, returned, ops, recorded, stray>>

\* Mutant of PlanDrop: the partition of the prefix's last block goes too.
PlanDropLast(p) ==
    /\ pc[p] = "planDrop"
    /\ PrefixValid
    /\ job' = [job EXCEPT ![p].days = PartitionsBefore(rows, DaySize, job[p].end + 1),
                          ![p].months = PartitionsBefore(markers, MonthSize, job[p].end + 1)]
    /\ Goto(p, "drop")
    /\ UNCHANGED <<history, position, prefix, checkpoints, locks, returned, ops, recorded, stray>>

\* The committed prefix is read back; only then are the partitions it covers
\* dropped, all but the one with its last block.
PlanDrop(p) ==
    /\ pc[p] = "planDrop"
    /\ PrefixValid
    /\ job' = [job EXCEPT ![p].days = PartitionsBefore(rows, DaySize, job[p].end),
                          ![p].months = PartitionsBefore(markers, MonthSize, job[p].end)]
    /\ Goto(p, "drop")
    /\ UNCHANGED <<history, position, prefix, checkpoints, locks, returned, ops, recorded, stray>>

----------------------------------------------------------------------------
(* History cleanup: history::cleanup                                        *)

\* Mutants of PlanCleanup: only the named checkpoint protects history, and one
\* recent block too few is kept.
PlanCleanupOwn(p) ==
    /\ pc[p] = "planCleanup"
    /\ job[p].base \in checkpoints
    /\ Settled
    /\ progress >= job[p].base.number
    /\ LET before == Min({job[p].base.number + 1, Max({progress - (job[p].keep - 1), 0})})
       IN  job' = [job EXCEPT ![p].days = PartitionsBefore(rows, DaySize, before),
                              ![p].months = PartitionsBefore(markers, MonthSize, before)]
    /\ Goto(p, "drop")
    /\ UNCHANGED <<history, position, prefix, checkpoints, locks, returned, ops, recorded, stray>>
PlanCleanupOneLess(p) ==
    /\ pc[p] = "planCleanup"
    /\ job[p].base \in checkpoints
    /\ Settled
    /\ progress >= job[p].base.number
    /\ LET floor == Min({c.number : c \in checkpoints})
           before == Min({floor + 1, progress - job[p].keep + 2})
       IN  job' = [job EXCEPT ![p].days = PartitionsBefore(rows, DaySize, before),
                              ![p].months = PartitionsBefore(markers, MonthSize, before)]
    /\ Goto(p, "drop")
    /\ UNCHANGED <<history, position, prefix, checkpoints, locks, returned, ops, recorded, stray>>

\* The cutoff keeps what every ready checkpoint needs to be continued and the
\* last `keep` blocks.
PlanCleanup(p) ==
    /\ pc[p] = "planCleanup"
    /\ job[p].base \in checkpoints
    /\ Settled
    /\ progress >= job[p].base.number
    /\ LET floor == Min({c.number : c \in checkpoints})
           before == Min({floor + 1, Max({progress - (job[p].keep - 1), 0})})
       IN  job' = [job EXCEPT ![p].days = PartitionsBefore(rows, DaySize, before),
                              ![p].months = PartitionsBefore(markers, MonthSize, before)]
    /\ Goto(p, "drop")
    /\ UNCHANGED <<history, position, prefix, checkpoints, locks, returned, ops, recorded, stray>>

\* One partition at a time, block rows before markers.
DropDay(p) ==
    /\ pc[p] = "drop"
    /\ \E d \in job[p].days :
          /\ rows' = {n \in rows : Day(n) # d}
          /\ job' = [job EXCEPT ![p].days = @ \ {d}]
    /\ UNCHANGED <<markers, position, prefix, checkpoints, locks, pc, returned, ops, recorded, stray>>

DropMonth(p) ==
    /\ pc[p] = "drop" /\ job[p].days = {}
    /\ \E m \in job[p].months :
          /\ markers' = {n \in markers : Month(n) # m}
          /\ job' = [job EXCEPT ![p].months = @ \ {m}]
    /\ UNCHANGED <<rows, position, prefix, checkpoints, locks, pc, returned, ops, recorded, stray>>

Dropped(p) ==
    /\ pc[p] = "drop" /\ job[p].days = {} /\ job[p].months = {}
    /\ IF job[p].op = "cleanup" THEN Settled /\ Return(p)
       ELSE Goto(p, "dropRest") /\ UNCHANGED <<job, locks>>
    /\ UNCHANGED <<history, position, prefix, checkpoints, returned, ops, recorded, stray>>

Compacted(p) ==
    /\ pc[p] = "dropRest" /\ Old(p) = {}
    /\ Settled
    /\ Finish(p, "compacted")
    /\ UNCHANGED <<history, position, prefix, checkpoints, returned, ops, recorded, stray>>

----------------------------------------------------------------------------
(* Replay: bootstrap::replay                                                *)

\* The run is prepared, the replay lock free, and no checkpoint of these
\* accounts there yet.
StartReplay(p) ==
    /\ pc[p] = "idle" /\ "replay" \in ops
    /\ run = None /\ replaying = None /\ writer = None
    /\ checkpoints = {}
    /\ replaying' = p
    /\ \E stop \in Stops :
          job' = [job EXCEPT ![p] = [NoJob EXCEPT !.op = "replay", !.stop = stop]]
    /\ Goto(p, "next")
    /\ UNCHANGED <<history, position, prefix, checkpoints, writer, run, shared,
                   exclusive, returned, ops, recorded, stray>>

Chunk(p, next) == Min({next + ChunkSize, job[p].stop})

\* Under run.lock, held for this step only, the cursor is backed up.  Without
\* a cursor the first chunk is ingested, otherwise what there is is compacted.
NextChunk(p) ==
    /\ pc[p] = "next"
    /\ IF cursor = None
       THEN /\ job' = [job EXCEPT ![p].next = StartBlock, ![p].end = Chunk(p, StartBlock)]
            /\ Goto(p, "runLock")
            /\ UNCHANGED progress
       ELSE /\ run = None /\ Backed(cursor)
            /\ cursor + 1 <= job[p].stop
            /\ progress' = cursor
            /\ job' = [job EXCEPT ![p].next = cursor + 1]
            /\ Goto(p, "open")
    /\ UNCHANGED <<history, cursor, prefix, checkpoints, locks, returned, ops, recorded, stray>>

ChunkCompacted(p) ==
    /\ pc[p] = "compacted"
    /\ IF job[p].next = job[p].stop
       THEN /\ returned' = [number |-> job[p].end, stop |-> job[p].stop]
            /\ Return(p)
       ELSE /\ job' = [job EXCEPT ![p].end = Chunk(p, job[p].next)]
            /\ Goto(p, "runLock")
            /\ UNCHANGED <<locks, returned>>
    /\ UNCHANGED <<history, position, prefix, checkpoints, ops, recorded, stray>>

----------------------------------------------------------------------------
(* Checkpoints of the source's accounts                                     *)

\* A build of `end` on a base, or from the start of the run.
StartBuild(p) ==
    /\ pc[p] = "idle" /\ "build" \in ops
    /\ \E base \in checkpoints \cup {None}, end \in Blocks :
          job' = [job EXCEPT ![p] = [NoJob EXCEPT !.op = "build", !.base = base, !.end = end]]
    /\ Goto(p, "build")
    /\ UNCHANGED <<history, position, prefix, checkpoints, locks, returned, ops, recorded, stray>>

\* verified_source: source_readers.lock, shared and blocking.
TakeShared(p) ==
    /\ pc[p] = "buildShared"
    /\ exclusive = None
    /\ shared' = shared \cup {p}
    /\ Goto(p, "validate")
    /\ UNCHANGED <<history, position, prefix, checkpoints, writer, run, exclusive,
                   replaying, job, returned, ops, recorded, stray>>

\* Durable progress reaches the target; the base is ready and older; the
\* compacted prefix is used if the range starts with it, and refused if the
\* range starts inside it; every block of the remaining interval is stored.
Validate(p) ==
    /\ pc[p] = "validate"
    /\ progress # None /\ Backed(progress) /\ progress >= job[p].end
    /\ job[p].base # None =>
          job[p].base \in checkpoints /\ job[p].base.number < job[p].end
    /\ LET start == IF job[p].base = None THEN StartBlock ELSE job[p].base.number + 1
           used == pointer # None /\ start <= pointer.number
           from == IF used THEN pointer.number + 1 ELSE start
       IN  /\ PrefixValid
           /\ used => start = StartBlock /\ pointer.number <= job[p].end
           /\ from..job[p].end \subseteq rows
           /\ job' = [job EXCEPT ![p].from = from,
                        ![p].gen = IF used THEN pointer.gen ELSE None]
    /\ Goto(p, "fold")
    /\ UNCHANGED <<history, position, prefix, checkpoints, locks, returned, ops, recorded, stray>>

\* The INSERT that folds base, prefix and blocks into the candidate.
Fold(p) ==
    /\ pc[p] = "fold"
    /\ LET base == IF job[p].base = None THEN {} ELSE StartBlock..job[p].base.number
           compacted == IF job[p].gen = None THEN {} ELSE storage[job[p].gen]
           blocks == (job[p].from..job[p].end) \cap rows
       IN  job' = [job EXCEPT ![p].covers = base \cup compacted \cup blocks]
    /\ Goto(p, "publish")
    /\ UNCHANGED <<history, position, prefix, checkpoints, locks, returned, ops, recorded, stray>>

\* Verification against the proofs accepts a complete state only.
Publish(p) ==
    /\ pc[p] = "publish"
    /\ job[p].covers = StartBlock..job[p].end
    /\ checkpoints' = checkpoints \cup {[number |-> job[p].end, native |-> TRUE]}
    /\ Return(p)
    /\ UNCHANGED <<history, position, prefix, returned, ops, recorded, stray>>

\* An import of another database's export.
ImportCheckpoint ==
    /\ "import" \in ops /\ writer = None
    /\ \E n \in Foreign : checkpoints' = checkpoints \cup {[number |-> n, native |-> FALSE]}
    /\ UNCHANGED <<history, position, prefix, locks, local, returned, ops, recorded, stray>>

\* Checkpoint retention keeps the newest checkpoint of the accounts.
RetireCheckpoint ==
    /\ "retire" \in ops /\ writer = None
    /\ \E c \in checkpoints :
          /\ \E d \in checkpoints \ {c} : d.number >= c.number
          /\ checkpoints' = checkpoints \ {c}
    /\ UNCHANGED <<history, position, prefix, locks, local, returned, ops, recorded, stray>>

----------------------------------------------------------------------------
(* The growth recorder: qualification::record_growth                        *)

others == <<history, position, prefix, checkpoints, locks, returned, ops, stray>>

\* A pass reads bootstrap.json; a generation on record is not measured again,
\* and nothing is done without a fresh admitted capacity sample.
StartGrowth(p) ==
    /\ pc[p] = "idle" /\ "growth" \in ops
    /\ pointer # None /\ pointer # recorded
    /\ job' = [job EXCEPT ![p] = [NoJob EXCEPT !.op = "growth", !.base = pointer]]
    /\ Goto(p, "measure")
    /\ UNCHANGED <<others, recorded>>

\* generation_parts: the rows of both tables, from one query.
MeasureGrowth(p) ==
    /\ pc[p] = "measure"
    /\ job' = [job EXCEPT ![p].covers = storage[job[p].base.gen],
                          ![p].end = manifests[job[p].base.gen]]
    /\ Goto(p, "reread")
    /\ UNCHANGED <<others, recorded>>

\* Mutant of Reread: what was measured is taken for the prefix.
RereadNever(p) == TRUE

\* A changed pointer may mean that its generation is gone already.
Reread(p) == pointer = job[p].base

RereadPointer(p) ==
    /\ pc[p] = "reread"
    /\ IF Reread(p) THEN Goto(p, "record") /\ UNCHANGED <<job, locks>> ELSE Return(p)
    /\ UNCHANGED <<history, position, prefix, checkpoints, returned, ops, recorded, stray>>

Measured(p) == /\ job[p].covers = StartBlock..job[p].base.number
               /\ job[p].end = job[p].base.number

\* The counts must be the prefix's; the record is appended and synced.
RecordGrowth(p) ==
    /\ pc[p] = "record" /\ Measured(p)
    /\ recorded' = job[p].base
    /\ Return(p)
    /\ UNCHANGED <<history, position, prefix, checkpoints, returned, ops, stray>>

----------------------------------------------------------------------------

\* Any command may return an error or be killed at any step.
Fail(p) ==
    /\ pc[p] # "idle"
    /\ Return(p)
    /\ UNCHANGED <<history, position, prefix, checkpoints, returned, ops, recorded, stray>>

\* A statement: what it does, the partition, generation or manifest it is about,
\* the blocks or the last block it writes, and of its command --keep-blocks (of
\* a cleanup) and the checkpoints its plan spares: all, as it holds writer.lock.
Insert(p, do, g, blocks, number) ==
    [do |-> do, of |-> g, blocks |-> blocks, number |-> number, keep |-> job[p].keep,
     spares |-> checkpoints]
Drop(p, do, of) == Insert(p, do, of, {}, None)

\* What the INSERT of a compaction selects, at any time of its execution.
Selected(p) == (IF pointer = None THEN {} ELSE storage[pointer.gen])
               \cup ((job[p].from..job[p].end) \cap rows)

\* The write the process has sent, or is about to send, at its step.
InFlight(p) ==
    CASE pc[p] = "drop" ->
            IF job[p].days # {} THEN {Drop(p, "dropDay", d) : d \in job[p].days}
            ELSE {Drop(p, "dropMonth", m) : m \in job[p].months}
      [] pc[p] \in {"dropOld", "dropRest"} /\ Old(p) # {} ->
            IF \E g \in Old(p) : manifests[g] # None
            THEN {Drop(p, "dropManifest", g) : g \in {h \in Old(p) : manifests[h] # None}}
            ELSE {Drop(p, "dropStorage", g) : g \in Old(p)}
      [] pc[p] = "dropOld" /\ Old(p) = {} ->
            {Insert(p, "insertStorage", g, Selected(p), None) : g \in {h \in Gens : Fresh(h)}}
      [] pc[p] = "foldBlocks" ->
            {Insert(p, "insertStorage", job[p].gen, Selected(p), None)}
      [] pc[p] = "genManifest" ->
            {Insert(p, "insertManifest", job[p].gen, {}, job[p].end)}
      [] OTHER -> {}

\* The client times out or dies while the database still works on its write.
Abandon(p) ==
    /\ "abandon" \in ops /\ Cardinality(stray) < MaxStray
    /\ \E s \in InFlight(p) : stray' = stray \cup {s}
    /\ Return(p)
    /\ UNCHANGED <<history, position, prefix, checkpoints, returned, ops, recorded>>

\* History: a cleanup that did not spare the base of a build, or a build with
\* none, takes blocks the build has checked and not read yet.
Strikes(s, p) ==
    /\ pc[p] = "fold" /\ s.do = "dropDay" /\ s.keep # None /\ job[p].base \notin s.spares
    /\ \E n \in (job[p].from..job[p].end) \cap rows : Day(n) = s.of

\* The database completes a write nobody waits for.
ExecuteStray ==
    \E s \in stray :
        /\ stray' = stray \ {s}
        /\ rows' = IF s.do = "dropDay" THEN {n \in rows : Day(n) # s.of} ELSE rows
        /\ markers' = IF s.do = "dropMonth" THEN {n \in markers : Month(n) # s.of} ELSE markers
        /\ manifests' = [g \in Gens |->
                CASE s.do = "dropManifest" /\ g = s.of -> None
                  [] s.do = "insertManifest" /\ g = s.of -> s.number
                  [] OTHER -> manifests[g]]
        /\ storage' = [g \in Gens |->
                CASE s.do = "dropStorage" /\ g = s.of -> {}
                  [] s.do = "insertStorage" /\ g = s.of -> storage[g] \cup s.blocks
                  [] OTHER -> storage[g]]
        /\ job' = [p \in Procs |-> IF Strikes(s, p) THEN [job[p] EXCEPT !.struck = TRUE]
                                   ELSE job[p]]
        /\ UNCHANGED <<position, pointer, checkpoints, locks, pc, returned, ops, recorded>>

----------------------------------------------------------------------------

Ingesting(p) == StartIngest(p) \/ AdmitIngest(p) \/ Sink(p) \/ Ingested(p)

Opening(p) == StartCompact(p) \/ StartCleanup(p) \/ TakePublisher(p) \/ TakeRun(p)
              \/ TakeExclusive(p)

Compacting(p) == \/ PlanCompact(p) \/ DropOldGeneration(p) \/ FoldPrefix(p) \/ FoldBlocks(p)
                 \/ InsertGeneration(p) \/ CommitPointer(p) \/ PlanDrop(p) \/ Compacted(p)

Cleaning(p) == PlanCleanup(p) \/ DropDay(p) \/ DropMonth(p) \/ Dropped(p)

Replaying(p) == StartReplay(p) \/ NextChunk(p) \/ ChunkCompacted(p)

Building(p) == StartBuild(p) \/ TakeShared(p) \/ Validate(p) \/ Fold(p) \/ Publish(p)

Recording(p) == StartGrowth(p) \/ MeasureGrowth(p) \/ RereadPointer(p) \/ RecordGrowth(p)

Next == \/ \E p \in Procs : \/ Ingesting(p) \/ Opening(p) \/ Compacting(p) \/ Cleaning(p)
                            \/ Replaying(p) \/ Building(p) \/ Recording(p) \/ Fail(p)
                            \/ Abandon(p)
        \/ ImportCheckpoint \/ RetireCheckpoint \/ ExecuteStray

Spec == Init /\ [][Next]_vars

----------------------------------------------------------------------------
(* Properties                                                               *)

\* The state of the accounts can always be rebuilt until a checkpoint holds it:
\* the compacted prefix is stored whole and every later block is there, also
\* when compaction is interrupted before or after its pointer is replaced.
InitialStateKept ==
    /\ PrefixValid
    /\ checkpoints = {} /\ cursor # None =>
          (IF pointer = None THEN StartBlock ELSE pointer.number + 1)..cursor \subseteq rows

\* The blocks the cursor and its backup name keep their data and marker, so
\* ingestion and cleanup can be resumed after any partial drop.
CursorBlockKept == /\ cursor # None => Backed(cursor)
                   /\ progress # None => Backed(progress) /\ progress <= cursor

\* A checkpoint that could be continued from the stored history still can be
\* after any step that leaves the checkpoint in place.  Only the statement of a
\* command that is dead can take its continuation, and only if the checkpoint
\* has become ready since that command died.
ContinuationKept ==
    [][\A c \in checkpoints \cap checkpoints' :
          cursor # None /\ (c.number + 1)..cursor \subseteq rows
              => \/ (c.number + 1)..cursor \subseteq rows'
                 \/ \E s \in stray \ stray' : c \notin s.spares]_vars

\* The last k blocks stored up to the cursor.
Recent(k) == rows \cap ((cursor - k + 1)..cursor)

\* History cleanup never removes one of the last --keep-blocks blocks, although
\* it drops whole partitions and may drop one long after its command died.
RecentBlocksKept ==
    [][/\ \A p \in Procs : job[p].op = "cleanup" /\ job'[p].days # job[p].days =>
            Recent(job[p].keep) \subseteq rows'
       /\ \A s \in stray \ stray' : s.keep # None => Recent(s.keep) \subseteq rows']_vars

\* A fold that passed its interval check contains every block up to its target:
\* what the proofs are checked against is short of no history that a concurrent
\* compaction or cleanup took away.  Only the statement of a dead cleanup can
\* take blocks from a build, and only if that cleanup did not know its base; the
\* fold of a compaction is always complete.
FoldComplete ==
    \A p \in Procs :
        /\ pc[p] = "publish" /\ ~job[p].struck => job[p].covers = StartBlock..job[p].end
        /\ pc[p] = "genManifest" => storage[job[p].gen] = StartBlock..job[p].end

\* The growth recorder, which holds no lock while a compaction may commit a
\* newer generation and drop the one being measured, never takes a partly
\* dropped generation for the committed prefix: its check of the counts holds.
GrowthWhole == \A p \in Procs : pc[p] = "record" => Measured(p)

\* A replay returns a prefix that ends just before its exclusive stop.
ReplayStops == returned # None => returned.number = returned.stop - 1
============================================================================
