------------------------ MODULE SourceHistoryProofs ------------------------
(* Invariants and action properties of SourceHistory, proved for every      *)
(* number of commands, blocks and generations and every partition size.     *)
EXTENDS SourceHistory, TLAPS, WellFoundedInduction

Checkpoints == [number : Blocks, native : BOOLEAN]
Pointers == [gen : Gens, number : Blocks]
Jobs == [op : AllOps \cup {None}, stop : Stops \cup {None}, next : Nat \cup {None},
         end : Nat \cup {None}, base : Checkpoints \cup Pointers \cup {None},
         from : Nat \cup {None}, keep : KeepBlocks \cup {None}, gen : Gens \cup {None},
         days : SUBSET {Day(n) : n \in Blocks}, months : SUBSET {Month(n) : n \in Blocks},
         covers : SUBSET Blocks, struck : BOOLEAN]

\* The steps between committing to a fold of the history and its last clean-up,
\* those that hold source_readers.lock exclusively, and those of a build.
CompactSteps == {"dropOld", "foldBlocks", "genManifest", "commit", "planDrop", "drop",
                 "dropRest"}
ExclusiveSteps == CompactSteps \cup {"planCompact", "planCleanup"}
OpenSteps == {"open", "openRun", "openExclusive"}
ReadSteps == {"validate", "fold", "publish"}
BuildSteps == {"build", "buildShared"} \cup ReadSteps
IngestSteps == {"runLock", "sink", "ingested"}
GrowthSteps == {"measure", "reread", "record"}
Steps == {"idle", "next", "compacted"} \cup IngestSteps \cup OpenSteps \cup ExclusiveSteps
         \cup BuildSteps \cup GrowthSteps

\* Every variable that a step reads keeps its type.
TypeInv ==
    /\ rows \subseteq Blocks /\ markers \subseteq Blocks
    /\ cursor \in Blocks \cup {None} /\ progress \in Blocks \cup {None}
    /\ storage \in [Gens -> SUBSET Blocks] /\ manifests \in [Gens -> Blocks \cup {None}]
    /\ pointer \in Pointers \cup {None}
    /\ checkpoints \subseteq Checkpoints
    /\ writer \in Procs \cup {None} /\ run \in Procs \cup {None}
    /\ exclusive \in Procs \cup {None} /\ shared \subseteq Procs
    /\ pc \in [Procs -> Steps] /\ job \in [Procs -> Jobs]

\* Which lock each step holds.
OwnLocks(p) ==
    /\ pc[p] \in {"openRun", "openExclusive", "buildShared"} \cup ExclusiveSteps \cup ReadSteps
          => writer = p
    /\ pc[p] \in {"openExclusive", "sink", "ingested"} \cup ExclusiveSteps => run = p
    /\ pc[p] \in ExclusiveSteps => exclusive = p

LockInv == \A p \in Procs : OwnLocks(p)

\* What a command was asked to do, as far as later steps rely on it.
JobInv(p) ==
    /\ pc[p] \in OpenSteps \cup ExclusiveSteps => job[p].op \in {"compact", "replay", "cleanup"}
    /\ pc[p] = "planCleanup" => job[p].op = "cleanup"
    /\ pc[p] \in ExclusiveSteps \ {"planCleanup", "drop"} => job[p].op # "cleanup"
    /\ pc[p] \in OpenSteps \cup ExclusiveSteps /\ job[p].op = "cleanup" =>
          job[p].keep \in KeepBlocks
    /\ job[p].op # "cleanup" => job[p].keep = None
    /\ pc[p] \in {"next", "compacted"} => job[p].op = "replay"
    /\ pc[p] # "idle" /\ job[p].op = "replay" =>
          /\ job[p].stop \in Stops
          /\ pc[p] # "next" => job[p].next \in Nat
    /\ pc[p] \in IngestSteps => job[p].end \in Nat /\ job[p].end <= Head + 1
    /\ pc[p] \in BuildSteps => job[p].end \in Blocks /\ job[p].base \in Checkpoints \cup {None}

\* The first block that no compacted prefix holds.
First == IF pointer = None THEN StartBlock ELSE pointer.number + 1

\* The properties of the data at rest.  The prefix never ends after the cursor.
RestInv ==
    /\ InitialStateKept /\ CursorBlockKept
    /\ progress # None => cursor # None
    /\ pointer # None => cursor # None /\ pointer.number <= cursor

\* A compaction after its plan: the source is settled, no checkpoint needs it,
\* the new generation is not the committed one nor that of a statement in flight
\* and holds what it must at each step, and once committed it is the prefix.
CompactInv(p) ==
    /\ pc[p] \in CompactSteps /\ job[p].op # "cleanup" =>
          /\ checkpoints = {} /\ cursor = progress /\ cursor # None
          /\ job[p].end \in Blocks /\ job[p].end <= cursor
    /\ pc[p] \in {"dropOld", "foldBlocks"} =>
          /\ job[p].from = First /\ First <= job[p].end
          /\ First..job[p].end \subseteq rows
    /\ pc[p] \in {"foldBlocks", "genManifest", "commit"} =>
          /\ job[p].gen \in Gens
          /\ \A s \in stray : s.do \notin Dropping => s.of # job[p].gen
          /\ pointer # None => job[p].gen # pointer.gen /\ pointer.number < job[p].end
    /\ pc[p] = "foldBlocks" => storage[job[p].gen] = StartBlock..(First - 1)
    /\ pc[p] \in {"genManifest", "commit"} => storage[job[p].gen] = StartBlock..job[p].end
    /\ pc[p] = "commit" => manifests[job[p].gen] = job[p].end
    /\ pc[p] \in {"planDrop", "drop", "dropRest"} /\ job[p].op # "cleanup" =>
          pointer # None /\ pointer.gen = job[p].gen /\ pointer.number = job[p].end

\* A block that the command may drop: it is in the prefix, or older than the
\* kept blocks and than the continuation of every checkpoint.
Expendable(p, n) ==
    IF job[p].op = "cleanup"
    THEN n < cursor - job[p].keep + 1 /\ \A c \in checkpoints : n <= c.number
    ELSE n < job[p].end

\* Planned partitions hold expendable blocks only and end before the one of the
\* cursor, so that none is stored there later; cleanup has a checkpoint.
DropInv(p) ==
    pc[p] = "drop" =>
        /\ progress # None
        /\ \A d \in job[p].days : d \in Int /\ d < Day(progress)
        /\ \A m \in job[p].months : m \in Int /\ m < Month(progress)
        /\ \A n \in rows : Day(n) \in job[p].days => Expendable(p, n)
        /\ \A n \in markers : Month(n) \in job[p].months => Expendable(p, n)
        /\ job[p].op = "cleanup" => checkpoints # {} /\ cursor = progress /\ cursor # None

\* What a build's base and the prefix it uses cover.
Behind(p) == (IF job[p].base = None THEN {} ELSE StartBlock..job[p].base.number)
             \cup (IF job[p].gen = None THEN {} ELSE storage[job[p].gen])

\* A validated build misses nothing unless a dead cleanup struck: base, prefix
\* and stored blocks meet, and it reads no block of the prefix from its table.
FoldInv(p) ==
    /\ pc[p] = "fold" => /\ job[p].from \in StartBlock..(job[p].end + 1)
                         /\ Behind(p) = StartBlock..(job[p].from - 1)
                         /\ ~job[p].struck => job[p].from..job[p].end \subseteq rows
                         /\ pointer # None => pointer.number < job[p].from
                         /\ job[p].gen # None => pointer # None /\ job[p].gen = pointer.gen
    /\ pc[p] = "publish" /\ ~job[p].struck => job[p].covers = StartBlock..job[p].end

\* The committed prefix only grows past the one being measured, so it is the
\* same generation when it is named again.
GrowthInv(p) ==
    /\ pc[p] \in GrowthSteps =>
          /\ job[p].base \in Pointers /\ pointer # None
          /\ pointer = job[p].base \/ job[p].base.number < pointer.number
    /\ pc[p] = "reread" /\ pointer = job[p].base => Measured(p)
    /\ pc[p] = "record" => Measured(p)

StepInv(p) == CompactInv(p) /\ DropInv(p) /\ FoldInv(p) /\ GrowthInv(p)

\* A block that the statement of a dead command may still drop: older than what
\* that command had to keep, which only grows.
Spent(s, n) ==
    /\ n < progress
    /\ IF s.keep = None THEN n < pointer.number
       ELSE n < cursor - s.keep + 1 /\ \A c \in s.spares : n <= c.number

\* A statement in flight touches neither the prefix nor a partition that blocks
\* are still added to.
StrayInv(s) ==
    /\ s.do = "insertStorage" => s.blocks \subseteq Blocks
    /\ s.do = "insertManifest" => s.number \in Blocks
    /\ s.do \notin Dropping /\ pointer # None => s.of # pointer.gen
    /\ s.do \in Dropping =>
          /\ progress # None /\ s.of \in Int /\ s.spares \subseteq Checkpoints
          /\ s.keep = None => pointer # None /\ s.spares = {}
          /\ s.keep # None => s.keep \in KeepBlocks /\ checkpoints # {}
    /\ s.do = "dropDay" => /\ s.of < Day(progress)
                           /\ \A n \in rows : Day(n) = s.of => Spent(s, n)
    /\ s.do = "dropMonth" => /\ s.of < Month(progress)
                             /\ \A n \in markers : Month(n) = s.of => Spent(s, n)

HistoryInv == /\ TypeInv /\ LockInv /\ RestInv
              /\ \A p \in Procs : JobInv(p) /\ StepInv(p)
              /\ \A s \in stray : StrayInv(s)

----------------------------------------------------------------------------
(* Minimum and maximum                                                      *)

\* A nonempty set of numbers has its minimum.
LEMMA MinIsLeast ==
    ASSUME NEW S \in SUBSET Nat, S # {}
    PROVE  Min(S) \in S /\ \A x \in S : Min(S) <= x
  <1>1. IsWellFoundedOn(OpToRel(<, Nat), Nat)
    BY NatLessThanWellFounded
  <1>2. \E x \in S : \A y \in S : <<y, x>> \notin OpToRel(<, Nat)
    BY <1>1, WFMin
  <1>3. ASSUME NEW x \in Nat, NEW y \in Nat, y < x
        PROVE  <<y, x>> \in OpToRel(<, Nat)
    BY <1>3 DEF OpToRel
  <1>4. PICK x \in S : \A y \in S : <<y, x>> \notin OpToRel(<, Nat)
    BY <1>2
  <1>5. \A y \in S : ~(y < x)
    BY <1>3, <1>4, Zenon
  <1>6. \A y \in S : x <= y
    BY <1>5
  <1> QED
    BY <1>6 DEF Min

LEMMA MinOfTwo ==
    ASSUME NEW a \in Int, NEW b \in Int
    PROVE  Min({a, b}) \in {a, b} /\ Min({a, b}) <= a /\ Min({a, b}) <= b
  <1>1. \E x \in {a, b} : \A y \in {a, b} : x <= y
    OBVIOUS
  <1> QED
    BY <1>1 DEF Min

LEMMA MaxOfTwo ==
    ASSUME NEW a \in Int, NEW b \in Int
    PROVE  Max({a, b}) \in {a, b}
  <1>1. \E x \in {a, b} : \A y \in {a, b} : x >= y
    OBVIOUS
  <1> QED
    BY <1>1 DEF Max

----------------------------------------------------------------------------
(* Locals                                                                   *)

ProcNext(p) == \/ Ingesting(p) \/ Opening(p) \/ Compacting(p) \/ Cleaning(p)
               \/ Replaying(p) \/ Building(p) \/ Recording(p) \/ Fail(p) \/ Abandon(p)

\* A step moves one command and nothing of another.
Moves(p) == \E step \in Steps, r \in Jobs : /\ pc' = [pc EXCEPT ![p] = step]
                                            /\ job' = [job EXCEPT ![p] = r]

LEMMA NumbersFit ==
    /\ StartBlock \in Nat \ {0} /\ Head \in Nat /\ Blocks \subseteq Nat
    /\ None \notin Blocks /\ None \notin Procs /\ None \notin Gens /\ None \notin Pointers
    /\ KeepBlocks \subseteq Nat \ {0} /\ Stops \subseteq Nat /\ ChunkSize \in Nat \ {0}
    /\ \A stop \in Stops : stop <= Head + 1
  BY HistoryAssumption DEF Blocks, Pointers

LEMMA KeepPositive == \A keep \in KeepBlocks : keep \in Nat /\ keep > 0
  <1>1. KeepBlocks \subseteq Nat \ {0}
    BY HistoryAssumption
  <1> QED
    BY <1>1

LEMMA NoJobTyped == NoJob \in Jobs
  BY DEF NoJob, Jobs

LEMMA ReturnMoves ==
    ASSUME TypeInv, NEW p \in Procs, Return(p)
    PROVE  Moves(p) /\ pc'[p] = "idle"
  BY NoJobTyped DEF TypeInv, Return, Goto, Moves, Steps

LEMMA GotoMoves ==
    ASSUME TypeInv, NEW p \in Procs, NEW step \in Steps, Goto(p, step), UNCHANGED job
    PROVE  Moves(p)
  <1>1. job' = [job EXCEPT ![p] = job[p]] /\ job[p] \in Jobs
    BY DEF TypeInv
  <1> QED
    BY <1>1 DEF Goto, Moves

LEMMA IngestingMoves ==
    ASSUME HistoryInv, NEW p \in Procs, Ingesting(p)
    PROVE  Moves(p)
  <1> USE NumbersFit DEF HistoryInv
  <1>1. CASE StartIngest(p)
    <2>1. PICK stop \in Stops : job' = [job EXCEPT ![p] =
              [NoJob EXCEPT !.op = "ingest", !.stop = stop, !.end = stop]]
      BY <1>1 DEF StartIngest
    <2>2. [NoJob EXCEPT !.op = "ingest", !.stop = stop, !.end = stop] \in Jobs
      BY NoJobTyped DEF Jobs, AllOps
    <2> QED
      BY <1>1, <2>1, <2>2 DEF StartIngest, Goto, Moves, Steps, IngestSteps
  <1>2. CASE AdmitIngest(p)
    BY <1>2, GotoMoves DEF AdmitIngest, Steps, IngestSteps
  <1>3. CASE Sink(p)
    <2>1. Goto(p, pc[p]) /\ pc[p] \in Steps /\ UNCHANGED job
      BY <1>3 DEF Sink, Goto, TypeInv, local
    <2> QED
      BY <2>1, GotoMoves
  <1>4. CASE Ingested(p)
    BY <1>4, GotoMoves, ReturnMoves DEF Ingested, Finish, Steps
  <1> QED
    BY <1>1, <1>2, <1>3, <1>4 DEF Ingesting

LEMMA OpeningMoves ==
    ASSUME HistoryInv, NEW p \in Procs, Opening(p)
    PROVE  Moves(p)
  <1> USE NumbersFit DEF HistoryInv
  <1>1. CASE StartCompact(p)
    <2>1. PICK end \in Blocks \cup {None} : job' = [job EXCEPT ![p] =
              [NoJob EXCEPT !.op = "compact", !.end = end]]
      BY <1>1 DEF StartCompact
    <2>2. [NoJob EXCEPT !.op = "compact", !.end = end] \in Jobs
      BY NoJobTyped DEF Jobs, AllOps
    <2> QED
      BY <1>1, <2>1, <2>2 DEF StartCompact, Goto, Moves, Steps, OpenSteps
  <1>2. CASE StartCleanup(p)
    <2>1. PICK keep \in KeepBlocks, c \in checkpoints : job' = [job EXCEPT ![p] =
              [NoJob EXCEPT !.op = "cleanup", !.keep = keep, !.base = c]]
      BY <1>2 DEF StartCleanup
    <2>2. [NoJob EXCEPT !.op = "cleanup", !.keep = keep, !.base = c] \in Jobs
      BY NoJobTyped DEF Jobs, AllOps, TypeInv
    <2> QED
      BY <1>2, <2>1, <2>2 DEF StartCleanup, Goto, Moves, Steps, OpenSteps
  <1>3. CASE TakePublisher(p)
    BY <1>3, GotoMoves DEF TakePublisher, Steps, OpenSteps, BuildSteps
  <1>4. CASE TakeRun(p)
    BY <1>4, GotoMoves DEF TakeRun, Steps, OpenSteps
  <1>5. CASE TakeExclusive(p)
    BY <1>5, GotoMoves DEF TakeExclusive, Steps, ExclusiveSteps
  <1> QED
    BY <1>1, <1>2, <1>3, <1>4, <1>5 DEF Opening

\* The partitions of a table.
LEMMA PartitionsTyped ==
    ASSUME TypeInv, NEW before
    PROVE  /\ PartitionsBefore(rows, DaySize, before) \in SUBSET {Day(n) : n \in Blocks}
           /\ PartitionsBefore(markers, MonthSize, before) \in SUBSET {Month(n) : n \in Blocks}
  BY DEF PartitionsBefore, Day, Month, TypeInv

LEMMA CompactingMoves ==
    ASSUME HistoryInv, NEW p \in Procs, Compacting(p)
    PROVE  Moves(p)
  <1> USE NumbersFit DEF HistoryInv
  <1>0. job[p] \in Jobs
    BY DEF TypeInv
  <1>1. CASE PlanCompact(p)
    <2> DEFINE from == IF pointer = None THEN StartBlock ELSE pointer.number + 1
               kept(end) == IF pointer # None /\ pointer.number = end THEN pointer.gen ELSE None
    <2>1. PICK end \in rows :
              job' = [job EXCEPT ![p].end = end, ![p].from = from, ![p].gen = kept(end)]
      BY <1>1 DEF PlanCompact
    <2>a. pointer # None => pointer.gen \in Gens /\ pointer.number \in Nat
      BY DEF TypeInv, Pointers
    <2> DEFINE gen == kept(end)
    <2>b. from \in Nat /\ gen \in Gens \cup {None}
      BY <2>a
    <2> HIDE DEF from, gen
    <2>2. job' = [job EXCEPT ![p] = [job[p] EXCEPT !.end = end, !.from = from, !.gen = gen]]
      BY <2>1 DEF TypeInv, gen
    <2>3. [job[p] EXCEPT !.end = end, !.from = from, !.gen = gen] \in Jobs
      BY <1>0, <2>b DEF Jobs, TypeInv
    <2> QED
      BY <1>1, <2>2, <2>3 DEF PlanCompact, Goto, Moves, Steps, ExclusiveSteps, CompactSteps
  <1>2. CASE DropOldGeneration(p)
    <2>1. Goto(p, pc[p]) /\ pc[p] \in Steps /\ UNCHANGED job
      BY <1>2 DEF DropOldGeneration, Goto, TypeInv, local
    <2> QED
      BY <2>1, GotoMoves
  <1>3. CASE FoldPrefix(p)
    <2>1. PICK g \in Gens : job' = [job EXCEPT ![p].gen = g]
      BY <1>3 DEF FoldPrefix
    <2>2. job' = [job EXCEPT ![p] = [job[p] EXCEPT !.gen = g]]
      BY <2>1 DEF TypeInv
    <2>3. [job[p] EXCEPT !.gen = g] \in Jobs
      BY <1>0 DEF Jobs
    <2> QED
      BY <1>3, <2>2, <2>3 DEF FoldPrefix, Goto, Moves, Steps, ExclusiveSteps, CompactSteps
  <1>4. CASE FoldBlocks(p) \/ InsertGeneration(p) \/ CommitPointer(p)
    BY <1>4, GotoMoves DEF FoldBlocks, InsertGeneration, CommitPointer, Steps, ExclusiveSteps,
                           CompactSteps
  <1>5. CASE PlanDrop(p)
    <2>1. PICK days \in SUBSET {Day(n) : n \in Blocks}, months \in SUBSET {Month(n) : n \in Blocks} :
              job' = [job EXCEPT ![p].days = days, ![p].months = months]
      BY <1>5, PartitionsTyped DEF PlanDrop
    <2>2. job' = [job EXCEPT ![p] = [job[p] EXCEPT !.days = days, !.months = months]]
      BY <2>1 DEF TypeInv
    <2>3. [job[p] EXCEPT !.days = days, !.months = months] \in Jobs
      BY <1>0 DEF Jobs
    <2> QED
      BY <1>5, <2>2, <2>3 DEF PlanDrop, Goto, Moves, Steps, ExclusiveSteps, CompactSteps
  <1>6. CASE Compacted(p)
    BY <1>6, GotoMoves, ReturnMoves DEF Compacted, Finish, Steps
  <1> QED
    BY <1>1, <1>2, <1>3, <1>4, <1>5, <1>6 DEF Compacting

LEMMA CleaningMoves ==
    ASSUME HistoryInv, NEW p \in Procs, Cleaning(p)
    PROVE  Moves(p)
  <1> USE NumbersFit DEF HistoryInv
  <1>0. job[p] \in Jobs
    BY DEF TypeInv
  <1>1. CASE PlanCleanup(p)
    <2>1. PICK days \in SUBSET {Day(n) : n \in Blocks}, months \in SUBSET {Month(n) : n \in Blocks} :
              job' = [job EXCEPT ![p].days = days, ![p].months = months]
      BY <1>1, PartitionsTyped DEF PlanCleanup
    <2>2. job' = [job EXCEPT ![p] = [job[p] EXCEPT !.days = days, !.months = months]]
      BY <2>1 DEF TypeInv
    <2>3. [job[p] EXCEPT !.days = days, !.months = months] \in Jobs
      BY <1>0 DEF Jobs
    <2> QED
      BY <1>1, <2>2, <2>3 DEF PlanCleanup, Goto, Moves, Steps, ExclusiveSteps, CompactSteps
  <1>2. CASE DropDay(p)
    <2>1. PICK d : job' = [job EXCEPT ![p].days = @ \ {d}]
      BY <1>2 DEF DropDay
    <2>2. job' = [job EXCEPT ![p] = [job[p] EXCEPT !.days = job[p].days \ {d}]]
      BY <2>1 DEF TypeInv
    <2>3. [job[p] EXCEPT !.days = job[p].days \ {d}] \in Jobs
      BY <1>0 DEF Jobs
    <2>4. pc' = [pc EXCEPT ![p] = pc[p]] /\ pc[p] \in Steps
      BY <1>2 DEF DropDay, TypeInv
    <2> QED
      BY <2>2, <2>3, <2>4 DEF Moves
  <1>3. CASE DropMonth(p)
    <2>1. PICK d : job' = [job EXCEPT ![p].months = @ \ {d}]
      BY <1>3 DEF DropMonth
    <2>2. job' = [job EXCEPT ![p] = [job[p] EXCEPT !.months = job[p].months \ {d}]]
      BY <2>1 DEF TypeInv
    <2>3. [job[p] EXCEPT !.months = job[p].months \ {d}] \in Jobs
      BY <1>0 DEF Jobs
    <2>4. pc' = [pc EXCEPT ![p] = pc[p]] /\ pc[p] \in Steps
      BY <1>3 DEF DropMonth, TypeInv
    <2> QED
      BY <2>2, <2>3, <2>4 DEF Moves
  <1>4. CASE Dropped(p)
    BY <1>4, GotoMoves, ReturnMoves DEF Dropped, Steps, ExclusiveSteps, CompactSteps
  <1> QED
    BY <1>1, <1>2, <1>3, <1>4 DEF Cleaning

\* The end of a chunk is within the replay.
LEMMA ChunkFits ==
    ASSUME NEW p \in Procs, NEW next \in Nat, job[p].stop \in Stops
    PROVE  Chunk(p, next) \in Nat /\ Chunk(p, next) <= Head + 1
  <1>1. ChunkSize \in Nat /\ job[p].stop \in Nat /\ job[p].stop <= Head + 1 /\ Head \in Nat
    BY NumbersFit
  <1>0. next + ChunkSize \in Int /\ job[p].stop \in Int
    BY <1>1
  <1>2. Chunk(p, next) \in {next + ChunkSize, job[p].stop} /\ Chunk(p, next) <= job[p].stop
    BY <1>0, MinOfTwo DEF Chunk
  <1>3. ASSUME NEW c \in {next + ChunkSize, job[p].stop}, c <= job[p].stop
        PROVE  c \in Nat /\ c <= Head + 1
    BY <1>1, <1>3
  <1> QED
    BY <1>2, <1>3, Zenon

LEMMA ReplayingMoves ==
    ASSUME HistoryInv, NEW p \in Procs, Replaying(p)
    PROVE  Moves(p)
  <1> USE NumbersFit DEF HistoryInv
  <1>0. job[p] \in Jobs /\ JobInv(p)
    BY DEF TypeInv
  <1>1. CASE StartReplay(p)
    <2>1. PICK stop \in Stops : job' = [job EXCEPT ![p] =
              [NoJob EXCEPT !.op = "replay", !.stop = stop]]
      BY <1>1 DEF StartReplay
    <2>2. [NoJob EXCEPT !.op = "replay", !.stop = stop] \in Jobs
      BY NoJobTyped DEF Jobs, AllOps
    <2> QED
      BY <1>1, <2>1, <2>2 DEF StartReplay, Goto, Moves, Steps
  <1>2. CASE NextChunk(p) /\ cursor = None
    <2>1. job' = [job EXCEPT ![p].next = StartBlock, ![p].end = Chunk(p, StartBlock)]
      BY <1>2 DEF NextChunk
    <2>2. Chunk(p, StartBlock) \in Nat
      BY <1>0, <1>2, ChunkFits DEF NextChunk, JobInv
    <2>3. job' = [job EXCEPT ![p] =
                     [job[p] EXCEPT !.next = StartBlock, !.end = Chunk(p, StartBlock)]]
      BY <2>1 DEF TypeInv
    <2>4. [job[p] EXCEPT !.next = StartBlock, !.end = Chunk(p, StartBlock)] \in Jobs
      BY <1>0, <2>2 DEF Jobs
    <2> QED
      BY <1>2, <2>3, <2>4 DEF NextChunk, Goto, Moves, Steps, IngestSteps
  <1>3. CASE NextChunk(p) /\ cursor # None
    <2>1. cursor + 1 \in Nat /\ job' = [job EXCEPT ![p].next = cursor + 1]
      BY <1>3 DEF NextChunk, TypeInv
    <2>2. job' = [job EXCEPT ![p] = [job[p] EXCEPT !.next = cursor + 1]]
      BY <2>1 DEF TypeInv
    <2>3. [job[p] EXCEPT !.next = cursor + 1] \in Jobs
      BY <1>0, <2>1 DEF Jobs
    <2> QED
      BY <1>3, <2>2, <2>3 DEF NextChunk, Goto, Moves, Steps, OpenSteps
  <1>4. CASE ChunkCompacted(p) /\ job[p].next = job[p].stop
    BY <1>4, ReturnMoves DEF ChunkCompacted
  <1>5. CASE ChunkCompacted(p) /\ job[p].next # job[p].stop
    <2>1. job' = [job EXCEPT ![p].end = Chunk(p, job[p].next)]
      BY <1>5 DEF ChunkCompacted
    <2>2. Chunk(p, job[p].next) \in Nat
      BY <1>0, <1>5, ChunkFits DEF ChunkCompacted, JobInv
    <2>3. job' = [job EXCEPT ![p] = [job[p] EXCEPT !.end = Chunk(p, job[p].next)]]
      BY <2>1 DEF TypeInv
    <2>4. [job[p] EXCEPT !.end = Chunk(p, job[p].next)] \in Jobs
      BY <1>0, <2>2 DEF Jobs
    <2> QED
      BY <1>5, <2>3, <2>4 DEF ChunkCompacted, Goto, Moves, Steps, IngestSteps
  <1> QED
    BY <1>1, <1>2, <1>3, <1>4, <1>5 DEF Replaying

LEMMA BuildingMoves ==
    ASSUME HistoryInv, NEW p \in Procs, Building(p)
    PROVE  Moves(p)
  <1> USE NumbersFit DEF HistoryInv
  <1>0. job[p] \in Jobs /\ JobInv(p)
    BY DEF TypeInv
  <1>1. CASE StartBuild(p)
    <2>1. PICK base \in checkpoints \cup {None}, end \in Blocks : job' = [job EXCEPT ![p] =
              [NoJob EXCEPT !.op = "build", !.base = base, !.end = end]]
      BY <1>1 DEF StartBuild
    <2>2. [NoJob EXCEPT !.op = "build", !.base = base, !.end = end] \in Jobs
      BY NoJobTyped DEF Jobs, AllOps, TypeInv
    <2> QED
      BY <1>1, <2>1, <2>2 DEF StartBuild, Goto, Moves, Steps, BuildSteps
  <1>2. CASE TakeShared(p)
    BY <1>2, GotoMoves DEF TakeShared, Steps, BuildSteps, ReadSteps
  <1>3. CASE Validate(p)
    <2>1. PICK from \in Nat, gen \in Gens \cup {None} :
              job' = [job EXCEPT ![p].from = from, ![p].gen = gen]
      <3>1. pointer # None => pointer.gen \in Gens /\ pointer.number \in Nat
        BY DEF TypeInv, Pointers
      <3>2. job[p].base # None => job[p].base.number + 1 \in Nat
        BY <1>0, <1>3 DEF Validate, JobInv, BuildSteps, ReadSteps, Checkpoints
      <3> DEFINE start == IF job[p].base = None THEN StartBlock ELSE job[p].base.number + 1
                 used == pointer # None /\ start <= pointer.number
                 from == IF used THEN pointer.number + 1 ELSE start
                 gen == IF used THEN pointer.gen ELSE None
      <3>3. job' = [job EXCEPT ![p].from = from, ![p].gen = gen]
        BY <1>3 DEF Validate
      <3>4. start \in Nat
        BY <3>2
      <3>5. from \in Nat /\ gen \in Gens \cup {None}
        BY <3>1, <3>4
      <3> QED
        BY <3>3, <3>5
    <2>2. job' = [job EXCEPT ![p] = [job[p] EXCEPT !.from = from, !.gen = gen]]
      BY <2>1 DEF TypeInv
    <2>3. [job[p] EXCEPT !.from = from, !.gen = gen] \in Jobs
      BY <1>0, <2>1 DEF Jobs
    <2> QED
      BY <1>3, <2>2, <2>3 DEF Validate, Goto, Moves, Steps, BuildSteps, ReadSteps
  <1>4. CASE Fold(p)
    <2>1. PICK covers \in SUBSET Blocks : job' = [job EXCEPT ![p].covers = covers]
      <3>1. job[p].base # None => StartBlock..job[p].base.number \subseteq Blocks
        BY <1>0, <1>4 DEF Fold, JobInv, BuildSteps, ReadSteps, Checkpoints, Blocks
      <3>2. job[p].gen # None => storage[job[p].gen] \subseteq Blocks
        BY <1>0 DEF TypeInv, Jobs
      <3>3. rows \subseteq Blocks
        BY DEF TypeInv
      <3> QED
        BY <1>4, <3>1, <3>2, <3>3 DEF Fold
    <2>2. job' = [job EXCEPT ![p] = [job[p] EXCEPT !.covers = covers]]
      BY <2>1 DEF TypeInv
    <2>3. [job[p] EXCEPT !.covers = covers] \in Jobs
      BY <1>0, <2>1 DEF Jobs
    <2> QED
      BY <1>4, <2>2, <2>3 DEF Fold, Goto, Moves, Steps, BuildSteps, ReadSteps
  <1>5. CASE Publish(p)
    BY <1>5, ReturnMoves DEF Publish
  <1> QED
    BY <1>1, <1>2, <1>3, <1>4, <1>5 DEF Building

LEMMA RecordingMoves ==
    ASSUME HistoryInv, NEW p \in Procs, Recording(p)
    PROVE  Moves(p)
  <1> USE NumbersFit DEF HistoryInv
  <1>0. job[p] \in Jobs /\ GrowthInv(p)
    BY DEF TypeInv, StepInv
  <1>1. CASE StartGrowth(p)
    <2>1. pointer \in Pointers
      BY <1>1 DEF StartGrowth, TypeInv
    <2>2. [NoJob EXCEPT !.op = "growth", !.base = pointer] \in Jobs
      BY <2>1, NoJobTyped DEF Jobs, AllOps
    <2> QED
      BY <1>1, <2>2 DEF StartGrowth, Goto, Moves, Steps, GrowthSteps
  <1>2. CASE MeasureGrowth(p)
    <2>1. job[p].base.gen \in Gens
      BY <1>0, <1>2 DEF MeasureGrowth, GrowthInv, GrowthSteps, Pointers
    <2>2. PICK covers \in SUBSET Blocks, end \in Blocks \cup {None} :
              job' = [job EXCEPT ![p].covers = covers, ![p].end = end]
      BY <1>2, <2>1 DEF MeasureGrowth, TypeInv
    <2>3. job' = [job EXCEPT ![p] = [job[p] EXCEPT !.covers = covers, !.end = end]]
      BY <2>2 DEF TypeInv
    <2>4. [job[p] EXCEPT !.covers = covers, !.end = end] \in Jobs
      BY <1>0, <2>2 DEF Jobs
    <2> QED
      BY <1>2, <2>3, <2>4 DEF MeasureGrowth, Goto, Moves, Steps, GrowthSteps
  <1>3. CASE RereadPointer(p)
    BY <1>3, GotoMoves, ReturnMoves DEF RereadPointer, Steps, GrowthSteps
  <1>4. CASE RecordGrowth(p)
    BY <1>4, ReturnMoves DEF RecordGrowth
  <1> QED
    BY <1>1, <1>2, <1>3, <1>4 DEF Recording

LEMMA ProcMoves ==
    ASSUME HistoryInv, NEW p \in Procs, ProcNext(p)
    PROVE  Moves(p)
  BY IngestingMoves, OpeningMoves, CompactingMoves, CleaningMoves, ReplayingMoves, BuildingMoves,
     RecordingMoves, ReturnMoves DEF ProcNext, Fail, Abandon, HistoryInv

\* What moving one command means for all.
LEMMA MovesOne ==
    ASSUME TypeInv, NEW p \in Procs, Moves(p)
    PROVE  /\ pc' \in [Procs -> Steps] /\ job' \in [Procs -> Jobs]
           /\ \A q \in Procs \ {p} : pc'[q] = pc[q] /\ job'[q] = job[q]
  BY DEF TypeInv, Moves

----------------------------------------------------------------------------
(* Locks                                                                    *)

\* A lock stays as it is, is taken when free or released by its holder.
Handled(lock, next, p) == \/ next = lock
                          \/ lock = None /\ next = p
                          \/ lock = p /\ next = None
LocksHandled(p) ==
    /\ Handled(writer, writer', p) /\ Handled(run, run', p) /\ Handled(exclusive, exclusive', p)
    /\ shared' \in {shared, shared \cup {p}, shared \ {p}}

LEMMA UnlockHandled ==
    ASSUME NEW p \in Procs, Unlock(p)
    PROVE  LocksHandled(p)
  BY DEF Unlock, Free, LocksHandled, Handled

LEMMA ReturnLocks ==
    ASSUME TypeInv, NEW p \in Procs, Return(p)
    PROVE  LocksHandled(p) /\ OwnLocks(p)'
  <1>1. LocksHandled(p)
    BY UnlockHandled DEF Return
  <1>2. pc'[p] = "idle"
    BY ReturnMoves
  <1> QED
    BY <1>1, <1>2 DEF OwnLocks, ExclusiveSteps, CompactSteps, ReadSteps

LEMMA FinishLocks ==
    ASSUME TypeInv, NEW p \in Procs, NEW step \in {"next", "compacted"}, Finish(p, step)
    PROVE  LocksHandled(p) /\ OwnLocks(p)'
  <1>1. CASE Return(p)
    BY <1>1, ReturnLocks
  <1>2. CASE Goto(p, step) /\ Unlock(p)
    <2>1. pc'[p] = step
      BY <1>2 DEF Goto, TypeInv
    <2> QED
      BY <1>2, <2>1, UnlockHandled DEF OwnLocks, ExclusiveSteps, CompactSteps, ReadSteps
  <1> QED
    BY <1>1, <1>2 DEF Finish

\* A step within the locks a command holds.
LEMMA KeepLocks ==
    ASSUME TypeInv, NEW p \in Procs, OwnLocks(p), UNCHANGED <<writer, run, exclusive, shared>>,
           \/ pc'[p] = pc[p]
           \/ pc'[p] \in {"idle", "next", "compacted", "runLock", "open", "build"} \cup GrowthSteps
           \/ pc[p] \in ExclusiveSteps /\ pc'[p] \in ExclusiveSteps
           \/ pc[p] \in ReadSteps /\ pc'[p] \in ReadSteps
    PROVE  LocksHandled(p) /\ OwnLocks(p)'
  <1>1. LocksHandled(p)
    BY DEF LocksHandled, Handled
  <1>2. CASE pc'[p] = pc[p]
    BY <1>1, <1>2 DEF OwnLocks
  <1>3. CASE pc'[p] \in {"idle", "next", "compacted", "runLock", "open", "build"} \cup GrowthSteps
    BY <1>1, <1>3 DEF OwnLocks, ExclusiveSteps, CompactSteps, ReadSteps, GrowthSteps
  <1>4. CASE pc[p] \in ExclusiveSteps /\ pc'[p] \in ExclusiveSteps
    BY <1>1, <1>4 DEF OwnLocks, ExclusiveSteps, CompactSteps, ReadSteps
  <1>5. CASE pc[p] \in ReadSteps /\ pc'[p] \in ReadSteps
    BY <1>1, <1>5 DEF OwnLocks, ExclusiveSteps, CompactSteps, ReadSteps
  <1> QED
    BY <1>1, <1>2, <1>3, <1>4, <1>5

LEMMA ProcLocks ==
    ASSUME HistoryInv, NEW p \in Procs, ProcNext(p)
    PROVE  LocksHandled(p) /\ OwnLocks(p)'
  <1> USE DEF HistoryInv, locks, local
  <1>0. OwnLocks(p) /\ pc \in [Procs -> Steps]
    BY DEF LockInv, TypeInv
  <1>1. ASSUME StartIngest(p) \/ StartCompact(p) \/ StartCleanup(p) \/ StartBuild(p)
               \/ StartGrowth(p) \/ StartReplay(p)
        PROVE  LocksHandled(p) /\ OwnLocks(p)'
    <2>1. /\ UNCHANGED <<writer, run, exclusive, shared>>
          /\ pc'[p] \in {"runLock", "open", "build", "measure", "next"}
      BY <1>0, <1>1 DEF StartIngest, StartCompact, StartCleanup, StartBuild, StartGrowth,
                        StartReplay, Goto, others
    <2> QED
      BY <1>0, <2>1, KeepLocks DEF GrowthSteps
  <1>2. CASE AdmitIngest(p)
    <2>1. pc'[p] \in {"sink", "ingested"} /\ run = None /\ run' = p
          /\ UNCHANGED <<writer, exclusive, shared>>
      BY <1>0, <1>2 DEF AdmitIngest, Goto
    <2> QED
      BY <2>1 DEF LocksHandled, Handled, OwnLocks, ExclusiveSteps, CompactSteps, ReadSteps
  <1>3. CASE Sink(p) \/ DropOldGeneration(p) \/ DropDay(p) \/ DropMonth(p)
    <2>1. UNCHANGED <<writer, run, exclusive, shared, pc>>
      BY <1>3 DEF Sink, DropOldGeneration, DropDay, DropMonth
    <2> QED
      BY <1>0, <2>1, KeepLocks
  <1>4. CASE Ingested(p) \/ Compacted(p)
    BY <1>4, FinishLocks DEF Ingested, Compacted
  <1>5. CASE TakePublisher(p)
    <2>1. pc'[p] \in {"openRun", "buildShared"} /\ writer = None /\ writer' = p
          /\ UNCHANGED <<run, exclusive, shared>>
      BY <1>0, <1>5 DEF TakePublisher, Goto
    <2> QED
      BY <2>1 DEF LocksHandled, Handled, OwnLocks, ExclusiveSteps, CompactSteps, ReadSteps
  <1>6. CASE TakeRun(p)
    <2>1. pc'[p] = "openExclusive" /\ run = None /\ run' = p /\ writer = p
          /\ UNCHANGED <<writer, exclusive, shared>>
      BY <1>0, <1>6 DEF TakeRun, Goto, OwnLocks
    <2> QED
      BY <2>1 DEF LocksHandled, Handled, OwnLocks, ExclusiveSteps, CompactSteps, ReadSteps
  <1>7. CASE TakeExclusive(p)
    <2>1. pc'[p] \in {"planCleanup", "planCompact"} /\ exclusive = None /\ exclusive' = p
          /\ writer = p /\ run = p /\ UNCHANGED <<writer, run, shared>>
      BY <1>0, <1>7 DEF TakeExclusive, Goto, OwnLocks
    <2> QED
      BY <2>1 DEF LocksHandled, Handled, OwnLocks, ExclusiveSteps, CompactSteps, ReadSteps
  <1>8. CASE \/ PlanCompact(p) \/ FoldPrefix(p) \/ FoldBlocks(p) \/ InsertGeneration(p)
             \/ CommitPointer(p) \/ PlanDrop(p) \/ PlanCleanup(p)
    <2>1. /\ pc[p] \in ExclusiveSteps /\ pc'[p] \in ExclusiveSteps
          /\ UNCHANGED <<writer, run, exclusive, shared>>
      BY <1>0, <1>8 DEF PlanCompact, FoldPrefix, FoldBlocks, InsertGeneration, CommitPointer,
         PlanDrop, PlanCleanup, Goto, ExclusiveSteps, CompactSteps
    <2> QED
      BY <1>0, <2>1, KeepLocks
  <1>9. CASE Dropped(p)
    <2>1. CASE Return(p)
      BY <2>1, ReturnLocks
    <2>2. CASE ~Return(p)
      <3>1. /\ pc[p] \in ExclusiveSteps /\ pc'[p] \in ExclusiveSteps
            /\ UNCHANGED <<writer, run, exclusive, shared>>
        BY <1>0, <1>9, <2>2 DEF Dropped, Goto, ExclusiveSteps, CompactSteps
      <3> QED
        BY <1>0, <3>1, KeepLocks
    <2> QED
      BY <2>1, <2>2
  <1>10. CASE NextChunk(p)
    <2>1. UNCHANGED <<writer, run, exclusive, shared>> /\ pc'[p] \in {"runLock", "open"}
      BY <1>0, <1>10 DEF NextChunk, Goto
    <2> QED
      BY <1>0, <2>1, KeepLocks
  <1>11. CASE ChunkCompacted(p)
    <2>1. CASE Return(p)
      BY <2>1, ReturnLocks
    <2>2. CASE ~Return(p)
      <3>1. UNCHANGED <<writer, run, exclusive, shared>> /\ pc'[p] = "runLock"
        BY <1>0, <1>11, <2>2 DEF ChunkCompacted, Goto
      <3> QED
        BY <1>0, <3>1, KeepLocks
    <2> QED
      BY <2>1, <2>2
  <1>12. CASE TakeShared(p)
    <2>1. pc'[p] = "validate" /\ writer = p /\ shared' = shared \cup {p}
          /\ UNCHANGED <<writer, run, exclusive>>
      BY <1>0, <1>12 DEF TakeShared, Goto, OwnLocks
    <2> QED
      BY <2>1 DEF LocksHandled, Handled, OwnLocks, ExclusiveSteps, CompactSteps, ReadSteps
  <1>13. CASE Validate(p) \/ Fold(p)
    <2>1. /\ pc[p] \in ReadSteps /\ pc'[p] \in ReadSteps
          /\ UNCHANGED <<writer, run, exclusive, shared>>
      BY <1>0, <1>13 DEF Validate, Fold, Goto, ReadSteps
    <2> QED
      BY <1>0, <2>1, KeepLocks
  <1>14. CASE Publish(p) \/ RecordGrowth(p) \/ Fail(p) \/ Abandon(p)
    BY <1>14, ReturnLocks DEF Publish, RecordGrowth, Fail, Abandon
  <1>15. CASE MeasureGrowth(p)
    <2>1. UNCHANGED <<writer, run, exclusive, shared>> /\ pc'[p] = "reread"
      BY <1>0, <1>15 DEF MeasureGrowth, Goto, others
    <2> QED
      BY <1>0, <2>1, KeepLocks DEF GrowthSteps
  <1>16. CASE RereadPointer(p)
    <2>1. CASE Return(p)
      BY <2>1, ReturnLocks
    <2>2. CASE ~Return(p)
      <3>1. UNCHANGED <<writer, run, exclusive, shared>> /\ pc'[p] = "record"
        BY <1>0, <1>16, <2>2 DEF RereadPointer, Goto
      <3> QED
        BY <1>0, <3>1, KeepLocks DEF GrowthSteps
    <2> QED
      BY <2>1, <2>2
  <1> QED
    BY <1>1, <1>2, <1>3, <1>4, <1>5, <1>6, <1>7, <1>8, <1>9, <1>10, <1>11, <1>12, <1>13, <1>14,
       <1>15, <1>16
       DEF ProcNext, Ingesting, Opening, Compacting, Cleaning, Replaying, Building, Recording

LockType == /\ writer \in Procs \cup {None} /\ run \in Procs \cup {None}
            /\ exclusive \in Procs \cup {None} /\ shared \subseteq Procs

LEMMA LockStep ==
    ASSUME HistoryInv, NEW p \in Procs, ProcNext(p)
    PROVE  LockInv' /\ LockType'
  <1>1. LocksHandled(p) /\ OwnLocks(p)'
    BY ProcLocks
  <1>2. LockType'
    BY <1>1 DEF LocksHandled, Handled, LockType, HistoryInv, TypeInv
  <1>3. ASSUME NEW q \in Procs \ {p}
        PROVE  OwnLocks(q)'
    <2>1. pc'[q] = pc[q] /\ OwnLocks(q) /\ q # None
      BY ProcMoves, MovesOne, NumbersFit DEF HistoryInv, LockInv
    <2> QED
      BY <1>1, <2>1 DEF LocksHandled, Handled, OwnLocks
  <1> QED
    BY <1>1, <1>2, <1>3 DEF LockInv

----------------------------------------------------------------------------
(* Types of what is stored                                                  *)

stored == <<rows, markers, cursor, progress, storage, manifests, pointer, checkpoints>>

DataType ==
    /\ rows \subseteq Blocks /\ markers \subseteq Blocks
    /\ cursor \in Blocks \cup {None} /\ progress \in Blocks \cup {None}
    /\ storage \in [Gens -> SUBSET Blocks] /\ manifests \in [Gens -> Blocks \cup {None}]
    /\ pointer \in Pointers \cup {None}
    /\ checkpoints \subseteq Checkpoints

\* The steps that write to the database, the state directory or the store;
\* every other step of a command leaves them alone.
Writes(p) ==
    \/ AdmitIngest(p) \/ Sink(p) \/ Ingested(p) \/ DropOldGeneration(p) \/ FoldPrefix(p)
    \/ FoldBlocks(p) \/ InsertGeneration(p) \/ CommitPointer(p) \/ DropDay(p) \/ DropMonth(p)
    \/ NextChunk(p) \/ Publish(p)

LEMMA OthersRead ==
    ASSUME NEW p \in Procs, ProcNext(p), ~Writes(p)
    PROVE  UNCHANGED stored
  <1> USE DEF stored, history, position, prefix
  <1>1. CASE Ingesting(p) \/ Opening(p)
    BY <1>1 DEF Writes, Ingesting, Opening, StartIngest, StartCompact, StartCleanup, TakePublisher,
                TakeRun, TakeExclusive
  <1>2. CASE Compacting(p) \/ Cleaning(p)
    BY <1>2 DEF Writes, Compacting, Cleaning, PlanCompact, PlanDrop, Compacted, PlanCleanup, Dropped
  <1>3. CASE Replaying(p) \/ Building(p)
    BY <1>3 DEF Writes, Replaying, Building, StartReplay, ChunkCompacted, StartBuild, TakeShared,
                Validate, Fold
  <1>4. CASE Recording(p) \/ Fail(p) \/ Abandon(p)
    BY <1>4 DEF Recording, StartGrowth, MeasureGrowth, RereadPointer, RecordGrowth, Fail, Abandon,
                others
  <1> QED
    BY <1>1, <1>2, <1>3, <1>4 DEF ProcNext

\* Only a command that dies or times out leaves a statement, and only at one of
\* its writes under writer.lock.
LEMMA StrayFrame ==
    ASSUME NEW p \in Procs, ProcNext(p)
    PROVE  \/ UNCHANGED stray
           \/ Abandon(p) /\ pc[p] \in CompactSteps
  <1>1. CASE Ingesting(p) \/ Opening(p)
    BY <1>1 DEF Ingesting, Opening, StartIngest, AdmitIngest, Sink, Ingested, StartCompact,
                StartCleanup, TakePublisher, TakeRun, TakeExclusive
  <1>2. CASE Compacting(p)
    BY <1>2 DEF Compacting, PlanCompact, DropOldGeneration, FoldPrefix, FoldBlocks,
                InsertGeneration, CommitPointer, PlanDrop, Compacted
  <1>3. CASE Cleaning(p) \/ Replaying(p)
    BY <1>3 DEF Cleaning, PlanCleanup, DropDay, DropMonth, Dropped, Replaying, StartReplay,
                NextChunk, ChunkCompacted
  <1>4. CASE Building(p) \/ Recording(p) \/ Fail(p)
    BY <1>4 DEF Building, StartBuild, TakeShared, Validate, Fold, Publish, Recording, StartGrowth,
                MeasureGrowth, RereadPointer, RecordGrowth, Fail, others
  <1>5. CASE Abandon(p)
    BY <1>5 DEF Abandon, InFlight, CompactSteps
  <1> QED
    BY <1>1, <1>2, <1>3, <1>4, <1>5 DEF ProcNext

\* The block that the sink stores next.
NextBlock == IF cursor = None THEN StartBlock ELSE cursor + 1

LEMMA SinkBlock ==
    ASSUME HistoryInv, NEW p \in Procs, Sink(p)
    PROVE  NextBlock \in Blocks
  <1>1. job[p].end \in Nat /\ job[p].end <= Head + 1 /\ NextBlock < job[p].end
    BY DEF HistoryInv, JobInv, Sink, IngestSteps, NextBlock
  <1>2. CASE cursor = None
    BY <1>1, <1>2, HistoryAssumption DEF NextBlock, Blocks
  <1>3. CASE cursor # None
    <2>1. cursor \in StartBlock..Head
      BY <1>3 DEF HistoryInv, TypeInv, Blocks
    <2> QED
      BY <1>1, <1>3, <2>1, HistoryAssumption DEF NextBlock, Blocks
  <1> QED
    BY <1>2, <1>3

LEMMA DataTypeStep ==
    ASSUME HistoryInv, NEW p \in Procs, ProcNext(p)
    PROVE  DataType'
  <1> USE DEF stored, history, position, prefix
  <1>0. DataType
    BY DEF HistoryInv, TypeInv, DataType
  <1>1. CASE ~Writes(p)
    BY <1>0, <1>1, OthersRead DEF DataType
  <1>2. CASE AdmitIngest(p) \/ Ingested(p) \/ NextChunk(p)
    BY <1>0, <1>2 DEF AdmitIngest, Ingested, NextChunk, DataType
  <1>3. CASE Sink(p)
    BY <1>0, <1>3, SinkBlock DEF Sink, NextBlock, DataType
  <1>4. CASE DropOldGeneration(p)
    BY <1>0, <1>4 DEF DropOldGeneration, DataType
  <1>5. CASE FoldPrefix(p)
    <2>1. pointer # None => storage[pointer.gen] \subseteq Blocks
      BY <1>0 DEF DataType, Pointers
    <2> QED
      BY <1>0, <1>5, <2>1 DEF FoldPrefix, DataType
  <1>6. CASE FoldBlocks(p) \/ InsertGeneration(p) \/ CommitPointer(p)
    <2>1. job[p].gen \in Gens /\ job[p].end \in Blocks
      BY <1>6 DEF HistoryInv, StepInv, CompactInv, JobInv, FoldBlocks, InsertGeneration, CommitPointer,
                  CompactSteps, ExclusiveSteps
    <2>2. [gen |-> job[p].gen, number |-> job[p].end] \in Pointers
      BY <2>1 DEF Pointers
    <2> QED
      BY <1>0, <1>6, <2>1, <2>2 DEF FoldBlocks, InsertGeneration, CommitPointer, DataType
  <1>7. CASE DropDay(p) \/ DropMonth(p)
    BY <1>0, <1>7 DEF DropDay, DropMonth, DataType
  <1>8. CASE Publish(p)
    <2>1. job[p].end \in Blocks
      BY <1>8 DEF HistoryInv, JobInv, Publish, BuildSteps, ReadSteps
    <2>2. [number |-> job[p].end, native |-> TRUE] \in Checkpoints
      BY <2>1 DEF Checkpoints
    <2> QED
      BY <1>0, <1>8, <2>2 DEF Publish, DataType
  <1> QED
    BY <1>1, <1>2, <1>3, <1>4, <1>5, <1>6, <1>7, <1>8 DEF Writes

LEMMA TypeStep ==
    ASSUME HistoryInv, NEW p \in Procs, ProcNext(p)
    PROVE  TypeInv'
  BY DataTypeStep, LockStep, ProcMoves, MovesOne DEF DataType, LockType, TypeInv, HistoryInv

----------------------------------------------------------------------------
(* What a command was asked to do                                           *)

\* A command that returned, or whose orders stay as they are.
LEMMA JobIdle ==
    ASSUME TypeInv, NEW p \in Procs, Return(p)
    PROVE  JobInv(p)'
  <1>1. job'[p].keep = None
    BY DEF TypeInv, Return, NoJob
  <1> QED
    BY <1>1, ReturnMoves DEF JobInv, OpenSteps, ExclusiveSteps, CompactSteps, IngestSteps, BuildSteps,
                             ReadSteps

LEMMA JobKept ==
    ASSUME NEW p \in Procs, JobInv(p), pc[p] # "idle", pc[p] # "next", pc'[p] # "next",
           job'[p].op = job[p].op, job'[p].stop = job[p].stop, job'[p].next = job[p].next,
           job'[p].keep = job[p].keep, job'[p].base = job[p].base,
           \/ pc'[p] \in OpenSteps /\ pc[p] \in OpenSteps
           \/ pc'[p] = "planCleanup" /\ pc[p] \in OpenSteps /\ job[p].op = "cleanup"
           \/ pc'[p] = "planCompact" /\ pc[p] \in OpenSteps /\ job[p].op # "cleanup"
           \/ pc'[p] \in ExclusiveSteps \ {"planCleanup"} /\ pc[p] \in ExclusiveSteps
              /\ (pc'[p] = "drop" \/ job[p].op # "cleanup")
           \/ pc'[p] \in {"sink", "ingested"} /\ pc[p] \in IngestSteps /\ job'[p].end = job[p].end
           \/ pc'[p] \in BuildSteps /\ pc[p] \in BuildSteps /\ job'[p].end = job[p].end
           \/ pc'[p] \in GrowthSteps /\ pc[p] \in GrowthSteps
           \/ pc'[p] = "compacted" /\ job[p].op = "replay"
           \/ pc'[p] = "runLock" /\ job'[p].end \in Nat /\ job'[p].end <= Head + 1
    PROVE  JobInv(p)'
  BY DEF JobInv, OpenSteps, ExclusiveSteps, CompactSteps, IngestSteps, BuildSteps, ReadSteps,
         GrowthSteps

LEMMA JobStep ==
    ASSUME HistoryInv, NEW p \in Procs, ProcNext(p)
    PROVE  JobInv(p)'
  <1> USE DEF locks, local
  <1>0. /\ TypeInv /\ JobInv(p) /\ pc \in [Procs -> Steps] /\ job \in [Procs -> Jobs]
        /\ job[p] \in Jobs
    BY DEF HistoryInv, TypeInv
  <1>1. CASE \/ Fail(p) \/ Abandon(p) \/ Publish(p) \/ RecordGrowth(p)
             \/ Return(p)
    BY <1>0, <1>1, JobIdle DEF Fail, Abandon, Publish, RecordGrowth
  <1>2. CASE StartIngest(p)
    <2>1. PICK stop \in Stops : job' = [job EXCEPT ![p] =
              [NoJob EXCEPT !.op = "ingest", !.stop = stop, !.end = stop]]
      BY <1>2 DEF StartIngest
    <2>2. pc'[p] = "runLock" /\ job'[p].op = "ingest" /\ job'[p].end = stop /\ job'[p].keep = None
      BY <1>0, <1>2, <2>1 DEF StartIngest, Goto, NoJob
    <2> QED
      BY <2>1, <2>2, NumbersFit DEF JobInv, OpenSteps, ExclusiveSteps, CompactSteps, BuildSteps,
                                    ReadSteps
  <1>3. CASE StartCompact(p)
    <2>1. pc'[p] = "open" /\ job'[p].op = "compact" /\ job'[p].keep = None
      BY <1>0, <1>3 DEF StartCompact, Goto, NoJob
    <2> QED
      BY <2>1 DEF JobInv, OpenSteps, ExclusiveSteps, CompactSteps, BuildSteps, ReadSteps, IngestSteps
  <1>4. CASE StartCleanup(p)
    <2>1. PICK keep \in KeepBlocks, c \in checkpoints : job' = [job EXCEPT ![p] =
              [NoJob EXCEPT !.op = "cleanup", !.keep = keep, !.base = c]]
      BY <1>4 DEF StartCleanup
    <2>2. pc'[p] = "open" /\ job'[p].op = "cleanup" /\ job'[p].keep = keep
      BY <1>0, <1>4, <2>1 DEF StartCleanup, Goto, NoJob
    <2> QED
      BY <2>1, <2>2 DEF JobInv, OpenSteps, ExclusiveSteps, CompactSteps, BuildSteps, ReadSteps,
                        IngestSteps
  <1>5. CASE StartReplay(p)
    <2>1. PICK stop \in Stops : job' = [job EXCEPT ![p] =
              [NoJob EXCEPT !.op = "replay", !.stop = stop]]
      BY <1>5 DEF StartReplay
    <2>2. pc'[p] = "next" /\ job'[p].op = "replay" /\ job'[p].stop = stop /\ job'[p].keep = None
      BY <1>0, <1>5, <2>1 DEF StartReplay, Goto, NoJob
    <2> QED
      BY <2>1, <2>2 DEF JobInv, OpenSteps, ExclusiveSteps, CompactSteps, BuildSteps, ReadSteps,
                        IngestSteps
  <1>6. CASE StartBuild(p)
    <2>1. PICK base \in checkpoints \cup {None}, end \in Blocks : job' = [job EXCEPT ![p] =
              [NoJob EXCEPT !.op = "build", !.base = base, !.end = end]]
      BY <1>6 DEF StartBuild
    <2>2. /\ pc'[p] = "build" /\ job'[p].op = "build" /\ job'[p].base = base /\ job'[p].end = end
          /\ job'[p].keep = None
      BY <1>0, <1>6, <2>1 DEF StartBuild, Goto, NoJob
    <2> QED
      BY <1>0, <2>1, <2>2 DEF JobInv, OpenSteps, ExclusiveSteps, CompactSteps, BuildSteps, ReadSteps,
                              IngestSteps, TypeInv
  <1>7. CASE StartGrowth(p)
    <2>1. pc'[p] = "measure" /\ job'[p].op = "growth" /\ job'[p].keep = None
      BY <1>0, <1>7 DEF StartGrowth, Goto, NoJob
    <2> QED
      BY <2>1 DEF JobInv, OpenSteps, ExclusiveSteps, CompactSteps, BuildSteps, ReadSteps, IngestSteps
  <1>8. CASE AdmitIngest(p) \/ Sink(p)
    <2>1. /\ pc[p] \in IngestSteps /\ pc'[p] \in {"sink", "ingested"} /\ UNCHANGED job
      BY <1>0, <1>8 DEF AdmitIngest, Sink, Goto, IngestSteps
    <2> QED
      BY <1>0, <2>1, JobKept DEF IngestSteps
  <1>9. CASE Ingested(p) /\ ~Return(p)
    <2>1. pc[p] \in IngestSteps /\ pc'[p] = "next" /\ UNCHANGED job /\ job[p].op = "replay"
      BY <1>0, <1>9 DEF Ingested, Finish, Goto, IngestSteps
    <2> QED
      BY <1>0, <2>1 DEF JobInv, OpenSteps, ExclusiveSteps, CompactSteps, BuildSteps, ReadSteps,
                        IngestSteps
  <1>10. CASE TakePublisher(p)
    <2>1. /\ UNCHANGED job
          /\ \/ pc[p] \in OpenSteps /\ pc'[p] \in OpenSteps
             \/ pc[p] \in BuildSteps /\ pc'[p] \in BuildSteps
      BY <1>0, <1>10 DEF TakePublisher, Goto, OpenSteps, BuildSteps
    <2> QED
      BY <1>0, <2>1, JobKept DEF OpenSteps, BuildSteps, ReadSteps
  <1>11. CASE TakeRun(p) \/ TakeExclusive(p)
    <2>1. /\ UNCHANGED job /\ pc[p] \in OpenSteps
          /\ \/ pc'[p] \in OpenSteps
             \/ pc'[p] = "planCleanup" /\ job[p].op = "cleanup"
             \/ pc'[p] = "planCompact" /\ job[p].op # "cleanup"
      BY <1>0, <1>11 DEF TakeRun, TakeExclusive, Goto, OpenSteps
    <2> QED
      BY <1>0, <2>1, JobKept DEF OpenSteps
  <1>12. CASE PlanCompact(p)
    <2>1. PICK end, from, gen :
              job' = [job EXCEPT ![p].end = end, ![p].from = from, ![p].gen = gen]
      BY <1>12 DEF PlanCompact
    <2>2. /\ job'[p].op = job[p].op /\ job'[p].stop = job[p].stop /\ job'[p].next = job[p].next
          /\ job'[p].keep = job[p].keep /\ job'[p].base = job[p].base
      BY <1>0, <2>1 DEF Jobs
    <2>3. pc[p] = "planCompact" /\ pc'[p] \in {"planDrop", "dropOld"} /\ job[p].op # "cleanup"
      BY <1>0, <1>12 DEF PlanCompact, Goto, JobInv, ExclusiveSteps
    <2> QED
      BY <1>0, <2>2, <2>3, JobKept DEF ExclusiveSteps, CompactSteps
  <1>13. CASE FoldPrefix(p)
    <2>1. PICK g : job' = [job EXCEPT ![p].gen = g]
      BY <1>13 DEF FoldPrefix
    <2>2. /\ job'[p].op = job[p].op /\ job'[p].stop = job[p].stop /\ job'[p].next = job[p].next
          /\ job'[p].keep = job[p].keep /\ job'[p].base = job[p].base
      BY <1>0, <2>1 DEF Jobs
    <2>3. pc[p] = "dropOld" /\ pc'[p] = "foldBlocks" /\ job[p].op # "cleanup"
      BY <1>0, <1>13 DEF FoldPrefix, Goto, JobInv, ExclusiveSteps, CompactSteps
    <2> QED
      BY <1>0, <2>2, <2>3, JobKept DEF ExclusiveSteps, CompactSteps
  <1>14. CASE \/ DropOldGeneration(p) \/ FoldBlocks(p) \/ InsertGeneration(p) \/ CommitPointer(p)
    <2>1. /\ UNCHANGED job /\ pc[p] \in CompactSteps \ {"drop"} /\ pc'[p] \in CompactSteps
      BY <1>0, <1>14 DEF DropOldGeneration, FoldBlocks, InsertGeneration, CommitPointer, Goto,
                         CompactSteps
    <2>2. job[p].op # "cleanup"
      BY <1>0, <2>1 DEF JobInv, CompactSteps, ExclusiveSteps
    <2> QED
      BY <1>0, <2>1, <2>2, JobKept DEF ExclusiveSteps, CompactSteps
  <1>15. CASE PlanDrop(p) \/ PlanCleanup(p)
    <2>1. PICK days, months : job' = [job EXCEPT ![p].days = days, ![p].months = months]
      BY <1>15 DEF PlanDrop, PlanCleanup
    <2>2. /\ job'[p].op = job[p].op /\ job'[p].stop = job[p].stop /\ job'[p].next = job[p].next
          /\ job'[p].keep = job[p].keep /\ job'[p].base = job[p].base
      BY <1>0, <2>1 DEF Jobs
    <2>3. pc[p] \in {"planDrop", "planCleanup"} /\ pc'[p] = "drop"
      BY <1>0, <1>15 DEF PlanDrop, PlanCleanup, Goto
    <2> QED
      BY <1>0, <2>2, <2>3, JobKept DEF ExclusiveSteps, CompactSteps
  <1>16. CASE DropDay(p) \/ DropMonth(p)
    <2>1. PICK d, m : job' = [job EXCEPT ![p].days = d] \/ job' = [job EXCEPT ![p].months = m]
      BY <1>16 DEF DropDay, DropMonth
    <2>2. /\ job'[p].op = job[p].op /\ job'[p].stop = job[p].stop /\ job'[p].next = job[p].next
          /\ job'[p].keep = job[p].keep /\ job'[p].base = job[p].base
      BY <1>0, <2>1 DEF Jobs
    <2>3. pc[p] = "drop" /\ pc'[p] = "drop"
      BY <1>0, <1>16 DEF DropDay, DropMonth
    <2> QED
      BY <1>0, <2>2, <2>3, JobKept DEF ExclusiveSteps, CompactSteps
  <1>17. CASE Dropped(p) /\ ~Return(p)
    <2>1. UNCHANGED job /\ pc[p] = "drop" /\ pc'[p] = "dropRest" /\ job[p].op # "cleanup"
      BY <1>0, <1>17 DEF Dropped, Goto
    <2> QED
      BY <1>0, <2>1, JobKept DEF ExclusiveSteps, CompactSteps
  <1>18. CASE Compacted(p) /\ ~Return(p)
    <2>1. UNCHANGED job /\ pc[p] = "dropRest" /\ pc'[p] = "compacted" /\ job[p].op = "replay"
      BY <1>0, <1>18 DEF Compacted, Finish, Goto
    <2> QED
      BY <1>0, <2>1, JobKept
  <1>19. CASE NextChunk(p)
    <2>1. job[p].op = "replay" /\ job[p].stop \in Stops /\ job[p].keep = None
      BY <1>0, <1>19 DEF NextChunk, JobInv
    <2>2. CASE cursor = None
      <3>1. /\ job' = [job EXCEPT ![p].next = StartBlock, ![p].end = Chunk(p, StartBlock)]
            /\ pc'[p] = "runLock"
        BY <1>0, <1>19, <2>2 DEF NextChunk, Goto
      <3>2. /\ job'[p].op = "replay" /\ job'[p].stop = job[p].stop /\ job'[p].next = StartBlock
            /\ job'[p].end = Chunk(p, StartBlock) /\ job'[p].keep = None
        BY <1>0, <2>1, <3>1 DEF Jobs
      <3>3. Chunk(p, StartBlock) \in Nat /\ Chunk(p, StartBlock) <= Head + 1
        BY <2>1, ChunkFits, NumbersFit
      <3> QED
        BY <2>1, <3>1, <3>2, <3>3, NumbersFit DEF JobInv, OpenSteps, ExclusiveSteps, CompactSteps,
                                                  BuildSteps, ReadSteps
    <2>3. CASE cursor # None
      <3>1. job' = [job EXCEPT ![p].next = cursor + 1] /\ pc'[p] = "open" /\ cursor + 1 \in Nat
        BY <1>0, <1>19, <2>3, NumbersFit DEF NextChunk, Goto, TypeInv
      <3>2. /\ job'[p].op = "replay" /\ job'[p].stop = job[p].stop /\ job'[p].next = cursor + 1
            /\ job'[p].keep = None
        BY <1>0, <2>1, <3>1 DEF Jobs
      <3> QED
        BY <2>1, <3>1, <3>2 DEF JobInv, OpenSteps, ExclusiveSteps, CompactSteps, BuildSteps,
                                ReadSteps, IngestSteps
    <2> QED
      BY <2>2, <2>3
  <1>20. CASE ChunkCompacted(p) /\ ~Return(p)
    <2>1. /\ job' = [job EXCEPT ![p].end = Chunk(p, job[p].next)]
          /\ pc[p] = "compacted" /\ pc'[p] = "runLock"
      BY <1>0, <1>20 DEF ChunkCompacted, Goto
    <2>2. /\ job'[p].op = job[p].op /\ job'[p].stop = job[p].stop /\ job'[p].next = job[p].next
          /\ job'[p].keep = job[p].keep /\ job'[p].base = job[p].base
          /\ job'[p].end = Chunk(p, job[p].next)
      BY <1>0, <2>1 DEF Jobs
    <2>3. Chunk(p, job[p].next) \in Nat /\ Chunk(p, job[p].next) <= Head + 1
      BY <1>0, <2>1, ChunkFits DEF JobInv
    <2> QED
      BY <1>0, <2>1, <2>2, <2>3, JobKept
  <1>21. CASE TakeShared(p) \/ Validate(p) \/ Fold(p)
    <2>1. PICK from, gen, covers :
              \/ UNCHANGED job \/ job' = [job EXCEPT ![p].covers = covers]
              \/ job' = [job EXCEPT ![p].from = from, ![p].gen = gen]
      BY <1>21 DEF TakeShared, Validate, Fold
    <2>2. /\ job'[p].op = job[p].op /\ job'[p].stop = job[p].stop /\ job'[p].next = job[p].next
          /\ job'[p].keep = job[p].keep /\ job'[p].base = job[p].base
          /\ job'[p].end = job[p].end
      BY <1>0, <2>1 DEF Jobs
    <2>3. pc[p] \in BuildSteps /\ pc'[p] \in BuildSteps
      BY <1>0, <1>21 DEF TakeShared, Validate, Fold, Goto, BuildSteps, ReadSteps
    <2> QED
      BY <1>0, <2>2, <2>3, JobKept DEF BuildSteps, ReadSteps
  <1>22. CASE MeasureGrowth(p) \/ (RereadPointer(p) /\ ~Return(p))
    <2>1. PICK covers, end :
              UNCHANGED job \/ job' = [job EXCEPT ![p].covers = covers, ![p].end = end]
      BY <1>22 DEF MeasureGrowth, RereadPointer
    <2>2. /\ job'[p].op = job[p].op /\ job'[p].stop = job[p].stop /\ job'[p].next = job[p].next
          /\ job'[p].keep = job[p].keep /\ job'[p].base = job[p].base
      BY <1>0, <2>1 DEF Jobs
    <2>3. pc[p] \in GrowthSteps /\ pc'[p] \in GrowthSteps
      BY <1>0, <1>22 DEF MeasureGrowth, RereadPointer, Goto, GrowthSteps
    <2> QED
      BY <1>0, <2>2, <2>3, JobKept DEF GrowthSteps
  <1> QED
    BY <1>1, <1>2, <1>3, <1>4, <1>5, <1>6, <1>7, <1>8, <1>9, <1>10, <1>11, <1>12, <1>13, <1>14,
       <1>15, <1>16, <1>17, <1>18, <1>19, <1>20, <1>21, <1>22
       DEF ProcNext, Ingesting, Opening, Compacting, Cleaning, Replaying, Building, Recording

----------------------------------------------------------------------------
(* What other commands rely on                                              *)

LEMMA StepFrame ==
    ASSUME NEW q \in Procs, StepInv(q), pc'[q] = pc[q], job'[q] = job[q], TypeInv, TypeInv',
           pc[q] \in CompactSteps => UNCHANGED stored /\ stray' \subseteq stray,
           pc[q] = "fold" => rows \subseteq rows' /\ UNCHANGED <<storage, pointer>>,
           \/ UNCHANGED pointer
           \/ pointer' # None /\ (pointer # None => pointer.number < pointer'.number)
    PROVE  StepInv(q)'
  <1>1. CompactInv(q)'
    <2>1. CASE pc[q] \in CompactSteps
      BY <2>1 DEF StepInv, CompactInv, stored, First
    <2>2. CASE pc[q] \notin CompactSteps
      BY <2>2 DEF CompactInv, CompactSteps
    <2> QED
      BY <2>1, <2>2
  <1>2. DropInv(q)'
    BY DEF StepInv, DropInv, stored, CompactSteps, Expendable
  <1>3. FoldInv(q)'
    BY DEF StepInv, FoldInv, Behind
  <1>4. GrowthInv(q)'
    <2>1. CASE UNCHANGED pointer
      BY <2>1 DEF StepInv, GrowthInv, Measured
    <2>2. CASE pc[q] \in GrowthSteps /\ pointer' # None /\ pointer.number < pointer'.number
      <3>1. /\ job[q].base.number \in Int /\ pointer.number \in Int /\ pointer'.number \in Int
            /\ pointer # None
        BY <2>2, NumbersFit DEF StepInv, GrowthInv, TypeInv, Pointers
      <3>2. job[q].base.number < pointer'.number
        BY <2>2, <3>1 DEF StepInv, GrowthInv
      <3>3. pointer' # job[q].base
        BY <3>1, <3>2
      <3> QED
        BY <2>2, <3>2, <3>3 DEF StepInv, GrowthInv, Measured
    <2>3. CASE pc[q] \notin GrowthSteps
      BY <2>3 DEF GrowthInv, GrowthSteps
    <2> QED
      BY <2>1, <2>2, <2>3 DEF StepInv, GrowthInv
  <1> QED
    BY <1>1, <1>2, <1>3, <1>4 DEF StepInv

\* The commands that hold the locks of a fold or a drop are the only ones.
LEMMA OthersWait ==
    ASSUME HistoryInv, NEW p \in Procs, NEW q \in Procs \ {p}
    PROVE  /\ writer = p => pc[q] \notin CompactSteps \cup {"fold"}
           /\ run = p \/ run = None => pc[q] \notin CompactSteps
  BY NumbersFit DEF HistoryInv, LockInv, OwnLocks, ExclusiveSteps, ReadSteps

LEMMA OthersStep ==
    ASSUME HistoryInv, NEW p \in Procs, ProcNext(p), NEW q \in Procs \ {p}
    PROVE  StepInv(q)'
  <1> USE DEF stored, history, position, prefix
  <1>0. /\ StepInv(q) /\ pc'[q] = pc[q] /\ job'[q] = job[q] /\ TypeInv /\ TypeInv'
        /\ OwnLocks(p)
    BY ProcMoves, MovesOne, TypeStep DEF HistoryInv, LockInv
  <1>a. pc[q] \in CompactSteps => stray' \subseteq stray
    <2>1. CASE UNCHANGED stray
      BY <2>1
    <2>2. CASE pc[p] \in CompactSteps
      BY <1>0, <2>2, OthersWait DEF OwnLocks, ExclusiveSteps
    <2> QED
      BY <2>1, <2>2, StrayFrame
  <1>1. CASE ~Writes(p)
    <2>1. UNCHANGED stored
      BY <1>1, OthersRead
    <2> QED
      BY <1>0, <1>a, <2>1, StepFrame
  <1>2. CASE AdmitIngest(p) \/ Ingested(p) \/ (NextChunk(p) /\ cursor # None)
    <2>1. run = p \/ run = None
      BY <1>0, <1>2 DEF AdmitIngest, Ingested, NextChunk, OwnLocks
    <2>2. UNCHANGED <<rows, storage, pointer>>
      BY <1>2 DEF AdmitIngest, Ingested, NextChunk
    <2> QED
      BY <1>0, <1>a, <2>1, <2>2, OthersWait, StepFrame
  <1>3. CASE NextChunk(p) /\ cursor = None
    BY <1>0, <1>a, <1>3, StepFrame DEF NextChunk
  <1>4. CASE Sink(p)
    <2>1. run = p /\ rows \subseteq rows' /\ UNCHANGED <<storage, pointer>>
      BY <1>0, <1>4 DEF Sink, OwnLocks
    <2> QED
      BY <1>0, <1>a, <2>1, OthersWait, StepFrame
  <1>5. CASE \/ DropOldGeneration(p) \/ FoldPrefix(p) \/ FoldBlocks(p) \/ InsertGeneration(p)
             \/ DropDay(p) \/ DropMonth(p) \/ Publish(p)
    <2>1. writer = p
      BY <1>0, <1>5 DEF DropOldGeneration, FoldPrefix, FoldBlocks, InsertGeneration, DropDay,
                        DropMonth, Publish, OwnLocks, ExclusiveSteps, CompactSteps, ReadSteps
    <2>2. UNCHANGED pointer
      BY <1>5 DEF DropOldGeneration, FoldPrefix, FoldBlocks, InsertGeneration, DropDay, DropMonth,
                  Publish
    <2> QED
      BY <1>0, <1>a, <2>1, <2>2, OthersWait, StepFrame
  <1>6. CASE CommitPointer(p)
    <2>1. writer = p
      BY <1>0, <1>6 DEF CommitPointer, OwnLocks, ExclusiveSteps, CompactSteps
    <2>2. /\ job[p].gen \in Gens /\ job[p].end \in Blocks
          /\ pointer # None => pointer.number < job[p].end
      BY <1>6 DEF CommitPointer, HistoryInv, StepInv, CompactInv, JobInv, CompactSteps, ExclusiveSteps
    <2>3. pointer' = [gen |-> job[p].gen, number |-> job[p].end] /\ pointer' \in Pointers
      BY <1>6, <2>2 DEF CommitPointer, Pointers
    <2>4. pointer' # None /\ pointer'.number = job[p].end
      BY <2>3, NumbersFit
    <2> QED
      BY <1>0, <1>a, <2>1, <2>2, <2>4, OthersWait, StepFrame
  <1> QED
    BY <1>1, <1>2, <1>3, <1>4, <1>5, <1>6 DEF Writes

----------------------------------------------------------------------------
(* The data at rest                                                         *)

\* A generation other than the committed one may change.
LEMMA PrefixKept ==
    ASSUME RestInv, UNCHANGED <<rows, markers, cursor, progress, pointer, checkpoints>>,
           pointer # None => /\ manifests'[pointer.gen] = manifests[pointer.gen]
                             /\ storage'[pointer.gen] = storage[pointer.gen]
    PROVE  RestInv'
  BY DEF RestInv, InitialStateKept, PrefixValid, CursorBlockKept, Backed

\* The backup may be brought up to the cursor.
LEMMA BackupKept ==
    ASSUME RestInv, TypeInv, progress' \in {cursor, progress},
           UNCHANGED <<rows, markers, cursor, storage, manifests, pointer, checkpoints>>
    PROVE  RestInv'
  <1>1. cursor # None => cursor \in Int
    BY NumbersFit DEF TypeInv
  <1>2. InitialStateKept'
    BY DEF RestInv, InitialStateKept, PrefixValid
  <1>3. CursorBlockKept'
    BY <1>1 DEF RestInv, CursorBlockKept, Backed
  <1> QED
    BY <1>2, <1>3 DEF RestInv

\* Blocks that are neither after the prefix nor the cursor's may go, and those
\* after the prefix once there is a checkpoint.
LEMMA RestDrop ==
    ASSUME RestInv, TypeInv, rows' \subseteq rows, markers' \subseteq markers,
           UNCHANGED <<cursor, progress, storage, manifests, pointer, checkpoints>>,
           cursor = progress, cursor # None, cursor \in rows' \cap markers',
           checkpoints = {} => First..cursor \cap rows \subseteq rows'
    PROVE  RestInv'
  <1>1. InitialStateKept'
    BY DEF RestInv, InitialStateKept, PrefixValid, First
  <1>2. CursorBlockKept'
    BY DEF RestInv, CursorBlockKept, Backed
  <1> QED
    BY <1>1, <1>2 DEF RestInv

LEMMA RestStep ==
    ASSUME HistoryInv, NEW p \in Procs, ProcNext(p)
    PROVE  RestInv'
  <1> USE DEF stored, history, position, prefix
  <1>0. TypeInv /\ RestInv /\ StepInv(p) /\ JobInv(p)
    BY DEF HistoryInv
  <1>a. /\ pointer # None => /\ pointer.gen \in Gens /\ pointer.number \in Blocks
                             /\ pointer.number \in Int
        /\ StartBlock \in Int /\ Blocks \subseteq Int
    <2>1. StartBlock \in Int /\ Blocks \subseteq Int
      BY NumbersFit
    <2>2. pointer # None => pointer.gen \in Gens /\ pointer.number \in Blocks
      BY <1>0 DEF TypeInv, Pointers
    <2> QED
      BY <2>1, <2>2
  <1>1. CASE ~Writes(p)
    BY <1>0, <1>1, OthersRead, PrefixKept
  <1>2. CASE AdmitIngest(p) \/ Ingested(p) \/ NextChunk(p)
    BY <1>0, <1>2, BackupKept DEF AdmitIngest, Ingested, NextChunk
  <1>3. CASE Sink(p)
    <2>1. /\ rows' = rows \cup {NextBlock} /\ markers' = markers \cup {NextBlock}
          /\ cursor' = NextBlock /\ UNCHANGED <<progress, storage, manifests, pointer, checkpoints>>
      BY <1>3 DEF Sink, NextBlock
    <2>2. NextBlock \in Blocks /\ NextBlock \in Int /\ cursor' # None
      BY <1>3, <1>a, <2>1, SinkBlock, NumbersFit
    <2>3. CASE cursor = None
      <3>1. pointer = None /\ progress = None /\ NextBlock = StartBlock
        BY <1>0, <2>3 DEF RestInv, NextBlock
      <3>2. InitialStateKept'
        BY <1>a, <2>1, <3>1 DEF InitialStateKept, PrefixValid
      <3> QED
        BY <2>1, <3>1, <3>2 DEF RestInv, CursorBlockKept, Backed
    <2>4. CASE cursor # None
      <3>1. NextBlock = cursor + 1 /\ cursor \in Int
        BY <1>0, <1>a, <2>4 DEF NextBlock, TypeInv
      <3>2. InitialStateKept'
        <4>1. PrefixValid'
          BY <1>0, <2>1 DEF RestInv, InitialStateKept, PrefixValid
        <4>2. First \in Int
          BY <1>a DEF First
        <4>5. First' = First
          BY <2>1 DEF First
        <4>3. checkpoints = {} => First..NextBlock \subseteq rows'
          BY <1>0, <2>1, <2>4, <3>1, <4>2 DEF RestInv, InitialStateKept, First
        <4>4. checkpoints' = {} => (First..cursor)' \subseteq rows'
          BY <2>1, <4>3, <4>5
        <4> QED
          BY <4>1, <4>4 DEF InitialStateKept, First
      <3>3. CursorBlockKept'
        <4>0. progress # None => progress \in Blocks
          BY <1>0 DEF TypeInv
        <4>2. progress # None => progress \in Int
          BY <1>a, <4>0
        <4>3. progress # None => progress <= cursor
          BY <1>0 DEF RestInv, CursorBlockKept
        <4>1. progress # None => progress \in Int /\ progress <= cursor + 1
          BY <3>1, <4>2, <4>3
        <4> QED
          BY <1>0, <2>1, <3>1, <4>1 DEF RestInv, CursorBlockKept, Backed
      <3>4. pointer # None => pointer.number <= cursor + 1
        BY <1>0, <1>a, <3>1 DEF RestInv
      <3>5. pointer' # None => cursor' # None /\ pointer'.number <= cursor'
        BY <2>1, <2>2, <3>1, <3>4
      <3> QED
        BY <2>2, <3>2, <3>3, <3>5 DEF RestInv
    <2> QED
      BY <2>3, <2>4
  <1>4. CASE DropOldGeneration(p)
    <2>1. pointer # None => pointer.gen \in Kept(p)
      BY <1>0, <1>4 DEF DropOldGeneration, Kept, StepInv, CompactInv, JobInv, CompactSteps,
                        ExclusiveSteps
    <2>2. PICK g \in Gens \ Kept(p) :
              \/ manifests' = [manifests EXCEPT ![g] = None] /\ UNCHANGED storage
              \/ storage' = [storage EXCEPT ![g] = {}] /\ UNCHANGED manifests
      BY <1>4 DEF DropOldGeneration, Old
    <2> QED
      BY <1>0, <1>4, <1>a, <2>1, <2>2, PrefixKept DEF DropOldGeneration, TypeInv
  <1>5. CASE FoldPrefix(p)
    <2>1. PICK g \in Gens : /\ manifests[g] = None
                            /\ \E fold : storage' = [storage EXCEPT ![g] = fold]
      BY <1>5 DEF FoldPrefix, Fresh
    <2>2. pointer # None => pointer.gen # g
      BY <1>0, <1>a, <2>1, NumbersFit DEF RestInv, InitialStateKept, PrefixValid
    <2> QED
      BY <1>0, <1>5, <1>a, <2>1, <2>2, PrefixKept DEF FoldPrefix, TypeInv
  <1>6. CASE FoldBlocks(p) \/ InsertGeneration(p)
    <2>1. job[p].gen \in Gens /\ (pointer # None => job[p].gen # pointer.gen)
      BY <1>0, <1>6 DEF FoldBlocks, InsertGeneration, StepInv, CompactInv
    <2> QED
      BY <1>0, <1>6, <1>a, <2>1, PrefixKept DEF FoldBlocks, InsertGeneration, TypeInv
  <1>7. CASE CommitPointer(p)
    <2>1. /\ job[p].gen \in Gens /\ job[p].end \in Blocks /\ job[p].end <= cursor
          /\ pointer # None => pointer.number < job[p].end
          /\ storage[job[p].gen] = StartBlock..job[p].end
          /\ manifests[job[p].gen] = job[p].end /\ cursor # None /\ checkpoints = {}
      BY <1>0, <1>7 DEF CommitPointer, StepInv, CompactInv, JobInv, CompactSteps, ExclusiveSteps
    <2>2. /\ pointer' = [gen |-> job[p].gen, number |-> job[p].end] /\ pointer' # None
          /\ pointer'.gen = job[p].gen /\ pointer'.number = job[p].end
          /\ UNCHANGED <<rows, markers, cursor, progress, storage, manifests, checkpoints>>
      BY <1>7, <2>1, NumbersFit DEF CommitPointer, Pointers
    <2>3. First <= job[p].end /\ First \in Int /\ cursor \in Int /\ job[p].end \in Int
      BY <1>0, <1>a, <2>1 DEF First, TypeInv, Blocks
    <2>4. (job[p].end + 1)..cursor \subseteq rows
      <3>1. First..cursor \subseteq rows
        BY <1>0, <2>1 DEF RestInv, InitialStateKept, First
      <3> QED
        BY <2>3, <3>1
    <2>5. InitialStateKept'
      BY <2>1, <2>2, <2>4 DEF InitialStateKept, PrefixValid
    <2>6. CursorBlockKept'
      BY <1>0, <2>2 DEF RestInv, CursorBlockKept, Backed
    <2> QED
      BY <1>0, <2>1, <2>2, <2>5, <2>6 DEF RestInv
  <1>8. CASE DropDay(p) \/ DropMonth(p)
    <2>1. pc[p] = "drop" /\ UNCHANGED <<cursor, progress, storage, manifests, pointer, checkpoints>>
      BY <1>8 DEF DropDay, DropMonth
    <2>2. cursor = progress /\ cursor # None /\ cursor \in Int
      BY <1>0, <1>a, <2>1 DEF StepInv, CompactInv, DropInv, CompactSteps, TypeInv
    <2>3. cursor \in rows /\ cursor \in markers
      BY <1>0, <2>2 DEF RestInv, CursorBlockKept, Backed
    <2>4. rows' \subseteq rows /\ \A n \in rows \ rows' : Expendable(p, n)
      BY <1>0, <1>8, <2>1 DEF DropDay, DropMonth, StepInv, DropInv
    <2>5. markers' \subseteq markers /\ \A n \in markers \ markers' : Expendable(p, n)
      BY <1>0, <1>8, <2>1 DEF DropDay, DropMonth, StepInv, DropInv
    <2>6. CASE job[p].op = "cleanup"
      <3>1. job[p].keep \in Nat /\ job[p].keep > 0 /\ checkpoints # {}
        <4>1. job[p].keep \in KeepBlocks /\ checkpoints # {}
          BY <1>0, <2>1, <2>6 DEF JobInv, ExclusiveSteps, CompactSteps, StepInv, DropInv
        <4> QED
          BY <4>1, KeepPositive
      <3>2. ~Expendable(p, cursor)
        BY <2>2, <2>6, <3>1 DEF Expendable
      <3> QED
        BY <1>0, <2>1, <2>2, <2>3, <2>4, <2>5, <3>1, <3>2, RestDrop
    <2>7. CASE job[p].op # "cleanup"
      <3>1. /\ job[p].end \in Int /\ job[p].end <= cursor /\ pointer # None
            /\ pointer.number = job[p].end
        BY <1>0, <1>a, <2>1, <2>7 DEF StepInv, CompactInv, CompactSteps
      <3>2. ~Expendable(p, cursor)
        BY <2>2, <2>7, <3>1 DEF Expendable
      <3>3. \A n \in First..cursor : ~Expendable(p, n)
        BY <2>2, <2>7, <3>1 DEF Expendable, First
      <3>4. First..cursor \cap rows \subseteq rows' /\ cursor \in rows' \cap markers'
        BY <2>3, <2>4, <2>5, <3>2, <3>3
      <3> QED
        BY <1>0, <2>1, <2>2, <2>4, <2>5, <3>4, RestDrop, Zenon
    <2> QED
      BY <2>6, <2>7
  <1>9. CASE Publish(p)
    <2>1. /\ checkpoints' # {}
          /\ UNCHANGED <<rows, markers, cursor, progress, storage, manifests, pointer>>
      BY <1>9 DEF Publish
    <2> QED
      BY <1>0, <2>1 DEF RestInv, InitialStateKept, PrefixValid, CursorBlockKept, Backed
  <1> QED
    BY <1>1, <1>2, <1>3, <1>4, <1>5, <1>6, <1>7, <1>8, <1>9 DEF Writes

----------------------------------------------------------------------------
(* What a command itself relies on                                          *)

LEMMA StepIdle ==
    ASSUME NEW p \in Procs, pc'[p] \notin CompactSteps \cup {"fold", "publish"} \cup GrowthSteps
    PROVE  StepInv(p)'
  BY DEF StepInv, CompactInv, DropInv, FoldInv, GrowthInv, CompactSteps, GrowthSteps

\* At a step of a compaction or cleanup only the first two parts say anything.
LEMMA StepExclusive ==
    ASSUME NEW p \in Procs, pc'[p] \in CompactSteps, CompactInv(p)', DropInv(p)'
    PROVE  StepInv(p)'
  BY DEF StepInv, FoldInv, GrowthInv, CompactSteps, GrowthSteps

LEMMA PlanCompactStep ==
    ASSUME HistoryInv, NEW p \in Procs, PlanCompact(p)
    PROVE  StepInv(p)'
  <1> USE DEF history, position, prefix
  <1>0. /\ TypeInv /\ RestInv /\ JobInv(p) /\ pc \in [Procs -> Steps] /\ job \in [Procs -> Jobs]
        /\ job[p] \in Jobs /\ pc[p] = "planCompact"
    BY DEF HistoryInv, TypeInv, PlanCompact
  <1> DEFINE end == IF job[p].op = "replay" \/ job[p].end = None THEN progress ELSE job[p].end
             again == pointer # None /\ pointer.number = end
  <1>1. /\ checkpoints = {} /\ progress # None /\ cursor = progress
        /\ end <= progress /\ end \in rows /\ First <= end + 1 /\ First..end \subseteq rows
        /\ job' = [job EXCEPT ![p].end = end, ![p].from = First,
                              ![p].gen = IF again THEN pointer.gen ELSE None]
        /\ pc' = [pc EXCEPT ![p] = IF again THEN "planDrop" ELSE "dropOld"]
        /\ UNCHANGED <<rows, markers, cursor, progress, storage, manifests, pointer, checkpoints>>
    BY DEF PlanCompact, Settled, Goto, First
  <1>2. /\ job'[p].end = end /\ job'[p].from = First /\ job'[p].op = job[p].op
        /\ job'[p].gen = IF again THEN pointer.gen ELSE None
    BY <1>0, <1>1 DEF Jobs
  <1>3. end \in Blocks /\ end \in Int /\ First \in Int
    <2>1. Blocks \subseteq Int /\ StartBlock \in Int
      BY NumbersFit
    <2>2. pointer # None => pointer.number \in Blocks
      BY <1>0 DEF TypeInv, Pointers
    <2>3. end \in Blocks
      BY <1>0, <1>1 DEF TypeInv
    <2>4. pointer # None => pointer.number \in Int
      BY <2>1, <2>2
    <2>5. First \in Int
      BY <2>1, <2>4 DEF First
    <2> QED
      BY <2>1, <2>3, <2>5
  <1>4. ~again => First <= end
    <2>0. pointer # None => pointer.number \in Blocks
      BY <1>0 DEF TypeInv, Pointers
    <2>1. pointer # None => pointer.number \in Int
      BY <2>0, HistoryAssumption DEF Blocks
    <2>2. StartBlock <= end
      BY <1>3, HistoryAssumption DEF Blocks
    <2>3. CASE pointer = None
      BY <2>2, <2>3 DEF First
    <2>4. CASE pointer # None
      BY <1>1, <1>3, <2>1, <2>4 DEF First
    <2> QED
      BY <2>3, <2>4
  <1>5. First' = First
    BY <1>1 DEF First
  <1>6. CASE again
    <2>1. pc'[p] = "planDrop" /\ job'[p].gen = pointer.gen /\ pointer.number = end /\ pointer # None
      BY <1>0, <1>1, <1>2, <1>6
    <2>2. CompactInv(p)'
      BY <1>1, <1>2, <1>3, <2>1 DEF CompactInv
    <2> QED
      BY <2>1, <2>2, StepExclusive DEF DropInv, CompactSteps
  <1>7. CASE ~again
    <2>1. pc'[p] = "dropOld"
      BY <1>0, <1>1, <1>7
    <2>2. CompactInv(p)'
      BY <1>1, <1>2, <1>3, <1>4, <1>5, <1>7, <2>1 DEF CompactInv
    <2> QED
      BY <2>1, <2>2, StepExclusive DEF DropInv, CompactSteps
  <1> QED
    BY <1>6, <1>7

\* The facts every step of a compaction after its plan starts from.
LEMMA CompactFacts ==
    ASSUME HistoryInv, NEW p \in Procs, pc[p] \in CompactSteps \ {"drop"}
    PROVE  /\ job[p].op # "cleanup" /\ checkpoints = {} /\ cursor = progress /\ cursor # None
           /\ job[p].end \in Blocks /\ job[p].end <= cursor
           /\ job[p].end \in Int /\ StartBlock \in Int /\ StartBlock <= job[p].end
           /\ pointer # None => pointer.gen \in Gens /\ pointer.number \in Int
           /\ CompactInv(p) /\ TypeInv /\ RestInv /\ job[p] \in Jobs
  <1>0. TypeInv /\ RestInv /\ JobInv(p) /\ CompactInv(p)
    BY DEF HistoryInv, StepInv
  <1>1. /\ job[p].op # "cleanup" /\ CompactInv(p) /\ TypeInv /\ RestInv /\ job[p] \in Jobs
    <2>1. job[p].op # "cleanup"
      BY <1>0 DEF JobInv, ExclusiveSteps, CompactSteps
    <2>2. job[p] \in Jobs
      BY <1>0 DEF TypeInv
    <2> QED
      BY <1>0, <2>1, <2>2
  <1>2. /\ checkpoints = {} /\ cursor = progress /\ cursor # None
        /\ job[p].end \in Blocks /\ job[p].end <= cursor
    BY <1>1 DEF CompactInv
  <1>3. pointer # None => pointer.gen \in Gens /\ pointer.number \in Blocks
    BY <1>1 DEF TypeInv, Pointers
  <1>4. Blocks \subseteq Int /\ \A n \in Blocks : StartBlock <= n
    BY HistoryAssumption DEF Blocks
  <1>5. StartBlock \in Int
    BY HistoryAssumption
  <1>6. /\ job[p].end \in Int /\ StartBlock <= job[p].end
        /\ pointer # None => pointer.number \in Int
    BY <1>2, <1>3, <1>4
  <1> QED
    BY <1>1, <1>2, <1>3, <1>5, <1>6

LEMMA DropOldStep ==
    ASSUME HistoryInv, NEW p \in Procs, DropOldGeneration(p)
    PROVE  StepInv(p)'
  <1> USE DEF history, position, local
  <1>1. /\ pc[p] \in {"dropOld", "dropRest"}
        /\ UNCHANGED <<rows, cursor, progress, pointer, checkpoints, pc, job>>
    BY DEF DropOldGeneration
  <1>2. CompactInv(p)
    BY DEF HistoryInv, StepInv
  <1>3. CompactInv(p)'
    BY <1>1, <1>2 DEF CompactInv, First
  <1> QED
    BY <1>1, <1>3, StepExclusive DEF DropInv, CompactSteps

LEMMA FoldPrefixStep ==
    ASSUME HistoryInv, NEW p \in Procs, FoldPrefix(p)
    PROVE  StepInv(p)'
  <1> USE DEF history, position
  <1>0. pc[p] = "dropOld" /\ pc'[p] = "foldBlocks"
    BY DEF FoldPrefix, Goto, HistoryInv, TypeInv
  <1>1. PICK g \in Gens :
            /\ manifests[g] = None /\ \A s \in stray : s.do \notin Dropping => s.of # g
            /\ storage' = [storage EXCEPT ![g] = IF pointer = None THEN {} ELSE storage[pointer.gen]]
            /\ job' = [job EXCEPT ![p].gen = g]
    BY DEF FoldPrefix, Fresh
  <1>2. UNCHANGED <<rows, cursor, progress, pointer, checkpoints, stray>>
    BY DEF FoldPrefix
  <1>3. /\ job'[p].gen = g /\ job'[p].op = job[p].op /\ job'[p].end = job[p].end
        /\ job'[p].from = job[p].from
    BY <1>1 DEF HistoryInv, TypeInv, Jobs
  <1>4. /\ job[p].op # "cleanup" /\ checkpoints = {} /\ cursor = progress /\ cursor # None
        /\ job[p].end \in Blocks /\ job[p].end <= cursor
        /\ job[p].end \in Int /\ StartBlock \in Int
        /\ pointer # None => pointer.gen \in Gens /\ pointer.number \in Int
        /\ CompactInv(p) /\ TypeInv /\ RestInv
    BY <1>0, CompactFacts DEF CompactSteps
  <1>5. /\ job[p].from = First /\ First <= job[p].end /\ First..job[p].end \subseteq rows
    BY <1>0, <1>4 DEF CompactInv
  <1>6. pointer # None => /\ g # pointer.gen /\ pointer.number < job[p].end
                          /\ storage[pointer.gen] = StartBlock..pointer.number
    <2>1. pointer # None => /\ manifests[pointer.gen] = pointer.number /\ pointer.number \in Blocks
                            /\ storage[pointer.gen] = StartBlock..pointer.number
      BY <1>4 DEF RestInv, InitialStateKept, PrefixValid, TypeInv, Pointers
    <2>2. pointer # None => pointer.number < job[p].end
      BY <1>4, <1>5 DEF First
    <2> QED
      BY <1>1, <2>1, <2>2, NumbersFit
  <1>7. storage'[g] = StartBlock..(First - 1)
    BY <1>1, <1>4, <1>6 DEF First, TypeInv
  <1>8. First' = First
    BY <1>2 DEF First
  <1>9. CompactInv(p)'
    BY <1>0, <1>1, <1>2, <1>3, <1>4, <1>5, <1>6, <1>7, <1>8 DEF CompactInv
  <1> QED
    BY <1>0, <1>9, StepExclusive DEF DropInv, CompactSteps

LEMMA FoldBlocksStep ==
    ASSUME HistoryInv, NEW p \in Procs, FoldBlocks(p)
    PROVE  StepInv(p)'
  <1> USE DEF history, position
  <1>0. pc[p] = "foldBlocks" /\ pc'[p] = "genManifest"
        /\ UNCHANGED <<rows, cursor, progress, pointer, checkpoints, job, stray>>
    BY DEF FoldBlocks, Goto, HistoryInv, TypeInv
  <1>1. /\ job[p].op # "cleanup" /\ checkpoints = {} /\ cursor = progress /\ cursor # None
        /\ job[p].end \in Blocks /\ job[p].end <= cursor
        /\ job[p].end \in Int /\ StartBlock \in Int
        /\ pointer # None => pointer.gen \in Gens /\ pointer.number \in Int
        /\ CompactInv(p) /\ TypeInv /\ RestInv
    BY <1>0, CompactFacts DEF CompactSteps
  <1>2. /\ job[p].from = First /\ First <= job[p].end /\ First..job[p].end \subseteq rows
        /\ job[p].gen \in Gens /\ storage[job[p].gen] = StartBlock..(First - 1)
        /\ pointer # None => job[p].gen # pointer.gen /\ pointer.number < job[p].end
        /\ \A s \in stray : s.do \notin Dropping => s.of # job[p].gen
    BY <1>0, <1>1 DEF CompactInv
  <1>3. storage'[job[p].gen] = (StartBlock..(First - 1)) \cup (First..job[p].end)
    BY <1>1, <1>2 DEF FoldBlocks, TypeInv
  <1>4. First \in Int /\ StartBlock <= First
    <2>1. pointer # None => StartBlock <= pointer.number
      BY <1>1, HistoryAssumption DEF TypeInv, Pointers, Blocks
    <2> QED
      BY <1>1, <2>1 DEF First
  <1>5. storage'[job[p].gen] = StartBlock..job[p].end
    BY <1>1, <1>2, <1>3, <1>4
  <1>6. CompactInv(p)'
    BY <1>0, <1>1, <1>2, <1>5 DEF CompactInv
  <1> QED
    BY <1>0, <1>6, StepExclusive DEF DropInv, CompactSteps

LEMMA InsertGenerationStep ==
    ASSUME HistoryInv, NEW p \in Procs, InsertGeneration(p)
    PROVE  StepInv(p)'
  <1> USE DEF history, position
  <1>0. pc[p] = "genManifest" /\ pc'[p] = "commit"
        /\ UNCHANGED <<rows, cursor, progress, storage, pointer, checkpoints, job, stray>>
    BY DEF InsertGeneration, Goto, HistoryInv, TypeInv
  <1>1. CompactInv(p) /\ TypeInv
    BY <1>0 DEF HistoryInv, StepInv
  <1>2. manifests'[job[p].gen] = job[p].end
    BY <1>0, <1>1 DEF InsertGeneration, TypeInv, CompactInv
  <1>3. CompactInv(p)'
    BY <1>0, <1>1, <1>2 DEF CompactInv, CompactSteps
  <1> QED
    BY <1>0, <1>3, StepExclusive DEF DropInv, CompactSteps

LEMMA CommitPointerStep ==
    ASSUME HistoryInv, NEW p \in Procs, CommitPointer(p)
    PROVE  StepInv(p)'
  <1> USE DEF history, position
  <1>0. pc[p] = "commit" /\ pc'[p] = "planDrop"
        /\ UNCHANGED <<rows, cursor, progress, storage, checkpoints, job>>
    BY DEF CommitPointer, Goto, HistoryInv, TypeInv
  <1>1. /\ checkpoints = {} /\ cursor = progress /\ cursor # None
        /\ job[p].end \in Blocks /\ job[p].end <= cursor /\ job[p].gen \in Gens
    <2>1. checkpoints = {} /\ cursor = progress /\ cursor # None
          /\ job[p].end \in Blocks /\ job[p].end <= cursor /\ CompactInv(p)
      BY <1>0, CompactFacts DEF CompactSteps
    <2> QED
      BY <1>0, <2>1 DEF CompactInv
  <1>2. /\ pointer' # None /\ pointer'.gen = job[p].gen /\ pointer'.number = job[p].end
    BY <1>1, NumbersFit DEF CommitPointer, Pointers
  <1>3. CompactInv(p)'
    BY <1>0, <1>1, <1>2 DEF CompactInv
  <1> QED
    BY <1>0, <1>3, StepExclusive DEF DropInv, CompactSteps

LEMMA DivGrows ==
    ASSUME NEW a \in Nat, NEW b \in Nat, a <= b, NEW size \in Nat \ {0}
    PROVE  a \div size <= b \div size /\ a \div size \in Int /\ b \div size \in Int
  OBVIOUS

\* A plan leaves the partition of a stored block that it does not drop alone,
\* and those after it.
LEMMA PartitionsPast ==
    ASSUME NEW table \in SUBSET Nat, NEW size \in Nat \ {0}, NEW before \in Int,
           NEW tip \in table, before <= tip,
           NEW d \in PartitionsBefore(table, size, before)
    PROVE  d \in Int /\ d < tip \div size
  <1>1. PICK n \in table : d = n \div size
    BY DEF PartitionsBefore
  <1>2. /\ n < before
        /\ d = tip \div size => tip < before
    BY <1>1 DEF PartitionsBefore
  <1>3. n \in Nat /\ tip \in Nat
    OBVIOUS
  <1>4. n <= tip
    BY <1>2, <1>3
  <1>5. d <= tip \div size /\ d \in Int /\ tip \div size \in Int
    BY <1>1, <1>3, <1>4, DivGrows
  <1> QED
    BY <1>2, <1>3, <1>5

\* So no block is stored there later, as blocks are stored after the cursor.
LEMMA PlannedPast ==
    ASSUME TypeInv, RestInv, progress # None, NEW before \in Int, before <= progress
    PROVE  /\ \A d \in PartitionsBefore(rows, DaySize, before) : d \in Int /\ d < Day(progress)
           /\ \A m \in PartitionsBefore(markers, MonthSize, before) :
                  m \in Int /\ m < Month(progress)
  <1>1. rows \in SUBSET Nat /\ markers \in SUBSET Nat
    BY NumbersFit DEF TypeInv
  <1>2. progress \in rows /\ progress \in markers
    BY DEF RestInv, CursorBlockKept, Backed
  <1>3. DaySize \in Nat \ {0} /\ MonthSize \in Nat \ {0}
    BY HistoryAssumption
  <1> QED
    BY <1>1, <1>2, <1>3, PartitionsPast DEF Day, Month

LEMMA PartitionsOlder ==
    ASSUME NEW table, NEW size, NEW before, NEW n \in table,
           n \div size \in PartitionsBefore(table, size, before)
    PROVE  n < before
  BY DEF PartitionsBefore

LEMMA PlanDropStep ==
    ASSUME HistoryInv, NEW p \in Procs, PlanDrop(p)
    PROVE  StepInv(p)'
  <1> USE DEF history, position, prefix
  <1>0. /\ pc[p] = "planDrop" /\ pc'[p] = "drop" /\ pc \in [Procs -> Steps]
        /\ UNCHANGED <<rows, markers, cursor, progress, pointer, checkpoints>>
        /\ job' = [job EXCEPT ![p].days = PartitionsBefore(rows, DaySize, job[p].end),
                              ![p].months = PartitionsBefore(markers, MonthSize, job[p].end)]
    BY DEF PlanDrop, Goto, HistoryInv, TypeInv
  <1>1. /\ job'[p].days = PartitionsBefore(rows, DaySize, job[p].end)
        /\ job'[p].months = PartitionsBefore(markers, MonthSize, job[p].end)
        /\ job'[p].op = job[p].op /\ job'[p].end = job[p].end /\ job'[p].gen = job[p].gen
    BY <1>0 DEF HistoryInv, TypeInv, Jobs
  <1>2. /\ job[p].op # "cleanup" /\ checkpoints = {} /\ cursor = progress /\ cursor # None
        /\ job[p].end \in Blocks /\ job[p].end <= cursor /\ CompactInv(p)
    BY <1>0, CompactFacts DEF CompactSteps
  <1>3. CompactInv(p)'
    BY <1>0, <1>1, <1>2 DEF CompactInv
  <1>4. \A n \in rows' : Day(n) \in job'[p].days => Expendable(p, n)'
    BY <1>0, <1>1, <1>2, PartitionsOlder DEF Day, Expendable
  <1>5. \A n \in markers' : Month(n) \in job'[p].months => Expendable(p, n)'
    BY <1>0, <1>1, <1>2, PartitionsOlder DEF Month, Expendable
  <1>7. /\ progress # None
        /\ \A d \in job'[p].days : d \in Int /\ d < Day(progress)
        /\ \A m \in job'[p].months : m \in Int /\ m < Month(progress)
    <2>1. TypeInv /\ RestInv /\ job[p].end \in Int
      BY <1>0, CompactFacts DEF CompactSteps
    <2> QED
      BY <1>1, <1>2, <2>1, PlannedPast
  <1>6. DropInv(p)'
    BY <1>0, <1>1, <1>2, <1>4, <1>5, <1>7 DEF DropInv, Day, Month
  <1> QED
    BY <1>0, <1>3, <1>6, StepExclusive DEF CompactSteps

\* What is older than the cutoff of a cleanup is expendable, and older than the
\* backed-up cursor.
LEMMA CutoffKeeps ==
    ASSUME TypeInv, NEW keep \in KeepBlocks, progress \in Blocks, checkpoints # {}, NEW before,
           before = Min({Min({c.number : c \in checkpoints}) + 1, Max({progress - (keep - 1), 0})})
    PROVE  /\ before \in Int /\ before <= progress
           /\ \A n \in Blocks : n < before => /\ n < progress - keep + 1
                                             /\ \A c \in checkpoints : n <= c.number
  <1> DEFINE numbers == {c.number : c \in checkpoints}
             floor == Min(numbers)
             recent == Max({progress - (keep - 1), 0})
  <1>1. keep \in Nat /\ keep > 0 /\ progress \in Int /\ progress > 0
    BY KeepPositive, HistoryAssumption DEF Blocks
  <1>2. numbers \in SUBSET Nat /\ numbers # {}
    <2>1. \A c \in checkpoints : c.number \in Blocks
      BY DEF TypeInv, Checkpoints
    <2> QED
      BY <2>1, NumbersFit
  <1>3. floor \in Nat /\ \A c \in checkpoints : floor <= c.number
    <2>1. floor \in numbers /\ \A x \in numbers : floor <= x
      BY <1>2, MinIsLeast
    <2> HIDE DEF floor
    <2> QED
      BY <1>2, <2>1
  <1>4. recent \in {progress - (keep - 1), 0}
    BY <1>1, MaxOfTwo
  <1>5. floor + 1 \in Int /\ recent \in Int
    BY <1>1, <1>3, <1>4
  <1>6. before \in {floor + 1, recent} /\ before <= floor + 1 /\ before <= recent
    BY <1>5, MinOfTwo
  <1> HIDE DEF floor, recent
  <1>7. before \in Int /\ before <= progress
    BY <1>1, <1>4, <1>5, <1>6
  <1>8. ASSUME NEW n \in Blocks, n < before
        PROVE  n < progress - keep + 1 /\ \A c \in checkpoints : n <= c.number
    <2>1. n \in Int /\ n > 0
      BY HistoryAssumption DEF Blocks
    <2>2. n < floor + 1 /\ n < recent
      BY <1>5, <1>6, <1>7, <1>8, <2>1
    <2>3. n < progress - keep + 1
      BY <1>1, <1>4, <2>1, <2>2
    <2>4. \A c \in checkpoints : n <= c.number
      <3> SUFFICES ASSUME NEW c \in checkpoints PROVE n <= c.number
        OBVIOUS
      <3>1. c.number \in Int /\ floor <= c.number
        BY <1>2, <1>3 DEF floor
      <3> QED
        BY <1>3, <2>1, <2>2, <3>1
    <2> QED
      BY <2>3, <2>4
  <1> QED
    BY <1>7, <1>8

LEMMA PlanCleanupStep ==
    ASSUME HistoryInv, NEW p \in Procs, PlanCleanup(p)
    PROVE  StepInv(p)'
  <1> USE DEF history, position, prefix
  <1> DEFINE before == Min({Min({c.number : c \in checkpoints}) + 1,
                            Max({progress - (job[p].keep - 1), 0})})
  <1>0. /\ pc[p] = "planCleanup" /\ pc'[p] = "drop"
        /\ UNCHANGED <<rows, markers, cursor, progress, pointer, checkpoints>>
        /\ checkpoints # {} /\ progress # None /\ cursor = progress
        /\ job' = [job EXCEPT ![p].days = PartitionsBefore(rows, DaySize, before),
                              ![p].months = PartitionsBefore(markers, MonthSize, before)]
    BY DEF PlanCleanup, Settled, Goto, HistoryInv, TypeInv
  <1> HIDE DEF before
  <1>1. /\ job'[p].days = PartitionsBefore(rows, DaySize, before)
        /\ job'[p].months = PartitionsBefore(markers, MonthSize, before)
        /\ job'[p].op = job[p].op /\ job'[p].keep = job[p].keep
    BY <1>0 DEF HistoryInv, TypeInv, Jobs
  <1>2. /\ job[p].op = "cleanup" /\ job[p].keep \in KeepBlocks /\ TypeInv
        /\ progress \in Blocks /\ RestInv
    BY <1>0 DEF HistoryInv, JobInv, ExclusiveSteps, TypeInv
  <1>3. /\ before \in Int /\ before <= progress
        /\ \A n \in Blocks : n < before => /\ n < cursor - job[p].keep + 1
                                          /\ \A c \in checkpoints : n <= c.number
    BY <1>0, <1>2, CutoffKeeps DEF before
  <1>4. \A n \in Blocks : n < before => Expendable(p, n)'
    BY <1>0, <1>1, <1>2, <1>3 DEF Expendable
  <1>5. \A n \in rows' : Day(n) \in job'[p].days => Expendable(p, n)'
    BY <1>0, <1>1, <1>2, <1>4, PartitionsOlder DEF Day, TypeInv
  <1>6. \A n \in markers' : Month(n) \in job'[p].months => Expendable(p, n)'
    BY <1>0, <1>1, <1>2, <1>4, PartitionsOlder DEF Month, TypeInv
  <1>9. /\ \A d \in job'[p].days : d \in Int /\ d < Day(progress)
        /\ \A m \in job'[p].months : m \in Int /\ m < Month(progress)
    BY <1>0, <1>1, <1>2, <1>3, PlannedPast
  <1>7. DropInv(p)'
    BY <1>0, <1>5, <1>6, <1>9 DEF DropInv, Day, Month
  <1>8. CompactInv(p)'
    BY <1>0, <1>1, <1>2 DEF CompactInv
  <1> QED
    BY <1>0, <1>7, <1>8, StepExclusive DEF CompactSteps

LEMMA DropStep ==
    ASSUME HistoryInv, NEW p \in Procs, DropDay(p) \/ DropMonth(p)
    PROVE  StepInv(p)'
  <1> USE DEF history, position, prefix
  <1>0. /\ pc[p] = "drop" /\ pc'[p] = "drop" /\ rows' \subseteq rows /\ markers' \subseteq markers
        /\ UNCHANGED <<cursor, progress, pointer, checkpoints>>
    BY DEF DropDay, DropMonth, HistoryInv, TypeInv
  <1>1. PICK d, m : \/ job' = [job EXCEPT ![p].days = job[p].days \ {d}]
                    \/ job' = [job EXCEPT ![p].months = job[p].months \ {m}]
    BY DEF DropDay, DropMonth
  <1>2. /\ job'[p].days \subseteq job[p].days /\ job'[p].months \subseteq job[p].months
        /\ job'[p].op = job[p].op /\ job'[p].end = job[p].end /\ job'[p].gen = job[p].gen
        /\ job'[p].keep = job[p].keep
    BY <1>1 DEF HistoryInv, TypeInv, Jobs
  <1>3. DropInv(p) /\ CompactInv(p)
    BY DEF HistoryInv, StepInv
  <1>4. \A n : Expendable(p, n) <=> Expendable(p, n)'
    BY <1>0, <1>2 DEF Expendable
  <1>5. DropInv(p)'
    BY <1>0, <1>2, <1>3, <1>4 DEF DropInv, Day, Month
  <1>6. CompactInv(p)'
    BY <1>0, <1>2, <1>3 DEF CompactInv
  <1> QED
    BY <1>0, <1>5, <1>6, StepExclusive DEF CompactSteps

LEMMA DroppedStep ==
    ASSUME HistoryInv, NEW p \in Procs, Dropped(p)
    PROVE  StepInv(p)'
  <1> USE DEF history, position, prefix
  <1>1. CASE Return(p)
    BY <1>1, ReturnMoves, StepIdle DEF HistoryInv, CompactSteps, GrowthSteps
  <1>2. CASE ~Return(p)
    <2>1. /\ pc[p] = "drop" /\ pc'[p] = "dropRest" /\ job[p].op # "cleanup"
          /\ UNCHANGED <<job, cursor, progress, pointer, checkpoints>> /\ CompactInv(p)
      BY <1>2 DEF Dropped, Goto, HistoryInv, TypeInv, StepInv
    <2>2. CompactInv(p)'
      BY <2>1 DEF CompactInv, CompactSteps
    <2> QED
      BY <2>1, <2>2, StepExclusive DEF DropInv, CompactSteps
  <1> QED
    BY <1>1, <1>2

LEMMA ValidateStep ==
    ASSUME HistoryInv, NEW p \in Procs, Validate(p)
    PROVE  StepInv(p)'
  <1> USE DEF history, position, prefix
  <1> DEFINE start == IF job[p].base = None THEN StartBlock ELSE job[p].base.number + 1
             used == pointer # None /\ start <= pointer.number
             from == IF used THEN pointer.number + 1 ELSE start
  <1>0. /\ pc[p] = "validate" /\ pc'[p] = "fold"
        /\ UNCHANGED <<rows, storage, pointer>>
        /\ job[p].base # None => job[p].base.number < job[p].end
        /\ used => start = StartBlock /\ pointer.number <= job[p].end
        /\ from..job[p].end \subseteq rows
        /\ job' = [job EXCEPT ![p].from = from, ![p].gen = IF used THEN pointer.gen ELSE None]
    BY DEF Validate, Goto, HistoryInv, TypeInv
  <1>1. /\ job'[p].from = from /\ job'[p].gen = (IF used THEN pointer.gen ELSE None)
        /\ job'[p].base = job[p].base /\ job'[p].end = job[p].end
    BY <1>0 DEF HistoryInv, TypeInv, Jobs
  <1>2. /\ job[p].end \in Blocks /\ job[p].base \in Checkpoints \cup {None}
        /\ TypeInv /\ PrefixValid
    BY <1>0 DEF HistoryInv, JobInv, BuildSteps, ReadSteps, RestInv, InitialStateKept
  <1>3. /\ Blocks \subseteq Int /\ StartBlock \in Int /\ \A n \in Blocks : StartBlock <= n
    BY HistoryAssumption DEF Blocks
  <1>4. /\ job[p].end \in Int /\ StartBlock <= job[p].end
        /\ job[p].base # None => job[p].base.number \in Int /\ StartBlock <= job[p].base.number
    <2>1. job[p].base # None => job[p].base.number \in Blocks
      BY <1>2 DEF Checkpoints
    <2> QED
      BY <1>2, <1>3, <2>1
  <1>5. pointer # None => /\ pointer.number \in Int /\ StartBlock <= pointer.number
                          /\ pointer.gen \in Gens
                          /\ storage[pointer.gen] = StartBlock..pointer.number
    <2>1. pointer # None => pointer.number \in Blocks /\ pointer.gen \in Gens
      BY <1>2 DEF TypeInv, Pointers
    <2> QED
      BY <1>2, <1>3, <2>1 DEF PrefixValid
  <1>6. CASE used
    <2>1. /\ job[p].base = None /\ job'[p].gen = pointer.gen /\ job'[p].gen # None
          /\ job'[p].from = pointer.number + 1
      BY <1>0, <1>1, <1>3, <1>4, <1>5, <1>6, NumbersFit
    <2>2. Behind(p)' = StartBlock..pointer.number
      BY <1>0, <1>1, <1>5, <1>6, <2>1 DEF Behind
    <2>3. /\ job'[p].from \in StartBlock..(job'[p].end + 1)
          /\ StartBlock..pointer.number = StartBlock..(job'[p].from - 1)
      BY <1>0, <1>1, <1>3, <1>4, <1>5, <1>6, <2>1
    <2>5. pointer.number < job'[p].from
      BY <1>5, <1>6, <2>1
    <2>4. FoldInv(p)'
      BY <1>0, <1>1, <1>6, <2>1, <2>2, <2>3, <2>5 DEF FoldInv
    <2> QED
      BY <1>0, <2>4 DEF StepInv, CompactInv, DropInv, GrowthInv, CompactSteps, GrowthSteps
  <1>7. CASE ~used
    <2>1. job'[p].gen = None /\ job'[p].from = start
      BY <1>1, <1>7
    <2>2. Behind(p)' = StartBlock..(start - 1)
      BY <1>1, <1>3, <1>4, <2>1 DEF Behind
    <2>3. job'[p].from \in StartBlock..(job'[p].end + 1)
      BY <1>0, <1>1, <1>3, <1>4, <2>1
    <2>5. pointer # None => pointer.number < job'[p].from
      BY <1>3, <1>4, <1>5, <1>7, <2>1
    <2>4. FoldInv(p)'
      BY <1>0, <1>1, <2>1, <2>2, <2>3, <2>5 DEF FoldInv
    <2> QED
      BY <1>0, <2>4 DEF StepInv, CompactInv, DropInv, GrowthInv, CompactSteps, GrowthSteps
  <1> QED
    BY <1>6, <1>7

LEMMA FoldStep ==
    ASSUME HistoryInv, NEW p \in Procs, Fold(p)
    PROVE  StepInv(p)'
  <1>0. /\ pc[p] = "fold" /\ pc'[p] = "publish"
        /\ job' = [job EXCEPT ![p].covers = Behind(p) \cup ((job[p].from..job[p].end) \cap rows)]
    BY DEF Fold, Goto, HistoryInv, TypeInv, Behind
  <1>1. /\ job'[p].covers = Behind(p) \cup ((job[p].from..job[p].end) \cap rows)
        /\ job'[p].end = job[p].end /\ job'[p].struck = job[p].struck
    BY <1>0 DEF HistoryInv, TypeInv, Jobs
  <1>2. /\ job[p].from \in StartBlock..(job[p].end + 1)
        /\ Behind(p) = StartBlock..(job[p].from - 1)
        /\ ~job[p].struck => job[p].from..job[p].end \subseteq rows
        /\ job[p].end \in Blocks
    BY <1>0 DEF HistoryInv, StepInv, FoldInv, JobInv, BuildSteps, ReadSteps
  <1>3. job[p].end \in Int /\ StartBlock \in Int
    BY <1>2, HistoryAssumption DEF Blocks
  <1>4. ~job[p].struck =>
            job'[p].covers = (StartBlock..(job[p].from - 1)) \cup (job[p].from..job[p].end)
    BY <1>1, <1>2
  <1>5. ~job'[p].struck => job'[p].covers = StartBlock..job'[p].end
    BY <1>1, <1>2, <1>3, <1>4
  <1> QED
    BY <1>0, <1>5 DEF StepInv, CompactInv, DropInv, FoldInv, GrowthInv, CompactSteps, GrowthSteps

LEMMA GrowthStep ==
    ASSUME HistoryInv, NEW p \in Procs, StartGrowth(p) \/ MeasureGrowth(p) \/ RereadPointer(p)
    PROVE  StepInv(p)'
  <1> USE DEF others, history, position, prefix
  <1>0. UNCHANGED pointer /\ TypeInv /\ GrowthInv(p)
    BY DEF StartGrowth, MeasureGrowth, RereadPointer, HistoryInv, StepInv
  <1>1. ASSUME pc'[p] \in GrowthSteps, GrowthInv(p)'
        PROVE  StepInv(p)'
    BY <1>1 DEF StepInv, CompactInv, DropInv, FoldInv, CompactSteps, GrowthSteps
  <1>2. CASE StartGrowth(p)
    <2>1. pc'[p] = "measure" /\ job'[p].base = pointer /\ pointer # None
      BY <1>0, <1>2 DEF StartGrowth, Goto, NoJob, TypeInv
    <2> QED
      BY <1>0, <1>1, <2>1 DEF GrowthInv, GrowthSteps, TypeInv
  <1>3. CASE MeasureGrowth(p)
    <2>1. /\ pc[p] = "measure" /\ pc'[p] = "reread"
          /\ job' = [job EXCEPT ![p].covers = storage[job[p].base.gen],
                                ![p].end = manifests[job[p].base.gen]]
      BY <1>0, <1>3 DEF MeasureGrowth, Goto, TypeInv
    <2>2. /\ job'[p].covers = storage[job[p].base.gen] /\ job'[p].end = manifests[job[p].base.gen]
          /\ job'[p].base = job[p].base
      BY <1>0, <2>1 DEF TypeInv, Jobs
    <2>3. pointer # None /\ (pointer = job[p].base => Measured(p)')
      BY <1>0, <2>1, <2>2 DEF GrowthInv, GrowthSteps, Measured, HistoryInv, RestInv,
                              InitialStateKept, PrefixValid
    <2> QED
      BY <1>0, <1>1, <2>1, <2>2, <2>3 DEF GrowthInv, GrowthSteps
  <1>4. CASE RereadPointer(p) /\ ~Return(p)
    <2>1. pc[p] = "reread" /\ pc'[p] = "record" /\ pointer = job[p].base /\ UNCHANGED job
      BY <1>0, <1>4 DEF RereadPointer, Reread, Goto, TypeInv
    <2> QED
      BY <1>0, <1>1, <2>1 DEF GrowthInv, GrowthSteps, Measured
  <1>5. CASE RereadPointer(p) /\ Return(p)
    BY <1>0, <1>5, ReturnMoves, StepIdle DEF CompactSteps, GrowthSteps
  <1> QED
    BY <1>2, <1>3, <1>4, <1>5

LEMMA OwnStep ==
    ASSUME HistoryInv, NEW p \in Procs, ProcNext(p)
    PROVE  StepInv(p)'
  <1> DEFINE Rest == {"idle", "next", "compacted", "build", "buildShared", "validate",
                      "planCompact", "planCleanup"} \cup IngestSteps \cup OpenSteps
  <1>0. ASSUME pc'[p] \in Rest
        PROVE  StepInv(p)'
    BY <1>0, StepIdle DEF IngestSteps, OpenSteps, CompactSteps, GrowthSteps
  <1>a. TypeInv /\ pc \in [Procs -> Steps]
    BY DEF HistoryInv, TypeInv
  <1>1. CASE Return(p)
    BY <1>0, <1>1, <1>a, ReturnMoves
  <1>2. CASE Ingesting(p) /\ ~Return(p)
    <2>1. pc'[p] \in Rest
      BY <1>2, <1>a DEF Ingesting, StartIngest, AdmitIngest, Sink, Ingested, Finish, Goto, local,
                        IngestSteps
    <2> QED
      BY <1>0, <2>1
  <1>3. CASE Opening(p)
    <2>1. pc'[p] \in Rest
      BY <1>3, <1>a DEF Opening, StartCompact, StartCleanup, TakePublisher, TakeRun, TakeExclusive,
                        Goto, OpenSteps
    <2> QED
      BY <1>0, <2>1
  <1>4. CASE Compacted(p) /\ ~Return(p)
    <2>1. pc'[p] \in Rest
      BY <1>4, <1>a DEF Compacted, Finish, Goto
    <2> QED
      BY <1>0, <2>1
  <1>5. CASE Compacting(p) /\ ~Compacted(p)
    BY <1>5, PlanCompactStep, DropOldStep, FoldPrefixStep, FoldBlocksStep, InsertGenerationStep,
       CommitPointerStep, PlanDropStep DEF Compacting
  <1>6. CASE Cleaning(p)
    BY <1>6, PlanCleanupStep, DropStep, DroppedStep DEF Cleaning
  <1>7. CASE Replaying(p) /\ ~Return(p)
    <2>1. pc'[p] \in Rest
      BY <1>7, <1>a DEF Replaying, StartReplay, NextChunk, ChunkCompacted, Goto, IngestSteps,
                        OpenSteps
    <2> QED
      BY <1>0, <2>1
  <1>8. CASE StartBuild(p) \/ TakeShared(p)
    <2>1. pc'[p] \in Rest
      BY <1>8, <1>a DEF StartBuild, TakeShared, Goto
    <2> QED
      BY <1>0, <2>1
  <1>9. CASE Validate(p) \/ Fold(p)
    BY <1>9, ValidateStep, FoldStep
  <1>10. CASE StartGrowth(p) \/ MeasureGrowth(p) \/ RereadPointer(p)
    BY <1>10, GrowthStep
  <1>11. CASE Publish(p) \/ RecordGrowth(p) \/ Fail(p) \/ Abandon(p)
    BY <1>1, <1>11 DEF Publish, RecordGrowth, Fail, Abandon
  <1> QED
    BY <1>1, <1>2, <1>3, <1>4, <1>5, <1>6, <1>7, <1>8, <1>9, <1>10, <1>11
       DEF ProcNext, Building, Recording, Compacting

----------------------------------------------------------------------------
(* Statements of dead commands                                              *)

\* What a statement may drop stays dispensable while the run goes on: the
\* cursor, its backup, the prefix and the set of ready checkpoints only advance,
\* and blocks are stored in later partitions.
LEMMA StrayKept ==
    ASSUME TypeInv, TypeInv', RestInv, NEW s, StrayInv(s),
           rows' \subseteq rows \cup {n \in Blocks : progress # None => progress <= n},
           markers' \subseteq markers \cup {n \in Blocks : progress # None => progress <= n},
           progress # None => progress' # None /\ progress <= progress',
           cursor # None => cursor' # None /\ cursor <= cursor',
           \/ UNCHANGED pointer
           \/ /\ pointer' # None /\ (pointer # None => pointer.number < pointer'.number)
              /\ s.do \notin Dropping => s.of # pointer'.gen,
           checkpoints # {} => checkpoints' # {}
    PROVE  StrayInv(s)'
  <1>1. CASE s.do \notin Dropping
    BY <1>1 DEF StrayInv, Dropping
  <1>2. CASE s.do \in Dropping
    <2>1. /\ progress # None /\ s.of \in Int /\ s.spares \subseteq Checkpoints
          /\ s.keep = None => pointer # None /\ s.spares = {}
          /\ s.keep # None => s.keep \in KeepBlocks /\ checkpoints # {}
      BY <1>2 DEF StrayInv
    <2>2. /\ progress \in Nat /\ progress' \in Nat /\ progress <= progress'
          /\ cursor \in Nat /\ cursor' \in Nat /\ cursor <= cursor' /\ progress' # None
      BY <2>1, NumbersFit DEF RestInv, TypeInv
    <2>3. pointer # None => /\ pointer' # None /\ pointer.number \in Nat /\ pointer'.number \in Nat
                            /\ pointer.number <= pointer'.number
      <3>1. \A x \in Pointers : x.number \in Nat
        BY NumbersFit DEF Pointers
      <3>2. pointer \in Pointers \cup {None} /\ pointer' \in Pointers \cup {None}
        BY DEF TypeInv
      <3>3. pointer # None => pointer' # None /\ (pointer' = pointer \/ pointer.number < pointer'.number)
        OBVIOUS
      <3> QED
        BY <3>1, <3>2, <3>3
    <2>4. DaySize \in Nat \ {0} /\ MonthSize \in Nat \ {0} /\ Blocks \subseteq Nat
      BY HistoryAssumption, NumbersFit
    <2>5. /\ Day(progress) \in Int /\ Day(progress') \in Int /\ Day(progress) <= Day(progress')
          /\ Month(progress) \in Int /\ Month(progress') \in Int
          /\ Month(progress) <= Month(progress')
      BY <2>2, <2>4, DivGrows DEF Day, Month
    <2>6. ASSUME NEW n \in Blocks, progress <= n
          PROVE  /\ Day(n) \in Int /\ Day(progress) <= Day(n)
                 /\ Month(n) \in Int /\ Month(progress) <= Month(n)
      BY <2>2, <2>4, <2>6, DivGrows DEF Day, Month
    <2>7. ASSUME NEW n \in Blocks, Spent(s, n)
          PROVE  Spent(s, n)'
      <3>1. n \in Nat /\ (s.keep # None => s.keep \in Nat)
        BY <2>1, <2>4, KeepPositive
      <3> QED
        BY <2>1, <2>2, <2>3, <2>7, <3>1 DEF Spent
    <2>8. rows \subseteq Blocks /\ markers \subseteq Blocks
      BY DEF TypeInv
    <2>9. s.do = "dropDay" => /\ s.of < Day(progress')
                             /\ \A n \in rows' : Day(n) = s.of => Spent(s, n)'
      <3> SUFFICES ASSUME s.do = "dropDay"
                   PROVE  /\ s.of < Day(progress')
                          /\ \A n \in rows' : Day(n) = s.of => Spent(s, n)'
        OBVIOUS
      <3>1. s.of < Day(progress) /\ \A n \in rows : Day(n) = s.of => Spent(s, n)
        BY DEF StrayInv
      <3>2. \A n \in Blocks : progress <= n => Day(n) # s.of
        BY <2>1, <2>5, <2>6, <3>1
      <3> QED
        BY <2>1, <2>5, <2>7, <2>8, <3>1, <3>2
    <2>10. s.do = "dropMonth" => /\ s.of < Month(progress')
                                /\ \A n \in markers' : Month(n) = s.of => Spent(s, n)'
      <3> SUFFICES ASSUME s.do = "dropMonth"
                   PROVE  /\ s.of < Month(progress')
                          /\ \A n \in markers' : Month(n) = s.of => Spent(s, n)'
        OBVIOUS
      <3>1. s.of < Month(progress) /\ \A n \in markers : Month(n) = s.of => Spent(s, n)
        BY DEF StrayInv
      <3>2. \A n \in Blocks : progress <= n => Month(n) # s.of
        BY <2>1, <2>5, <2>6, <3>1
      <3> QED
        BY <2>1, <2>5, <2>7, <2>8, <3>1, <3>2
    <2>11. s.do # "insertStorage" /\ s.do # "insertManifest"
      BY <1>2 DEF Dropping
    <2>12. Day(progress)' = Day(progress') /\ Month(progress)' = Month(progress')
      BY DEF Day, Month
    <2>13. s.keep = None => pointer' # None
      BY <2>1, <2>3
    <2>14. s.keep # None => checkpoints' # {}
      BY <2>1
    <2> QED
      BY ONLY <1>2, <2>1, <2>2, <2>9, <2>10, <2>11, <2>12, <2>13, <2>14 DEF StrayInv, Day, Month
  <1> QED
    BY <1>1, <1>2

\* A drop that is sent takes expendable blocks only, of a command with the locks.
LEMMA DropInFlight ==
    ASSUME HistoryInv, NEW p \in Procs, pc[p] = "drop", NEW s,
           \/ \E d \in job[p].days : s = Drop(p, "dropDay", d)
           \/ \E m \in job[p].months : s = Drop(p, "dropMonth", m)
    PROVE  StrayInv(s)
  <1>1. DropInv(p) /\ CompactInv(p) /\ JobInv(p) /\ TypeInv /\ RestInv
    BY DEF HistoryInv, StepInv
  <1>2. /\ s.do \in {"dropDay", "dropMonth"} /\ s.keep = job[p].keep /\ s.spares = checkpoints
        /\ s.do = "dropDay" => s.of \in job[p].days
        /\ s.do = "dropMonth" => s.of \in job[p].months
    BY DEF Drop, Insert
  <1>3. /\ progress # None /\ cursor = progress /\ cursor # None
        /\ \A d \in job[p].days : d \in Int /\ d < Day(progress)
        /\ \A m \in job[p].months : m \in Int /\ m < Month(progress)
        /\ \A n \in rows : Day(n) \in job[p].days => Expendable(p, n)
        /\ \A n \in markers : Month(n) \in job[p].months => Expendable(p, n)
    BY <1>1 DEF DropInv, CompactInv, CompactSteps
  <1>4. cursor \in Nat /\ rows \subseteq Nat /\ markers \subseteq Nat
    BY <1>1, <1>3, NumbersFit DEF TypeInv
  <1>5. CASE job[p].op = "cleanup"
    <2>1. job[p].keep \in KeepBlocks /\ checkpoints # {} /\ checkpoints \subseteq Checkpoints
      BY <1>1, <1>5 DEF JobInv, DropInv, TypeInv, ExclusiveSteps, CompactSteps
    <2>2. s.keep # None /\ s.keep \in Nat /\ s.keep > 0
      BY <1>2, <2>1, KeepPositive, HistoryAssumption
    <2>3. \A n \in Nat : Expendable(p, n) => Spent(s, n)
      BY <1>2, <1>3, <1>4, <1>5, <2>2 DEF Expendable, Spent
    <2> QED
      BY <1>2, <1>3, <1>4, <2>1, <2>2, <2>3 DEF StrayInv, Dropping
  <1>6. CASE job[p].op # "cleanup"
    <2>1. /\ s.keep = None /\ s.spares = {} /\ pointer # None /\ pointer.number = job[p].end
          /\ job[p].end \in Blocks /\ job[p].end <= cursor
      BY <1>1, <1>2, <1>6 DEF JobInv, CompactInv, CompactSteps
    <2>2. job[p].end \in Nat
      BY <2>1, NumbersFit
    <2>3. \A n \in Nat : Expendable(p, n) => Spent(s, n)
      BY <1>3, <1>4, <1>6, <2>1, <2>2 DEF Expendable, Spent
    <2> QED
      BY <1>2, <1>3, <1>4, <2>1, <2>3 DEF StrayInv, Dropping
  <1> QED
    BY <1>5, <1>6

\* Nor does a write of a compaction name the committed generation.
LEMMA WriteInFlight ==
    ASSUME HistoryInv, NEW p \in Procs, pc[p] # "drop", NEW s \in InFlight(p)
    PROVE  StrayInv(s)
  <1>1. CompactInv(p) /\ JobInv(p) /\ TypeInv /\ RestInv
    BY DEF HistoryInv, StepInv
  <1>2. pc[p] \in {"dropOld", "dropRest", "foldBlocks", "genManifest"}
    BY DEF InFlight
  <1>3. job[p].end \in Blocks /\ (pointer # None => pointer.gen \in Gens)
    BY <1>2, CompactFacts DEF CompactSteps
  <1>4. Selected(p) \subseteq Blocks
    BY <1>1, <1>3 DEF Selected, TypeInv
  <1>5. pointer # None => /\ manifests[pointer.gen] # None
                          /\ pc[p] \in {"dropOld", "dropRest"} => pointer.gen \in Kept(p)
                          /\ pc[p] \in {"foldBlocks", "genManifest"} => job[p].gen # pointer.gen
    <2>1. pointer # None => manifests[pointer.gen] # None
      BY <1>1, NumbersFit DEF RestInv, InitialStateKept, PrefixValid, TypeInv, Pointers
    <2>2. pc[p] = "dropRest" /\ pointer # None => pointer.gen = job[p].gen
      BY <1>1 DEF JobInv, CompactInv, ExclusiveSteps, CompactSteps
    <2> QED
      BY <1>1, <2>1, <2>2 DEF CompactInv, Kept
  <1>6. CASE pc[p] \in {"dropOld", "dropRest"} /\ Old(p) # {}
    <2>1. PICK g \in Old(p) : s = Drop(p, "dropManifest", g) \/ s = Drop(p, "dropStorage", g)
      BY <1>6 DEF InFlight
    <2>2. s.do \in {"dropManifest", "dropStorage"} /\ s.of = g /\ g \notin Kept(p)
      BY <2>1 DEF Drop, Insert, Old
    <2> QED
      BY <1>5, <1>6, <2>2 DEF StrayInv, Dropping
  <1>7. CASE pc[p] = "dropOld" /\ Old(p) = {}
    <2>1. PICK g \in Gens : Fresh(g) /\ s = Insert(p, "insertStorage", g, Selected(p), None)
      BY <1>7 DEF InFlight
    <2>2. s.do = "insertStorage" /\ s.of = g /\ s.blocks = Selected(p) /\ manifests[g] = None
      BY <2>1 DEF Insert, Fresh
    <2> QED
      BY <1>4, <1>5, <2>2 DEF StrayInv, Dropping
  <1>8. CASE pc[p] = "foldBlocks"
    <2>1. s = Insert(p, "insertStorage", job[p].gen, Selected(p), None)
      BY <1>8 DEF InFlight
    <2>2. s.do = "insertStorage" /\ s.of = job[p].gen /\ s.blocks = Selected(p)
      BY <2>1 DEF Insert
    <2> QED
      BY <1>4, <1>5, <1>8, <2>2 DEF StrayInv, Dropping
  <1>9. CASE pc[p] = "genManifest"
    <2>1. s = Insert(p, "insertManifest", job[p].gen, {}, job[p].end)
      BY <1>9 DEF InFlight
    <2>2. s.do = "insertManifest" /\ s.of = job[p].gen /\ s.number = job[p].end
      BY <2>1 DEF Insert
    <2> QED
      BY <1>3, <1>5, <1>9, <2>2 DEF StrayInv, Dropping
  <1> QED
    BY <1>2, <1>6, <1>7, <1>8, <1>9 DEF InFlight

LEMMA InFlightStray ==
    ASSUME HistoryInv, NEW p \in Procs, NEW s \in InFlight(p)
    PROVE  StrayInv(s)
  <1>1. CASE pc[p] = "drop"
    <2>1. \/ \E d \in job[p].days : s = Drop(p, "dropDay", d)
          \/ \E m \in job[p].months : s = Drop(p, "dropMonth", m)
      BY <1>1 DEF InFlight
    <2> QED
      BY <1>1, <2>1, DropInFlight
  <1>2. CASE pc[p] # "drop"
    BY <1>2, WriteInFlight
  <1> QED
    BY <1>1, <1>2

\* What the steps of a command do to the data a statement in flight is about.
LEMMA StrayStep ==
    ASSUME HistoryInv, NEW p \in Procs, ProcNext(p), NEW s \in stray'
    PROVE  StrayInv(s)'
  <1> USE DEF stored, history, position, prefix
  <1>0. TypeInv /\ TypeInv' /\ RestInv
    BY TypeStep DEF HistoryInv
  <1>a. /\ cursor # None => cursor \in Int
        /\ progress # None => cursor # None /\ progress \in Int /\ progress <= cursor
    BY <1>0, NumbersFit DEF TypeInv, RestInv, CursorBlockKept
  <1>b. s \notin stray => UNCHANGED stored /\ StrayInv(s)
    <2>1. s \notin stray => Abandon(p) /\ s \in InFlight(p)
      BY StrayFrame DEF Abandon
    <2> QED
      BY <2>1, InFlightStray DEF Abandon
  <1>c. StrayInv(s)
    BY <1>b DEF HistoryInv
  <1>1. CASE ~Writes(p)
    <2>1. UNCHANGED stored
      BY <1>1, OthersRead
    <2> QED
      BY <1>0, <1>a, <1>c, <2>1, StrayKept
  <1>2. CASE AdmitIngest(p) \/ Ingested(p) \/ NextChunk(p)
    <2>1. progress' \in {progress, cursor}
          /\ UNCHANGED <<rows, markers, cursor, pointer, checkpoints>>
      BY <1>2 DEF AdmitIngest, Ingested, NextChunk
    <2> QED
      BY <1>0, <1>a, <1>c, <2>1, StrayKept
  <1>3. CASE Sink(p)
    <2>1. /\ rows' = rows \cup {NextBlock} /\ markers' = markers \cup {NextBlock}
          /\ cursor' = NextBlock /\ UNCHANGED <<progress, pointer, checkpoints>>
      BY <1>3 DEF Sink, NextBlock
    <2>2. NextBlock \in Blocks /\ cursor' # None
      BY <1>3, <2>1, SinkBlock, NumbersFit
    <2>3. /\ cursor # None => cursor <= cursor'
          /\ progress # None => progress <= NextBlock
      BY <1>a, <2>1 DEF NextBlock
    <2> QED
      BY <1>0, <1>a, <1>c, <2>1, <2>2, <2>3, StrayKept
  <1>4. CASE \/ DropOldGeneration(p) \/ FoldPrefix(p) \/ FoldBlocks(p) \/ InsertGeneration(p)
             \/ DropDay(p) \/ DropMonth(p) \/ Publish(p)
    <2>1. /\ rows' \subseteq rows /\ markers' \subseteq markers /\ UNCHANGED <<cursor, progress, pointer>>
          /\ checkpoints \subseteq checkpoints'
      BY <1>4 DEF DropOldGeneration, FoldPrefix, FoldBlocks, InsertGeneration, DropDay, DropMonth,
                  Publish
    <2> QED
      BY <1>0, <1>a, <1>c, <2>1, StrayKept
  <1>5. CASE CommitPointer(p)
    <2>1. /\ job[p].gen \in Gens /\ job[p].end \in Blocks
          /\ pointer # None => pointer.number < job[p].end
          /\ \A r \in stray : r.do \notin Dropping => r.of # job[p].gen
      BY <1>5 DEF CommitPointer, HistoryInv, StepInv, CompactInv, JobInv, CompactSteps, ExclusiveSteps
    <2>2. pointer' # None /\ pointer'.number = job[p].end /\ pointer'.gen = job[p].gen
      BY <1>5, <2>1, NumbersFit DEF CommitPointer, Pointers
    <2>3. UNCHANGED <<rows, markers, cursor, progress, checkpoints>> /\ s \in stray
      BY <1>5 DEF CommitPointer
    <2> QED
      BY <1>0, <1>a, <1>c, <2>1, <2>2, <2>3, StrayKept
  <1> QED
    BY <1>1, <1>2, <1>3, <1>4, <1>5 DEF Writes

----------------------------------------------------------------------------
(* Theorems                                                                 *)

\* The store's other operations need the writer lock to be free.
LEMMA StoreStep ==
    ASSUME HistoryInv, ImportCheckpoint \/ RetireCheckpoint
    PROVE  HistoryInv'
  <1> USE DEF history, position, prefix, locks, local
  <1>0. /\ TypeInv /\ LockInv /\ RestInv /\ writer = None /\ checkpoints' # {}
        /\ UNCHANGED <<rows, markers, cursor, progress, storage, manifests, pointer, writer, run,
                       shared, exclusive, pc, job, stray>>
    BY DEF HistoryInv, ImportCheckpoint, RetireCheckpoint
  <1>1. TypeInv'
    <2>1. checkpoints' \subseteq Checkpoints
      <3>1. \A n \in Foreign : [number |-> n, native |-> FALSE] \in Checkpoints
        BY HistoryAssumption DEF Checkpoints
      <3> QED
        BY <1>0, <3>1 DEF ImportCheckpoint, RetireCheckpoint, TypeInv
    <2> QED
      BY <1>0, <2>1 DEF TypeInv
  <1>2. LockInv'
    BY <1>0 DEF LockInv, OwnLocks
  <1>3. RestInv'
    BY <1>0 DEF RestInv, InitialStateKept, PrefixValid, CursorBlockKept, Backed
  <1>4. ASSUME NEW q \in Procs
        PROVE  JobInv(q)' /\ StepInv(q)'
    <2>1. JobInv(q) /\ StepInv(q) /\ OwnLocks(q) /\ q # None
      BY NumbersFit DEF HistoryInv, LockInv
    <2>2. JobInv(q)'
      BY <1>0, <2>1 DEF JobInv
    <2>3. pc[q] \notin CompactSteps
      BY <1>0, <2>1 DEF OwnLocks, ExclusiveSteps
    <2>4. StepInv(q)'
      BY <1>0, <1>1, <2>1, <2>3, StepFrame
    <2> QED
      BY <2>2, <2>4
  <1>5. ASSUME NEW s \in stray'
        PROVE  StrayInv(s)'
    <2>1. /\ cursor # None => cursor \in Int
          /\ progress # None => progress \in Int
      BY <1>0, NumbersFit DEF TypeInv
    <2>2. StrayInv(s)
      BY <1>0 DEF HistoryInv
    <2> QED
      BY <1>0, <1>1, <2>1, <2>2, StrayKept
  <1> QED
    BY <1>1, <1>2, <1>3, <1>4, <1>5 DEF HistoryInv

\* The generations after a statement nobody waited for: the committed one is
\* as before, and so is every generation that no such statement names.
LEMMA StrayGenerations ==
    ASSUME HistoryInv, NEW s \in stray,
           manifests' = [g \in Gens |-> CASE s.do = "dropManifest" /\ g = s.of -> None
                                          [] s.do = "insertManifest" /\ g = s.of -> s.number
                                          [] OTHER -> manifests[g]],
           storage' = [g \in Gens |-> CASE s.do = "dropStorage" /\ g = s.of -> {}
                                        [] s.do = "insertStorage" /\ g = s.of ->
                                              storage[g] \cup s.blocks
                                        [] OTHER -> storage[g]]
    PROVE  /\ storage' \in [Gens -> SUBSET Blocks] /\ manifests' \in [Gens -> Blocks \cup {None}]
           /\ \A g \in Gens : (s.do \notin Dropping => s.of # g) =>
                  storage'[g] = storage[g] /\ manifests'[g] = manifests[g]
  <1>1. /\ StrayInv(s) /\ storage \in [Gens -> SUBSET Blocks]
        /\ manifests \in [Gens -> Blocks \cup {None}]
    BY DEF HistoryInv, TypeInv
  <1>2. storage' \in [Gens -> SUBSET Blocks]
    BY <1>1 DEF StrayInv
  <1>3. manifests' \in [Gens -> Blocks \cup {None}]
    BY <1>1 DEF StrayInv
  <1>4. ASSUME NEW g \in Gens, s.do \notin Dropping => s.of # g
        PROVE  storage'[g] = storage[g] /\ manifests'[g] = manifests[g]
    BY <1>4 DEF Dropping
  <1> QED
    BY <1>2, <1>3, <1>4

\* What the database may still do for a dead command, as the live ones see it.
LEMMA StrayFacts ==
    ASSUME HistoryInv, ExecuteStray
    PROVE  \E s \in stray :
              /\ StrayInv(s)
              /\ stray' = stray \ {s}
              /\ UNCHANGED <<cursor, progress, pointer, checkpoints, writer, run, shared, exclusive, pc>>
              /\ rows' \subseteq rows /\ markers' \subseteq markers
              /\ \A n \in rows \ rows' : s.do = "dropDay" /\ Day(n) = s.of /\ Spent(s, n)
              /\ \A n \in markers \ markers' : s.do = "dropMonth" /\ Spent(s, n)
              /\ storage' \in [Gens -> SUBSET Blocks] /\ manifests' \in [Gens -> Blocks \cup {None}]
              /\ \A g \in Gens : (s.do \notin Dropping => s.of # g) =>
                    storage'[g] = storage[g] /\ manifests'[g] = manifests[g]
              /\ job' = [q \in Procs |-> IF Strikes(s, q) THEN [job[q] EXCEPT !.struck = TRUE]
                                         ELSE job[q]]
  <1>1. PICK s \in stray :
            /\ stray' = stray \ {s}
            /\ rows' = IF s.do = "dropDay" THEN {n \in rows : Day(n) # s.of} ELSE rows
            /\ markers' = IF s.do = "dropMonth" THEN {n \in markers : Month(n) # s.of} ELSE markers
            /\ manifests' = [g \in Gens |-> CASE s.do = "dropManifest" /\ g = s.of -> None
                                           [] s.do = "insertManifest" /\ g = s.of -> s.number
                                           [] OTHER -> manifests[g]]
            /\ storage' = [g \in Gens |-> CASE s.do = "dropStorage" /\ g = s.of -> {}
                                         [] s.do = "insertStorage" /\ g = s.of ->
                                               storage[g] \cup s.blocks
                                         [] OTHER -> storage[g]]
            /\ job' = [q \in Procs |-> IF Strikes(s, q) THEN [job[q] EXCEPT !.struck = TRUE]
                                       ELSE job[q]]
            /\ UNCHANGED <<position, pointer, checkpoints, locks, pc>>
    BY DEF ExecuteStray
  <1>2. StrayInv(s)
    BY DEF HistoryInv
  <1>3. /\ rows' \subseteq rows
        /\ \A n \in rows \ rows' : s.do = "dropDay" /\ Day(n) = s.of /\ Spent(s, n)
    BY <1>1, <1>2 DEF StrayInv
  <1>4. /\ markers' \subseteq markers
        /\ \A n \in markers \ markers' : s.do = "dropMonth" /\ Spent(s, n)
    BY <1>1, <1>2 DEF StrayInv
  <1>5. /\ storage' \in [Gens -> SUBSET Blocks] /\ manifests' \in [Gens -> Blocks \cup {None}]
        /\ \A g \in Gens : (s.do \notin Dropping => s.of # g) =>
              storage'[g] = storage[g] /\ manifests'[g] = manifests[g]
    BY <1>1, StrayGenerations
  <1> QED
    BY <1>1, <1>2, <1>3, <1>4, <1>5 DEF position, locks

\* A statement that takes effect when its command is long gone breaks nothing
\* that the live commands rely on, unless it strikes a build.
LEMMA ExecuteStep ==
    ASSUME HistoryInv, ExecuteStray
    PROVE  HistoryInv'
  <1>1. PICK s \in stray :
              /\ StrayInv(s)
              /\ stray' = stray \ {s}
              /\ UNCHANGED <<cursor, progress, pointer, checkpoints, writer, run, shared, exclusive, pc>>
              /\ rows' \subseteq rows /\ markers' \subseteq markers
              /\ \A n \in rows \ rows' : s.do = "dropDay" /\ Day(n) = s.of /\ Spent(s, n)
              /\ \A n \in markers \ markers' : s.do = "dropMonth" /\ Spent(s, n)
              /\ storage' \in [Gens -> SUBSET Blocks] /\ manifests' \in [Gens -> Blocks \cup {None}]
              /\ \A g \in Gens : (s.do \notin Dropping => s.of # g) =>
                    storage'[g] = storage[g] /\ manifests'[g] = manifests[g]
              /\ job' = [q \in Procs |-> IF Strikes(s, q) THEN [job[q] EXCEPT !.struck = TRUE]
                                         ELSE job[q]]
    BY StrayFacts
  <1>2. /\ TypeInv /\ LockInv /\ RestInv /\ job \in [Procs -> Jobs]
        /\ cursor # None => cursor \in Int
        /\ progress # None => progress \in Int /\ progress <= cursor /\ cursor # None
        /\ pointer # None => pointer.gen \in Gens /\ pointer.number \in Int
        /\ rows \subseteq Int /\ markers \subseteq Int /\ StartBlock \in Int
    <2>1. TypeInv /\ LockInv /\ RestInv
      BY DEF HistoryInv
    <2>2. \A x \in Pointers : x.gen \in Gens /\ x.number \in Int
      BY HistoryAssumption DEF Pointers, Blocks
    <2>3. Blocks \subseteq Int /\ StartBlock \in Int
      BY NumbersFit
    <2>4. /\ cursor \in Blocks \cup {None} /\ progress \in Blocks \cup {None}
          /\ pointer \in Pointers \cup {None} /\ rows \subseteq Blocks /\ markers \subseteq Blocks
          /\ job \in [Procs -> Jobs]
      BY ONLY <2>1 DEF TypeInv
    <2>5. progress # None => progress <= cursor /\ cursor # None
      BY <2>1 DEF RestInv, CursorBlockKept
    <2> QED
      BY <2>1, <2>2, <2>3, <2>4, <2>5
  <1>3. ASSUME NEW q \in Procs
        PROVE  /\ job'[q] \in Jobs
               /\ job'[q] = job[q] \/ (Strikes(s, q) /\ job'[q] = [job[q] EXCEPT !.struck = TRUE])
               /\ job'[q].op = job[q].op /\ job'[q].stop = job[q].stop
               /\ job'[q].next = job[q].next /\ job'[q].end = job[q].end
               /\ job'[q].base = job[q].base /\ job'[q].from = job[q].from
               /\ job'[q].keep = job[q].keep /\ job'[q].gen = job[q].gen
               /\ job'[q].days = job[q].days /\ job'[q].months = job[q].months
               /\ job'[q].covers = job[q].covers
    <2>1. job[q] \in Jobs
      BY <1>2
    <2>2. job'[q] = IF Strikes(s, q) THEN [job[q] EXCEPT !.struck = TRUE] ELSE job[q]
      BY <1>1
    <2>3. /\ [job[q] EXCEPT !.struck = TRUE] \in Jobs
          /\ job'[q] \in {job[q], [job[q] EXCEPT !.struck = TRUE]}
      BY <2>1, <2>2 DEF Jobs
    <2>4. ASSUME NEW r \in {job[q], [job[q] EXCEPT !.struck = TRUE]}
          PROVE  /\ r.op = job[q].op /\ r.stop = job[q].stop /\ r.next = job[q].next
                 /\ r.end = job[q].end /\ r.base = job[q].base /\ r.from = job[q].from
                 /\ r.keep = job[q].keep /\ r.gen = job[q].gen /\ r.days = job[q].days
                 /\ r.months = job[q].months /\ r.covers = job[q].covers
      BY <2>1, <2>4 DEF Jobs
    <2> QED
      BY <2>1, <2>2, <2>3, <2>4
  <1>4. TypeInv'
    <2>1. job' \in [Procs -> Jobs]
      BY <1>1, <1>3
    <2> QED
      BY <1>1, <1>2, <2>1 DEF TypeInv
  <1>5. LockInv'
    BY <1>1, <1>2 DEF LockInv, OwnLocks
  <1>6. /\ pointer # None => /\ manifests'[pointer.gen] = manifests[pointer.gen]
                             /\ storage'[pointer.gen] = storage[pointer.gen]
        /\ \A n \in rows \ rows' : progress # None /\ n < progress
        /\ \A n \in markers \ markers' : progress # None /\ n < progress
        /\ checkpoints = {} => \A n \in rows \ rows' : pointer # None /\ n < pointer.number
    <2>1. pointer # None => (s.do \notin Dropping => s.of # pointer.gen)
      BY <1>1 DEF StrayInv
    <2>2. s.do \in Dropping => /\ progress # None
                               /\ s.keep = None => pointer # None
                               /\ s.keep # None => checkpoints # {}
      BY <1>1 DEF StrayInv
    <2>3. "dropDay" \in Dropping /\ "dropMonth" \in Dropping
      BY DEF Dropping
    <2> QED
      BY <1>1, <1>2, <2>1, <2>2, <2>3 DEF Spent
  <1>7. RestInv'
    <2>1. CursorBlockKept'
      BY <1>1, <1>2, <1>6 DEF RestInv, CursorBlockKept, Backed
    <2>2. PrefixValid'
      BY <1>1, <1>2, <1>6 DEF RestInv, InitialStateKept, PrefixValid
    <2>3. checkpoints = {} /\ cursor # None => First..cursor \subseteq rows'
      <3> SUFFICES ASSUME checkpoints = {}, cursor # None, NEW n \in First..cursor
                   PROVE  n \in rows'
        OBVIOUS
      <3>1. n \in rows
        BY <1>2 DEF RestInv, InitialStateKept, First
      <3> QED
        BY <1>2, <1>6, <3>1 DEF First
    <2> QED
      BY <1>1, <1>2, <2>1, <2>2, <2>3 DEF RestInv, InitialStateKept, First
  <1>8. ASSUME NEW q \in Procs
        PROVE  JobInv(q)' /\ StepInv(q)'
    <2>1. JobInv(q) /\ CompactInv(q) /\ DropInv(q) /\ FoldInv(q) /\ GrowthInv(q)
      BY DEF HistoryInv, StepInv
    <2>2. JobInv(q)'
      BY <1>1, <1>3, <2>1 DEF JobInv
    <2>3. CompactInv(q)'
      <3>1. ASSUME pc[q] \in {"dropOld", "foldBlocks"}
            PROVE  First..job[q].end \subseteq rows'
        <4>1. checkpoints = {} /\ First..job[q].end \subseteq rows
          BY <2>1, <3>1 DEF CompactInv, JobInv, CompactSteps, ExclusiveSteps
        <4> SUFFICES ASSUME NEW n \in First..job[q].end PROVE n \in rows'
          OBVIOUS
        <4> QED
          BY <1>2, <1>6, <4>1 DEF First
      <3>2. ASSUME pc[q] \in {"foldBlocks", "genManifest", "commit"}
            PROVE  /\ storage'[job[q].gen] = storage[job[q].gen]
                   /\ manifests'[job[q].gen] = manifests[job[q].gen]
        BY <1>1, <2>1, <3>2 DEF CompactInv
      <3>3. First' = First
        BY <1>1 DEF First
      <3> QED
        BY <1>1, <1>3, <2>1, <3>1, <3>2, <3>3 DEF CompactInv
    <2>4. DropInv(q)'
      BY <1>1, <1>3, <2>1 DEF DropInv, Expendable, Day, Month
    <2>5. FoldInv(q)'
      <3>1. CASE pc[q] = "fold"
        <4>1. job[q].end \in Blocks /\ job[q].base \in Checkpoints \cup {None}
          BY <2>1, <3>1 DEF JobInv, BuildSteps, ReadSteps
        <4>2. /\ job[q].from \in StartBlock..(job[q].end + 1)
              /\ Behind(q) = StartBlock..(job[q].from - 1)
              /\ ~job[q].struck => job[q].from..job[q].end \subseteq rows
              /\ pointer # None => pointer.number < job[q].from
              /\ job[q].gen # None => pointer # None /\ job[q].gen = pointer.gen
          BY <2>1, <3>1 DEF FoldInv
        <4>3. Behind(q)' = Behind(q)
          <5>1. job'[q].base = job[q].base /\ job'[q].gen = job[q].gen
            BY <1>3
          <5>2. job[q].gen # None => storage'[job[q].gen] = storage[job[q].gen]
            BY <1>6, <4>2
          <5> QED
            BY ONLY <5>1, <5>2 DEF Behind
        <4>4. job[q].end \in Int /\ job[q].from \in Int
          BY <1>2, <4>1, <4>2, HistoryAssumption DEF Blocks
        <4>5. job[q].base # None => /\ job[q].base.number \in Int
                                   /\ job[q].base.number < job[q].from
          <5>1. \A c \in Checkpoints : c.number \in Int /\ StartBlock <= c.number
            BY HistoryAssumption DEF Checkpoints, Blocks
          <5>2. job[q].base # None => /\ job[q].base.number \in Int
                                     /\ job[q].base.number \in Behind(q)
            BY <1>2, <4>1, <5>1 DEF Behind
          <5> QED
            BY <1>2, <4>2, <4>4, <5>2
        <4>6. ASSUME ~job'[q].struck, NEW n \in job[q].from..job[q].end
              PROVE  n \in rows'
          <5>1. ~job[q].struck /\ ~Strikes(s, q)
            BY <1>1, <1>2, <1>3, <4>6 DEF Jobs
          <5>2. n \in rows /\ n \in Int /\ job[q].from <= n
            BY <4>2, <4>4, <5>1
          <5> SUFFICES ASSUME n \notin rows' PROVE FALSE
            OBVIOUS
          <5>3. s.do = "dropDay" /\ Day(n) = s.of /\ Spent(s, n)
            BY <1>1, <5>2
          <5>4. CASE s.keep = None
            <6>1. pointer # None /\ n < pointer.number
              BY <1>1, <5>3, <5>4 DEF StrayInv, Dropping, Spent
            <6> QED
              BY <1>2, <4>2, <4>4, <5>2, <6>1
          <5>5. CASE s.keep # None
            <6>1. job[q].base \in s.spares
              BY <3>1, <5>1, <5>2, <5>3, <5>5, <4>6 DEF Strikes
            <6>2. job[q].base # None
              <7>1. None \notin Checkpoints
                BY HistoryAssumption DEF Checkpoints
              <7>2. s.spares \subseteq Checkpoints
                BY <1>1, <5>3 DEF StrayInv, Dropping
              <7> QED
                BY <6>1, <7>1, <7>2
            <6>3. n <= job[q].base.number
              BY <5>3, <5>5, <6>1 DEF Spent
            <6> QED
              BY <4>4, <4>5, <5>2, <6>2, <6>3
          <5> QED
            BY <5>4, <5>5
        <4>7. pc'[q] = "fold" /\ (~job'[q].struck => job[q].from..job[q].end \subseteq rows')
          BY <1>1, <3>1, <4>6
        <4> QED
          BY <1>1, <1>3, <4>2, <4>3, <4>7 DEF FoldInv
      <3>2. CASE pc[q] # "fold"
        <4>1. ~Strikes(s, q) /\ job'[q] = job[q]
          BY <1>3, <3>2 DEF Strikes
        <4> QED
          BY <1>1, <2>1, <3>2, <4>1 DEF FoldInv
      <3> QED
        BY <3>1, <3>2
    <2>6. GrowthInv(q)'
      BY <1>1, <1>3, <2>1 DEF GrowthInv, Measured
    <2> QED
      BY <2>2, <2>3, <2>4, <2>5, <2>6 DEF StepInv
  <1>9. ASSUME NEW r \in stray'
        PROVE  StrayInv(r)'
    <2>1. StrayInv(r)
      BY <1>1 DEF HistoryInv
    <2> QED
      BY <1>1, <1>2, <1>4, <2>1, StrayKept
  <1> QED
    BY <1>4, <1>5, <1>7, <1>8, <1>9 DEF HistoryInv

LEMMA HistoryStep ==
    ASSUME HistoryInv, [Next]_vars
    PROVE  HistoryInv'
  <1>1. ASSUME NEW p \in Procs, ProcNext(p)
        PROVE  HistoryInv'
    <2>1. ASSUME NEW q \in Procs
          PROVE  JobInv(q)' /\ StepInv(q)'
      <3>1. CASE q = p
        BY <1>1, <3>1, JobStep, OwnStep
      <3>2. CASE q # p
        <4>1. pc'[q] = pc[q] /\ job'[q] = job[q] /\ JobInv(q)
          BY <1>1, <3>2, ProcMoves, MovesOne DEF HistoryInv
        <4>2. JobInv(q)'
          BY <4>1 DEF JobInv
        <4> QED
          BY <1>1, <3>2, <4>2, OthersStep
      <3> QED
        BY <3>1, <3>2
    <2> QED
      BY <1>1, <2>1, TypeStep, LockStep, RestStep, StrayStep DEF HistoryInv
  <1>2. CASE UNCHANGED vars
    <2>1. TypeInv' /\ LockInv' /\ RestInv'
      BY <1>2 DEF vars, HistoryInv, TypeInv, LockInv, OwnLocks, RestInv, InitialStateKept, PrefixValid,
         CursorBlockKept, Backed
    <2>2. \A p \in Procs : JobInv(p)' /\ StepInv(p)'
      BY <1>2 DEF vars, HistoryInv, JobInv, StepInv, CompactInv, DropInv, FoldInv, GrowthInv, Measured,
         First, Behind, Expendable, Day, Month
    <2>3. \A s \in stray' : StrayInv(s)'
      BY <1>2 DEF vars, HistoryInv, StrayInv, Spent, Day, Month
    <2> QED
      BY <2>1, <2>2, <2>3 DEF HistoryInv
  <1> QED
    BY <1>1, <1>2, StoreStep, ExecuteStep DEF Next, ProcNext

LEMMA HistoryInit ==
    Init => HistoryInv
  <1> SUFFICES ASSUME Init PROVE HistoryInv
    OBVIOUS
  <1>1. TypeInv
    BY NoJobTyped DEF Init, TypeInv, Steps
  <1>2. LockInv
    BY DEF Init, LockInv, OwnLocks, ExclusiveSteps, CompactSteps, ReadSteps
  <1>3. RestInv
    BY DEF Init, RestInv, InitialStateKept, PrefixValid, CursorBlockKept
  <1>4. \A p \in Procs : pc[p] = "idle"
    BY DEF Init
  <1>5. \A p \in Procs : JobInv(p)
    BY <1>4 DEF Init, NoJob, JobInv, OpenSteps, ExclusiveSteps, CompactSteps, IngestSteps,
                BuildSteps, ReadSteps
  <1>7. stray = {}
    BY DEF Init
  <1>6. \A p \in Procs : StepInv(p)
    BY <1>4 DEF StepInv, CompactInv, DropInv, FoldInv, GrowthInv, CompactSteps, GrowthSteps
  <1> QED
    BY <1>1, <1>2, <1>3, <1>5, <1>6, <1>7 DEF HistoryInv

\* Everything that ingestion, compaction, replay, cleanup, builds and the growth
\* recorder rely on between their steps holds in every reachable state, with any
\* number of statements that the database completes when their commands are gone
\* (ch.rs: execute gives up on its client's timeout, not on the statement).
THEOREM HistoryInvariant == Spec => []HistoryInv
  BY HistoryInit, HistoryStep, PTL DEF Spec

\* Until a checkpoint holds the initial state, the committed generation and the
\* blocks after it hold it, wherever compaction was interrupted (bootstrap.rs:
\* compact_locked commits its pointer before it drops anything).
THEOREM InitialStateIsKept == Spec => []InitialStateKept
  <1>1. HistoryInv => InitialStateKept
    BY DEF HistoryInv, RestInv
  <1> QED
    BY <1>1, HistoryInvariant, PTL

\* No drop of partitions takes the block row or the marker of the cursor or of
\* its backup (bootstrap.rs: compact_locked; history.rs: cleanup).
THEOREM CursorBlockIsKept == Spec => []CursorBlockKept
  <1>1. HistoryInv => CursorBlockKept
    BY DEF HistoryInv, RestInv
  <1> QED
    BY <1>1, HistoryInvariant, PTL

\* Whatever runs beside them, a validated build and a compaction fold every
\* block up to their target (checkpoint.rs: verified_source; bootstrap.rs), also
\* when a dead command's statement is completed in between; only a build that a
\* cleanup without its base among the ready checkpoints strikes may miss some.
THEOREM FoldsAreComplete == Spec => []FoldComplete
  <1>1. HistoryInv => FoldComplete
    BY DEF HistoryInv, StepInv, FoldInv, CompactInv, FoldComplete
  <1> QED
    BY <1>1, HistoryInvariant, PTL

\* The growth recorder, without a lock, takes no partly dropped generation for
\* the prefix: pointers never return to an older generation (qualification.rs).
THEOREM GrowthIsWhole == Spec => []GrowthWhole
  <1>1. HistoryInv => GrowthWhole
    BY DEF HistoryInv, StepInv, GrowthInv, GrowthWhole
  <1> QED
    BY <1>1, HistoryInvariant, PTL

\* Block rows disappear only partition by partition, under the locks of a plan
\* or by the statement of a command that had them.
LEMMA RowsDropped ==
    ASSUME HistoryInv, Next
    PROVE  \/ rows \subseteq rows'
           \/ \E p \in Procs : /\ pc[p] = "drop" /\ UNCHANGED <<cursor, checkpoints>>
                               /\ UNCHANGED stray /\ \A q \in Procs \ {p} : job'[q] = job[q]
                               /\ \A n \in rows \ rows' : Expendable(p, n)
           \/ \E s \in stray : /\ stray' = stray \ {s} /\ StrayInv(s) /\ s.do = "dropDay"
                               /\ \A q \in Procs : job'[q].days = job[q].days
                               /\ \A n \in rows \ rows' : Spent(s, n)
  <1> USE DEF stored, history, position, prefix
  <1>1. ASSUME NEW p \in Procs, ProcNext(p), ~DropDay(p)
        PROVE  rows \subseteq rows'
    <2>1. CASE ~Writes(p)
      BY <1>1, <2>1, OthersRead
    <2>2. CASE Writes(p)
      BY <1>1, <2>2 DEF Writes, AdmitIngest, Sink, Ingested, DropOldGeneration, FoldPrefix, FoldBlocks,
         InsertGeneration, CommitPointer, DropMonth, NextChunk, Publish
    <2> QED
      BY <2>1, <2>2
  <1>2. ASSUME NEW p \in Procs, DropDay(p)
        PROVE  /\ pc[p] = "drop" /\ UNCHANGED <<cursor, checkpoints>>
               /\ UNCHANGED stray /\ \A q \in Procs \ {p} : job'[q] = job[q]
               /\ \A n \in rows \ rows' : Expendable(p, n)
    BY <1>2 DEF DropDay, HistoryInv, StepInv, DropInv
  <1>3. CASE ImportCheckpoint \/ RetireCheckpoint
    BY <1>3 DEF ImportCheckpoint, RetireCheckpoint
  <1>4. CASE ExecuteStray
    <2>1. PICK s \in stray :
              /\ StrayInv(s) /\ stray' = stray \ {s}
              /\ \A n \in rows \ rows' : s.do = "dropDay" /\ Day(n) = s.of /\ Spent(s, n)
              /\ job' = [q \in Procs |-> IF Strikes(s, q) THEN [job[q] EXCEPT !.struck = TRUE]
                                         ELSE job[q]]
      BY <1>4, StrayFacts
    <2>2. \A q \in Procs : job'[q].days = job[q].days
      BY <2>1 DEF HistoryInv, TypeInv, Jobs
    <2> QED
      BY <2>1, <2>2
  <1> QED
    BY <1>1, <1>2, <1>3, <1>4 DEF Next, ProcNext

\* A checkpoint that could be continued from the stored history still can be
\* after any step that keeps the checkpoint (history.rs: the cutoff below every
\* ready checkpoint; bootstrap.rs: require_initial), unless it became ready after
\* the command died whose statement the step completes.
THEOREM ContinuationIsKept == Spec => ContinuationKept
  <1> DEFINE A == \A c \in checkpoints \cap checkpoints' :
                      cursor # None /\ (c.number + 1)..cursor \subseteq rows
                          => \/ (c.number + 1)..cursor \subseteq rows'
                             \/ \E s \in stray \ stray' : c \notin s.spares
  <1>1. ASSUME HistoryInv, Next PROVE A
    <2>1. CASE rows \subseteq rows'
      BY <2>1
    <2>2. ASSUME NEW p \in Procs, pc[p] = "drop", NEW c \in checkpoints,
                 \A n \in rows \ rows' : Expendable(p, n),
                 cursor # None, (c.number + 1)..cursor \subseteq rows
          PROVE  (c.number + 1)..cursor \subseteq rows'
      <3>1. job[p].op = "cleanup"
        BY <1>1, <2>2 DEF HistoryInv, StepInv, CompactInv, CompactSteps
      <3>2. c.number \in Int /\ cursor \in Int
        <4>1. c.number \in Blocks /\ cursor \in Blocks
          BY <1>1, <2>2 DEF HistoryInv, TypeInv, Checkpoints
        <4> QED
          BY <4>1, HistoryAssumption DEF Blocks
      <3>3. \A n \in (c.number + 1)..cursor : ~Expendable(p, n)
        BY <2>2, <3>1, <3>2 DEF Expendable
      <3> QED
        BY <2>2, <3>3
    <2>3. ASSUME NEW s \in stray, StrayInv(s), s.do = "dropDay", NEW c \in checkpoints,
                 \A n \in rows \ rows' : Spent(s, n), c \in s.spares,
                 cursor # None, (c.number + 1)..cursor \subseteq rows
          PROVE  (c.number + 1)..cursor \subseteq rows'
      <3>1. s.keep # None
        BY <2>3 DEF StrayInv, Dropping
      <3>2. c.number \in Int /\ cursor \in Int
        <4>1. c.number \in Blocks /\ cursor \in Blocks
          BY <1>1, <2>3 DEF HistoryInv, TypeInv, Checkpoints
        <4> QED
          BY <4>1, HistoryAssumption DEF Blocks
      <3>3. \A n \in rows \ rows' : n <= c.number
        BY <2>3, <3>1 DEF Spent
      <3> QED
        BY <2>3, <3>2, <3>3
    <2> QED
      BY <1>1, <2>1, <2>2, <2>3, RowsDropped
  <1>2. ASSUME UNCHANGED vars PROVE A
    BY <1>2 DEF vars
  <1>3. HistoryInv /\ [Next]_vars => [A]_vars
    BY <1>1, <1>2
  <1> QED
    BY <1>3, HistoryInvariant, PTL DEF Spec, ContinuationKept

\* History cleanup drops none of the last --keep-blocks blocks (history.rs), not
\* even when it is dead and the database completes its statement later.
THEOREM RecentBlocksAreKept == Spec => RecentBlocksKept
  <1> DEFINE A == /\ \A p \in Procs : job[p].op = "cleanup" /\ job'[p].days # job[p].days =>
                         Recent(job[p].keep) \subseteq rows'
                  /\ \A s \in stray \ stray' : s.keep # None => Recent(s.keep) \subseteq rows'
  <1>1. ASSUME HistoryInv, Next PROVE A
    <2>0. \A n \in rows : n \in Int
      BY <1>1, NumbersFit DEF HistoryInv, TypeInv
    <2>1. CASE rows \subseteq rows'
      BY <2>1 DEF Recent
    <2>2. ASSUME NEW q \in Procs, pc[q] = "drop", \A n \in rows \ rows' : Expendable(q, n),
                 \A p \in Procs \ {q} : job'[p] = job[p], job[q].op = "cleanup"
          PROVE  Recent(job[q].keep) \subseteq rows'
      <3>1. cursor \in Int /\ job[q].keep \in Int
        <4>1. cursor \in Blocks /\ job[q].keep \in KeepBlocks
          BY <1>1, <2>2 DEF HistoryInv, StepInv, DropInv, TypeInv, JobInv, ExclusiveSteps,
                            CompactSteps
        <4>2. Blocks \subseteq Int
          BY HistoryAssumption DEF Blocks
        <4> QED
          BY <4>1, <4>2, KeepPositive
      <3>2. \A n \in (cursor - job[q].keep + 1)..cursor : ~Expendable(q, n)
        BY <2>2, <3>1 DEF Expendable
      <3> QED
        BY <2>2, <3>2 DEF Recent
    <2>3. ASSUME NEW s \in stray, StrayInv(s), s.do = "dropDay", s.keep # None,
                 \A n \in rows \ rows' : Spent(s, n)
          PROVE  Recent(s.keep) \subseteq rows'
      <3>1. progress # None /\ s.keep \in KeepBlocks
        BY <2>3 DEF StrayInv, Dropping
      <3>2. cursor \in Int /\ s.keep \in Int
        <4>1. cursor # None /\ cursor \in Blocks \cup {None}
          BY <1>1, <3>1 DEF HistoryInv, TypeInv, RestInv
        <4>2. Blocks \subseteq Int
          BY HistoryAssumption DEF Blocks
        <4> QED
          BY <3>1, <4>1, <4>2, KeepPositive
      <3>3. \A n \in rows \ rows' : n < cursor - s.keep + 1
        BY <2>3 DEF Spent
      <3> QED
        BY <2>0, <3>2, <3>3 DEF Recent
    <2>4. ASSUME NEW q \in Procs, pc[q] = "drop", UNCHANGED stray,
                 \A p \in Procs \ {q} : job'[p] = job[p],
                 \A n \in rows \ rows' : Expendable(q, n)
          PROVE  A
      <3>2. job[q].op = "cleanup" => Recent(job[q].keep) \subseteq rows'
        BY <2>2, <2>4
      <3>3. \A p \in Procs : job'[p].days # job[p].days => p = q
        BY <2>4, Zenon
      <3> QED
        <4>1. ASSUME NEW p \in Procs, job[p].op = "cleanup", job'[p].days # job[p].days
              PROVE  Recent(job[p].keep) \subseteq rows'
          <5>1. p = q
            BY <3>3, <4>1
          <5> QED
            BY <3>2, <4>1, <5>1, Zenon
        <4>2. \A s \in stray \ stray' : FALSE
          BY <2>4
        <4> QED
          BY <4>1, <4>2, Zenon
    <2>5. ASSUME NEW s \in stray, stray' = stray \ {s}, StrayInv(s), s.do = "dropDay",
                 \A q \in Procs : job'[q].days = job[q].days,
                 \A n \in rows \ rows' : Spent(s, n)
          PROVE  A
      <3>2. s.keep # None => Recent(s.keep) \subseteq rows'
        BY <2>3, <2>5
      <3> QED
        <4>1. \A p \in Procs : job'[p].days = job[p].days
          BY <2>5
        <4>2. \A r \in stray \ stray' : r = s
          BY <2>5
        <4> QED
          BY <3>2, <4>1, <4>2, Zenon
    <2> QED
      BY <1>1, <2>1, <2>4, <2>5, RowsDropped
  <1>2. ASSUME UNCHANGED vars PROVE A
    BY <1>2 DEF vars
  <1>3. HistoryInv /\ [Next]_vars => [A]_vars
    BY <1>1, <1>2
  <1> QED
    BY <1>3, HistoryInvariant, PTL DEF Spec, RecentBlocksKept
============================================================================
